------------------------- MODULE DecompressPoolProofs -------------------------
(***************************************************************************)
(* Proofs about DecompressPool, for any number of workers and blocks, any  *)
(* batch size and any archive.                                             *)
(*                                                                         *)
(* The inductive invariant is built like that of CompressPoolProofs: an    *)
(* assignment p of batches to places (Placed), the range of blocks in each *)
(* (Filled, Tiled) and the order in which goroutines end (Closing).  What  *)
(* is in a batch at each place is different (Stored), since here it is the *)
(* outputs that are recycled.  A crash changes program counters only, so   *)
(* everything said about buffers stays true of a dead process.             *)
(***************************************************************************)
EXTENDS DecompressPool, Foundations

Places == {"free", "reader", "jobs", "worker", "results", "pending", "collector"}

(* p tells where each batch is.                                            *)
Placed(p) ==
  /\ p \in [Batches -> Places]
  /\ NoDup(free) /\ NoDup(jobs) /\ NoDup(results)
  /\ \A v, w \in Workers : wbatch[v] = wbatch[w] /\ wbatch[v] # NoBatch => v = w
  /\ \A x, y \in 0 .. NumBlocks : pending[x] = pending[y] /\ pending[x] # NoBatch => x = y
  /\ \A b \in Batches :
       /\ p[b] = "free" <=> b \in Elems(free)
       /\ p[b] = "jobs" <=> b \in Elems(jobs)
       /\ p[b] = "results" <=> b \in Elems(results)
       /\ p[b] = "reader" <=> rbatch = b
       /\ p[b] = "worker" <=> \E w \in Workers : wbatch[w] = b
       /\ p[b] = "pending" <=> \E x \in 0 .. NumBlocks : pending[x] = b
       /\ p[b] = "collector" <=> cbatch = b

(* A goroutine holds a batch exactly where its code has one in hand, until *)
(* the process dies.                                                       *)
Holding ==
  /\ rpc \in {"fill", "send"} => rbatch # NoBatch
  /\ rbatch # NoBatch => rpc \in {"fill", "send", "dead"}
  /\ \A w \in Workers : wpc[w] = "decode" => wbatch[w] # NoBatch
  /\ \A w \in Workers : wbatch[w] # NoBatch => wpc[w] \in {"decode", "dead"}
  /\ cpc = "write" => cbatch # NoBatch
  /\ cbatch # NoBatch => cpc \in {"write", "dead"}

(* A batch in use holds consecutive blocks already read and not yet        *)
(* written; only the batch of a failed read can be empty.                  *)
Filled(p) ==
  /\ \A b \in Batches : p[b] # "free" =>
       /\ next <= firstBlock[b]
       /\ firstBlock[b] + n[b] <= i
       /\ p[b] = "reader" => firstBlock[b] + n[b] = i
       /\ p[b] # "reader" /\ n[b] = 0 => readFailed /\ firstBlock[b] = i
  /\ next <= i
  /\ rpc = "fill" => ~readFailed /\ (n[rbatch] = 0 => i < NumBlocks)
  /\ rpc = "send" /\ n[rbatch] = 0 => readFailed

(* d is what block k may come out as: its length, and its bytes if they    *)
(* can be had.                                                             *)
Right(d, k) == /\ d.len = OriginalBlock(k).len
               /\ archive.decodes[k] = "own" => d = OriginalBlock(k)

(* Slot s of b waits to be decoded, or has been.                           *)
Loaded(b, s) == inputs[b][s] = firstBlock[b] + s
Ready(b, s) == Right(outs[b][s], firstBlock[b] + s)

(* What is in the slots: compressed blocks until a worker has passed them, *)
(* then decoded ones until the collector has, each with its own length.    *)
Stored(p) ==
  /\ \A b \in Batches : p[b] # "free" =>
       \A s \in Slots : s < n[b] => nwBytes[b][s] = BlockLength(firstBlock[b] + s)
  /\ \A b \in Batches : p[b] \in {"reader", "jobs"} =>
       \A s \in Slots : s < n[b] => Loaded(b, s)
  /\ \A b \in Batches : p[b] \in {"results", "pending"} =>
       \A s \in Slots : s < n[b] => Ready(b, s)
  /\ \A w \in Workers : wbatch[w] # NoBatch =>
       /\ wj[w] <= n[wbatch[w]]
       /\ \A s \in Slots : s < wj[w] => Ready(wbatch[w], s)
       /\ \A s \in Slots : wj[w] <= s /\ s < n[wbatch[w]] => Loaded(wbatch[w], s)
  /\ \A x \in 0 .. NumBlocks : pending[x] # NoBatch => firstBlock[pending[x]] = x
  /\ cbatch # NoBatch =>
       /\ firstBlock[cbatch] = next /\ cj <= n[cbatch]
       /\ \A s \in Slots : cj <= s /\ s < n[cbatch] => Ready(cbatch, s)
  /\ Len(out) = next + (IF cbatch # NoBatch THEN cj ELSE 0)

(* The batches in use tile the blocks from next to i - 1.                  *)
Tiled(p) ==
  /\ \A a, b \in Batches : a # b /\ p[a] # "free" /\ p[b] # "free" =>
       /\ firstBlock[a] + n[a] <= firstBlock[b] \/ firstBlock[b] + n[b] <= firstBlock[a]
       /\ n[a] > 0 \/ n[b] > 0
  /\ \A x \in 0 .. NumBlocks : next <= x /\ x < i =>
       \E b \in Batches : p[b] # "free" /\ firstBlock[b] <= x /\ x < firstBlock[b] + n[b]
  /\ cpc \in {"receive", "done"} => pending[next] = NoBatch

(* The order in which the goroutines finish, or all die at once.           *)
Closing ==
  /\ rpc \in {"join", "done"} => jobsClosed
  /\ jobsClosed => rpc \in {"join", "done", "dead"} /\ (readFailed \/ i = NumBlocks)
  /\ \A w \in Workers : wpc[w] = "exited" => jobsClosed /\ jobs = <<>>
  /\ resultsClosed => \A w \in Workers : wpc[w] = "exited"
  /\ cpc = "done" => resultsClosed /\ results = <<>>
  /\ rpc = "done" => cpc = "done"
  /\ rpc = "dead" => cpc = "dead" /\ \A w \in Workers : wpc[w] = "dead"

IInv == /\ TypeOK /\ Holding /\ Closing /\ hashed = out /\ Restores
        /\ \E p \in [Batches -> Places] : Placed(p) /\ Filled(p) /\ Stored(p) /\ Tiled(p)
-----------------------------------------------------------------------------
(* The size of the pool is a positive number.                              *)
LEMMA PoolSize == InFlight \in Nat /\ InFlight > 0 /\ 0 \notin Batches
<1>1. Cardinality(Workers) \in Nat
  BY PoolAssumption, FS_CardinalityType
<1>2. Cardinality(Workers) # 0
  BY PoolAssumption, FS_EmptySet
<1> QED BY <1>1, <1>2 DEF InFlight, Batches

(* There are as many batches as a channel has room for.                    *)
LEMMA BatchCount == IsFiniteSet(Batches) /\ Cardinality(Batches) = InFlight
BY FS_Interval, PoolSize DEF Batches

(* Before the goroutines start, every batch is on the free list.           *)
THEOREM InitIInv == Init => IInv
<1> SUFFICES ASSUME Init PROVE IInv
  OBVIOUS
<1> USE PoolAssumption, PoolSize DEF NoBatch
<1>0. free \in Seq(Batches) /\ Len(free) = InFlight /\ \A k \in 1 .. Len(free) : free[k] = k
  <2>1. free \in [1 .. InFlight -> Batches]
    BY DEF Init, Batches
  <2>2. free \in Seq(Batches) /\ Len(free) = InFlight
    BY <2>1
  <2> QED BY <2>2 DEF Init, Batches
<1>1. TypeOK
  <2>1. ChannelTypes
    <3>1. \A S : <<>> \in Seq(S)
      OBVIOUS
    <3> QED BY <1>0, <3>1 DEF Init, ChannelTypes
  <2>2. BatchTypes
    BY DEF Init, BatchTypes, NoBytes, NoBlock, Bytes
  <2>3. ReaderTypes
    <3>1. rpc \in ReaderPC /\ rbatch \in BatchOrNil
      BY DEF Init, ReaderPC, BatchOrNil
    <3>2. archive \in Archives
      BY DEF Init
    <3>3. i \in 0 .. NumBlocks
      BY DEF Init
    <3>4. readFailed \in BOOLEAN
      BY DEF Init
    <3> QED BY <3>1, <3>2, <3>3, <3>4 DEF ReaderTypes
  <2>4. WorkerTypes
    BY DEF Init, WorkerTypes, BatchOrNil, WorkerPC
  <2>5. CollectorTypes
    BY DEF Init, CollectorTypes, BatchOrNil, CollectorPC
  <2> QED BY <2>1, <2>2, <2>3, <2>4, <2>5 DEF TypeOK
<1>2. Holding /\ Closing /\ hashed = out /\ Restores
  BY DEF Init, Holding, Closing, Restores
<1>3. ASSUME NEW p \in [Batches -> Places], p = [b \in Batches |-> "free"]
      PROVE  Placed(p) /\ Filled(p) /\ Stored(p) /\ Tiled(p)
  <2>1. Elems(free) = Batches /\ NoDup(free)
    <3>1. \A b \in Batches : b \in 1 .. Len(free)
      BY <1>0 DEF Batches
    <3> QED BY <1>0, <3>1 DEF Elems, NoDup
  <2>2. \A b \in Batches : b # 0
    OBVIOUS
  <2>3. Placed(p)
    BY <1>3, <2>1, <2>2, EmptyElems DEF Init, Placed
  <2>4. Filled(p) /\ Stored(p) /\ Tiled(p)
    BY <1>3 DEF Init, Filled, Stored, Tiled
  <2> QED BY <2>3, <2>4
<1>4. [b \in Batches |-> "free"] \in [Batches -> Places]
  BY DEF Places
<1> QED BY <1>1, <1>2, <1>3, <1>4 DEF IInv

(* What a decoder leaves in a slot is a number.                            *)
LEMMA DecodedType ==
  ASSUME archive \in Archives, NEW c \in 0 .. NumBlocks - 1, NEW old \in Int,
         NEW d \in Decoded(c, old)
  PROVE  /\ d \in Int
         /\ archive.decodes[c] = "own" => d = c
<1>1. archive.decodes[c] \in {"own", "garbage", "panic"}
  BY PoolAssumption DEF Outcomes
<1>2. Garbage \in Int
  BY DEF Garbage
<1>3. CASE archive.decodes[c] = "own"
  BY <1>3 DEF Decoded
<1>4. CASE archive.decodes[c] = "garbage"
  BY <1>2, <1>4 DEF Decoded
<1>5. CASE archive.decodes[c] = "panic"
  BY <1>2, <1>5 DEF Decoded
<1> QED BY <1>1, <1>3, <1>4, <1>5

(* What a goroutine has in hand is a batch.                                *)
LEMMA InHand ==
  ASSUME ReaderTypes, WorkerTypes, CollectorTypes, Holding
  PROVE  /\ rpc \in {"fill", "send"} => rbatch \in Batches
         /\ \A w \in Workers : wpc[w] = "decode" => wbatch[w] \in Batches /\ wbatch[w] # NoBatch
         /\ cpc = "write" => cbatch \in Batches /\ cbatch # NoBatch
<1>1. rbatch \in BatchOrNil /\ cbatch \in BatchOrNil /\ \A w \in Workers : wbatch[w] \in BatchOrNil
  BY DEF ReaderTypes, WorkerTypes, CollectorTypes
<1>2. rpc \in {"fill", "send"} => rbatch \in Batches
  BY <1>1 DEF Holding, BatchOrNil
<1>3. \A w \in Workers : wpc[w] = "decode" => wbatch[w] \in Batches /\ wbatch[w] # NoBatch
  <2> SUFFICES ASSUME NEW w \in Workers, wpc[w] = "decode"
               PROVE  wbatch[w] \in Batches /\ wbatch[w] # NoBatch
    OBVIOUS
  <2>1. wbatch[w] # NoBatch
    BY DEF Holding
  <2> QED BY <1>1, <2>1 DEF BatchOrNil
<1>4. cpc = "write" => cbatch \in Batches /\ cbatch # NoBatch
  BY <1>1 DEF Holding, BatchOrNil
<1> QED BY <1>2, <1>3, <1>4

(* The slot a worker has come to holds a block of the file.                *)
LEMMA Pending ==
  ASSUME BatchTypes, ReaderTypes, WorkerTypes, CollectorTypes, Holding, NEW p \in [Batches -> Places],
         Placed(p), Filled(p), Stored(p),
         NEW w \in Workers, wpc[w] = "decode", wj[w] < n[wbatch[w]]
  PROVE  /\ wbatch[w] \in Batches /\ wj[w] \in Slots
         /\ inputs[wbatch[w]][wj[w]] = firstBlock[wbatch[w]] + wj[w]
         /\ firstBlock[wbatch[w]] + wj[w] \in 0 .. NumBlocks - 1
<1>1. wbatch[w] \in Batches /\ wbatch[w] # NoBatch
  BY InHand
<1>2. PICK b \in Batches : b = wbatch[w]
  BY <1>1
<1>3. n[b] \in 0 .. BatchSize /\ firstBlock[b] \in 0 .. NumBlocks /\ wj[w] \in 0 .. BatchSize /\ i \in 0 .. NumBlocks
  BY DEF BatchTypes, WorkerTypes, ReaderTypes
<1>4. wj[w] \in Slots /\ wj[w] < n[b]
  BY <1>2, <1>3, PoolAssumption DEF Slots
<1>5. p[b] = "worker"
  BY <1>2 DEF Placed
<1>6. firstBlock[b] + n[b] <= i
  BY <1>5 DEF Filled
<1>7. inputs[b][wj[w]] = firstBlock[b] + wj[w]
  BY <1>1, <1>2, <1>3, <1>4 DEF Stored, Loaded
<1>8. firstBlock[b] + wj[w] \in 0 .. NumBlocks - 1
  BY <1>3, <1>4, <1>6, PoolAssumption
<1> QED BY <1>1, <1>2, <1>4, <1>7, <1>8

(* Every step keeps the type invariant: one step per action, in which only *)
(* the parts of TypeOK about variables the action writes need a reason.    *)
LEMMA TypeStep == IInv /\ [Next]_vars => TypeOK'
<1> SUFFICES ASSUME IInv, [Next]_vars PROVE TypeOK'
  OBVIOUS
<1> USE PoolAssumption, PoolSize
<1>t. /\ ChannelTypes /\ BatchTypes /\ ReaderTypes /\ WorkerTypes /\ CollectorTypes
      /\ Holding
  BY DEF IInv, TypeOK
<1>p. PICK p \in [Batches -> Places] : Placed(p) /\ Filled(p) /\ Stored(p) /\ Tiled(p)
  BY DEF IInv
<1>f. \A b \in Batches : b # NoBatch
  BY DEF NoBatch
<1> USE DEF channels, batch, reader, workers, collector
<1> USE DEF ChannelTypes, BatchTypes, ReaderTypes, WorkerTypes, CollectorTypes
<1>1. CASE ReaderTake
  <2>1. Head(free) \in Batches /\ Tail(free) \in Seq(Batches)
    BY <1>t, <1>1 DEF ReaderTake
  <2>2. ChannelTypes' /\ ReaderTypes' /\ WorkerTypes' /\ CollectorTypes'
    BY <1>t, <1>1, <2>1 DEF ReaderTake, ReaderPC, BatchOrNil
  <2>3. firstBlock' \in [Batches -> 0 .. NumBlocks] /\ n' \in [Batches -> 0 .. BatchSize]
    <3>1. 0 \in 0 .. BatchSize
      OBVIOUS
    <3> QED BY <1>t, <1>1, <2>1, <3>1 DEF ReaderTake
  <2>4. BatchTypes'
    BY <1>t, <1>1, <2>3 DEF ReaderTake
  <2> QED BY <2>2, <2>4 DEF TypeOK
<1>2. CASE ReaderFill
  <2>1. rbatch \in Batches /\ n[rbatch] \in Slots /\ i \in 0 .. NumBlocks - 1 /\ i \in Int
    <3>1. rbatch \in Batches
      <4>1. rpc = "fill"
        BY <1>2 DEF ReaderFill, Filling
      <4>2. rbatch \in BatchOrNil
        BY <1>t
      <4>3. Holding
        BY <1>t
      <4> QED BY <4>1, <4>2, <4>3 DEF Holding, BatchOrNil
    <3>2. n[rbatch] \in 0 .. BatchSize /\ n[rbatch] < BatchSize /\ i \in 0 .. NumBlocks /\ i < NumBlocks
      BY <1>t, <1>2, <3>1 DEF ReaderFill, Filling
    <3> QED BY <3>1, <3>2 DEF Slots
  <2>2. ReaderTypes'
    BY <1>t, <1>2, <2>1 DEF ReaderFill
  <2>3. ChannelTypes' /\ WorkerTypes' /\ CollectorTypes'
    BY <1>t, <1>2 DEF ReaderFill
  <2>4. inputs' \in [Batches -> [Slots -> Int]]
    <3>1. inputs' = [inputs EXCEPT ![rbatch][n[rbatch]] = i]
      BY <1>2 DEF ReaderFill
    <3>2. inputs \in [Batches -> [Slots -> Int]]
      BY <1>t
    <3> QED BY <2>1, <3>1, <3>2, SlotUpdate
  <2>5. n' \in [Batches -> 0 .. BatchSize]
    <3>1. n[rbatch] + 1 \in 0 .. BatchSize
      BY <2>1 DEF Slots
    <3> QED BY <1>t, <1>2, <2>1, <3>1 DEF ReaderFill
  <2>6. nwBytes' \in [Batches -> [Slots -> 0 .. BufferSize]]
    <3>1. BlockLength(i) \in 0 .. BufferSize
      BY DEF BlockLength
    <3>2. nwBytes' = [nwBytes EXCEPT ![rbatch][n[rbatch]] = BlockLength(i)]
      BY <1>2 DEF ReaderFill
    <3>3. nwBytes \in [Batches -> [Slots -> 0 .. BufferSize]]
      BY <1>t
    <3> HIDE DEF BlockLength
    <3> QED BY <2>1, <3>1, <3>2, <3>3, SlotUpdate
  <2>7. BatchTypes'
    BY <1>t, <1>2, <2>4, <2>5, <2>6 DEF ReaderFill
  <2> QED BY <2>2, <2>3, <2>7 DEF TypeOK
<1>3. CASE ReaderFail \/ ReaderFilled \/ ReaderClose \/ ReaderJoin
  BY <1>t, <1>3 DEF TypeOK, ReaderFail, ReaderFilled, ReaderClose, ReaderJoin, ReaderPC
<1>4. CASE ReaderSend
  <2>1. rbatch \in Batches
    <3>1. rpc = "send" /\ rbatch \in BatchOrNil
      BY <1>t, <1>4 DEF ReaderSend
    <3>2. Holding
      BY <1>t
    <3> QED BY <3>1, <3>2 DEF Holding, BatchOrNil
  <2>2. ChannelTypes'
    BY <1>t, <1>4, <2>1 DEF ReaderSend
  <2>3. ReaderTypes'
    BY <1>t, <1>4 DEF ReaderSend, ReaderPC, BatchOrNil
  <2>4. BatchTypes' /\ WorkerTypes' /\ CollectorTypes'
    BY <1>t, <1>4 DEF ReaderSend
  <2> QED BY <2>2, <2>3, <2>4 DEF TypeOK
<1>5. ASSUME NEW w \in Workers, WorkerReceive(w) PROVE TypeOK'
  <2>1. Head(jobs) \in Batches /\ Tail(jobs) \in Seq(Batches)
    BY <1>t, <1>5 DEF WorkerReceive
  <2>2. ChannelTypes' /\ BatchTypes' /\ ReaderTypes' /\ CollectorTypes'
    BY <1>t, <1>5, <2>1 DEF WorkerReceive
  <2>3. WorkerTypes'
    <3>1. "decode" \in WorkerPC /\ 0 \in 0 .. BatchSize /\ Head(jobs) \in BatchOrNil
      BY <2>1 DEF WorkerPC, BatchOrNil
    <3> QED BY <1>t, <1>5, <3>1 DEF WorkerReceive
  <2> QED BY <2>2, <2>3 DEF TypeOK
<1>6. ASSUME NEW w \in Workers, WorkerDecode(w) PROVE TypeOK'
  <2>1. wbatch[w] \in Batches /\ wj[w] \in Slots /\ wj[w] + 1 \in 0 .. BatchSize
    <3>1. wbatch[w] \in Batches
      BY <1>t, <1>6, InHand DEF WorkerDecode
    <3>2. n[wbatch[w]] \in 0 .. BatchSize /\ wj[w] \in 0 .. BatchSize /\ wj[w] < n[wbatch[w]]
      BY <1>t, <1>6, <3>1 DEF WorkerDecode
    <3> QED BY <3>1, <3>2 DEF Slots
  <2>2. /\ inputs[wbatch[w]][wj[w]] \in Int /\ outBack[wbatch[w]][wj[w]] \in Int
        /\ nwBytes[wbatch[w]][wj[w]] \in Nat
    BY <1>t, <2>1
  <2>3. PICK d \in Decoded(inputs[wbatch[w]][wj[w]], outBack[wbatch[w]][wj[w]]) :
          /\ outBack' = [outBack EXCEPT ![wbatch[w]][wj[w]] = d]
          /\ outs' = [outs EXCEPT ![wbatch[w]][wj[w]] = [block |-> d, len |-> nwBytes[wbatch[w]][wj[w]]]]
    BY <1>6 DEF WorkerDecode
  <2>4. d \in Int
    <3>1. PICK k \in 0 .. NumBlocks - 1 : k = inputs[wbatch[w]][wj[w]]
      BY <1>p, <1>t, <1>6, <2>1, Pending DEF WorkerDecode
    <3>2. d \in Decoded(k, outBack[wbatch[w]][wj[w]])
      BY <2>3, <3>1
    <3>3. archive \in Archives
      BY <1>t
    <3> QED BY <2>2, <3>2, <3>3, DecodedType
  <2>5. [block |-> d, len |-> nwBytes[wbatch[w]][wj[w]]] \in Bytes
    BY <2>2, <2>4 DEF Bytes
  <2>6. inputs' = [inputs EXCEPT ![wbatch[w]][wj[w]] = NoBlock] /\ NoBlock \in Int
    BY <1>6 DEF WorkerDecode, NoBlock
  <2>7. outBack' \in [Batches -> [Slots -> Int]]
    <3>1. outBack' = [outBack EXCEPT ![wbatch[w]][wj[w]] = d]
      BY <2>3
    <3>2. outBack \in [Batches -> [Slots -> Int]]
      BY <1>t
    <3> QED BY <2>1, <2>4, <3>1, <3>2, SlotUpdate
  <2>8. outs' \in [Batches -> [Slots -> Bytes]]
    <3> DEFINE e == [block |-> d, len |-> nwBytes[wbatch[w]][wj[w]]]
    <3>1. e \in Bytes /\ outs' = [outs EXCEPT ![wbatch[w]][wj[w]] = e]
      BY <2>3, <2>5
    <3>2. outs \in [Batches -> [Slots -> Bytes]]
      BY <1>t
    <3> HIDE DEF e
    <3> QED BY <2>1, <3>1, <3>2, SlotUpdate
  <2>9. inputs' \in [Batches -> [Slots -> Int]]
    <3>1. inputs \in [Batches -> [Slots -> Int]]
      BY <1>t
    <3> QED BY <2>1, <2>6, <3>1, SlotUpdate
  <2>10. ChannelTypes' /\ ReaderTypes' /\ CollectorTypes' /\ WorkerTypes'
    BY <1>t, <1>6, <2>1 DEF WorkerDecode
  <2>11. BatchTypes'
    BY <1>t, <1>6, <2>7, <2>8, <2>9 DEF WorkerDecode
  <2> QED BY <2>10, <2>11 DEF TypeOK
<1>6c. ASSUME NEW w \in Workers, WorkerCrash(w) PROVE TypeOK'
  BY <1>t, <1>6c DEF TypeOK, WorkerCrash, ReaderPC, WorkerPC, CollectorPC
<1>7. ASSUME NEW w \in Workers, WorkerSend(w) PROVE TypeOK'
  <2>1. wbatch[w] \in Batches /\ NoBatch \in BatchOrNil /\ "receive" \in WorkerPC
    BY <1>t, <1>7, InHand DEF WorkerSend, BatchOrNil, WorkerPC
  <2>2. ChannelTypes' /\ BatchTypes' /\ ReaderTypes' /\ CollectorTypes'
    BY <1>t, <1>7, <2>1 DEF WorkerSend
  <2>3. WorkerTypes'
    BY <1>t, <1>7, <2>1 DEF WorkerSend
  <2> QED BY <2>2, <2>3 DEF TypeOK
<1>8. ASSUME NEW w \in Workers, WorkerExit(w) PROVE TypeOK'
  BY <1>t, <1>8 DEF TypeOK, WorkerExit, WorkerPC
<1>9. CASE CloseResults
  BY <1>t, <1>9 DEF TypeOK, CloseResults
<1>10. CASE CollectorReceive
  <2>1. Head(results) \in Batches /\ Tail(results) \in Seq(Batches)
    BY <1>t, <1>10 DEF CollectorReceive
  <2>2. ChannelTypes' /\ BatchTypes' /\ ReaderTypes' /\ WorkerTypes'
    BY <1>t, <1>10, <2>1 DEF CollectorReceive
  <2>3. CollectorTypes'
    BY <1>t, <1>10, <2>1 DEF CollectorReceive, CollectorPC, BatchOrNil
  <2> QED BY <2>2, <2>3 DEF TypeOK
<1>11. CASE CollectorPick
  <2>1. CollectorTypes'
    BY <1>t, <1>11 DEF CollectorPick, CollectorPC, BatchOrNil
  <2> QED BY <1>t, <1>11, <2>1 DEF TypeOK, CollectorPick
<1>12. CASE CollectorMiss \/ CollectorEnd
  BY <1>t, <1>12 DEF TypeOK, CollectorMiss, CollectorEnd, CollectorPC
<1>13. CASE CollectorWrite
  <2>1. cbatch \in Batches /\ cj \in Slots /\ cj + 1 \in 0 .. BatchSize
    <3>1. cbatch \in Batches
      BY <1>t, <1>13, InHand DEF CollectorWrite
    <3>2. cj \in 0 .. BatchSize /\ n[cbatch] \in 0 .. BatchSize /\ cj < n[cbatch]
      BY <1>t, <1>13, <3>1 DEF CollectorWrite
    <3> QED BY <3>1, <3>2 DEF Slots
  <2>2. outs[cbatch][cj] \in Bytes /\ NoBytes \in Bytes
    BY <1>t, <2>1 DEF NoBytes, NoBlock, Bytes
  <2>3. outs' \in [Batches -> [Slots -> Bytes]]
    <3>1. outs' = [outs EXCEPT ![cbatch][cj] = NoBytes]
      BY <1>13 DEF CollectorWrite
    <3>2. outs \in [Batches -> [Slots -> Bytes]]
      BY <1>t
    <3> QED BY <2>1, <2>2, <3>1, <3>2, SlotUpdate
  <2>4. CollectorTypes'
    BY <1>t, <1>13, <2>1, <2>2 DEF CollectorWrite, CollectorPC
  <2> QED BY <1>t, <1>13, <2>3, <2>4 DEF TypeOK, CollectorWrite
<1>14. CASE CollectorRecycle
  <2>1. cbatch \in Batches /\ cbatch # NoBatch
    BY <1>t, <1>f, <1>14 DEF CollectorRecycle, Holding, BatchOrNil
  <2>2. next + n[cbatch] <= i
    BY <1>t, <1>p, <2>1 DEF Placed, Filled, Stored
  <2>3. ChannelTypes'
    BY <1>t, <1>14, <2>1 DEF CollectorRecycle
  <2>4. next + n[cbatch] \in 0 .. NumBlocks
    BY <1>t, <2>1, <2>2
  <2>5. CollectorTypes'
    BY <1>t, <1>14, <2>4 DEF CollectorRecycle, CollectorPC, BatchOrNil
  <2> QED BY <1>t, <1>14, <2>3, <2>5 DEF TypeOK, CollectorRecycle
<1>15. CASE UNCHANGED vars
  BY <1>t, <1>15 DEF TypeOK, vars
<1> QED BY <1>1, <1>2, <1>3, <1>4, <1>5, <1>6, <1>6c, <1>7, <1>8, <1>9, <1>10, <1>11, <1>12, <1>13, <1>14, <1>15
        DEF Next, Reader, Worker, Collector, Terminated
(* Program counters and closed channels: every step keeps them consistent. *)
LEMMA ControlStep == IInv /\ [Next]_vars => Holding' /\ Closing'
<1> SUFFICES ASSUME IInv, [Next]_vars PROVE Holding' /\ Closing'
  OBVIOUS
<1>t. /\ ChannelTypes /\ BatchTypes /\ ReaderTypes /\ WorkerTypes /\ CollectorTypes
      /\ Holding /\ Closing
  BY DEF IInv, TypeOK
<1>f. \A b \in Batches : b # NoBatch
  BY PoolSize DEF NoBatch
<1> USE DEF channels, batch, reader, workers, collector
<1>1. CASE ReaderTake
  <2>1. Head(free) \in Batches
    BY <1>t, <1>1 DEF ReaderTake, ChannelTypes
  <2> QED BY <1>t, <1>f, <1>1, <2>1 DEF ReaderTake, Holding, Closing
<1>2. CASE ReaderFill
  BY <1>t, <1>2 DEF ReaderFill, Filling, Holding, Closing
<1>3. CASE ReaderFail \/ ReaderFilled
  BY <1>t, <1>3 DEF ReaderFail, ReaderFilled, Filling, Holding, Closing
<1>4. CASE ReaderSend
  BY <1>t, <1>4 DEF ReaderSend, Holding, Closing
<1>5. CASE ReaderClose
  BY <1>t, <1>5, PoolAssumption DEF ReaderClose, ReaderTypes, Holding, Closing
<1>6. CASE ReaderJoin
  BY <1>t, <1>6 DEF ReaderJoin, Holding, Closing
<1>7. ASSUME NEW w \in Workers, WorkerReceive(w) PROVE Holding' /\ Closing'
  <2>1. Head(jobs) \in Batches
    BY <1>t, <1>7 DEF WorkerReceive, ChannelTypes
  <2>2. Holding'
    BY <1>t, <1>f, <1>7, <2>1 DEF WorkerReceive, WorkerTypes, Holding
  <2>3. Closing'
    BY <1>t, <1>7 DEF WorkerReceive, WorkerTypes, Closing
  <2> QED BY <2>2, <2>3
<1>8. ASSUME NEW w \in Workers, WorkerDecode(w) PROVE Holding' /\ Closing'
  BY <1>t, <1>8 DEF WorkerDecode, Holding, Closing
<1>8c. ASSUME NEW w \in Workers, WorkerCrash(w) PROVE Holding' /\ Closing'
  <2>1. /\ rpc' = "dead" /\ cpc' = "dead" /\ \A v \in Workers : wpc'[v] = "dead"
        /\ UNCHANGED <<rbatch, wbatch, cbatch, jobsClosed, resultsClosed, jobs, results, readFailed, i>>
    BY <1>8c DEF WorkerCrash
  <2>2. wpc[w] = "decode" /\ ~resultsClosed
    BY <1>t, <1>8c DEF WorkerCrash, Closing
  <2> QED BY <1>t, <2>1, <2>2 DEF Holding, Closing
<1>9. ASSUME NEW w \in Workers, WorkerSend(w) PROVE Holding' /\ Closing'
  <2>1. Holding'
    BY <1>t, <1>9 DEF WorkerSend, WorkerTypes, Holding
  <2>2. Closing'
    BY <1>t, <1>9 DEF WorkerSend, WorkerTypes, Closing
  <2> QED BY <2>1, <2>2
<1>10. ASSUME NEW w \in Workers, WorkerExit(w) PROVE Holding' /\ Closing'
  BY <1>t, <1>10 DEF WorkerExit, WorkerTypes, Holding, Closing
<1>11. CASE CloseResults
  BY <1>t, <1>11 DEF CloseResults, Holding, Closing
<1>12. CASE CollectorReceive
  BY <1>t, <1>12 DEF CollectorReceive, Holding, Closing
<1>13. CASE CollectorPick
  BY <1>t, <1>13 DEF CollectorPick, Holding, Closing
<1>14. CASE CollectorMiss \/ CollectorWrite \/ CollectorEnd
  BY <1>t, <1>14 DEF CollectorMiss, CollectorWrite, CollectorEnd, Holding, Closing
<1>15. CASE CollectorRecycle
  BY <1>t, <1>15 DEF CollectorRecycle, Holding, Closing
<1>16. CASE UNCHANGED vars
  BY <1>t, <1>16 DEF vars, Holding, Closing
<1> QED BY <1>1, <1>2, <1>3, <1>4, <1>5, <1>6, <1>7, <1>8, <1>8c, <1>9, <1>10, <1>11, <1>12, <1>13, <1>14,
           <1>15, <1>16 DEF Next, Reader, Worker, Collector, Terminated

-----------------------------------------------------------------------------
(* Where the batches are and what is in them: one lemma for each step that *)
(* moves a batch or writes into one, as in CompressPoolProofs.             *)
Types == ChannelTypes /\ BatchTypes /\ ReaderTypes /\ WorkerTypes /\ CollectorTypes

Described(p) == Placed(p) /\ Filled(p) /\ Stored(p) /\ Tiled(p)

(* The numbers in the state, with the bounds the arithmetic needs.         *)
LEMMA Numbers ==
  ASSUME Types
  PROVE  /\ NumBlocks \in Nat /\ BatchSize \in Nat /\ BatchSize > 0
         /\ next \in Nat /\ next <= NumBlocks /\ i \in Nat /\ i <= NumBlocks
         /\ cj \in Nat
         /\ \A b \in Batches : /\ firstBlock[b] \in Nat /\ firstBlock[b] <= NumBlocks
                               /\ n[b] \in Nat /\ n[b] <= BatchSize
         /\ \A w \in Workers : wj[w] \in Nat /\ wbatch[w] \in BatchOrNil
         /\ \A s \in Slots : s \in Nat /\ s < BatchSize
         /\ \A s \in Nat : s < BatchSize => s \in Slots
<1> USE PoolAssumption
<1>1. /\ NumBlocks \in Nat /\ BatchSize \in Nat /\ BatchSize > 0
      /\ \A s \in Slots : s \in Nat /\ s < BatchSize
      /\ \A s \in Nat : s < BatchSize => s \in Slots
  BY DEF Slots
<1>2. /\ next \in Nat /\ next <= NumBlocks /\ i \in Nat /\ i <= NumBlocks /\ cj \in Nat
  BY DEF Types, ReaderTypes, CollectorTypes
<1>3. \A b \in Batches : /\ firstBlock[b] \in 0 .. NumBlocks
                         /\ n[b] \in 0 .. BatchSize
  BY DEF Types, BatchTypes
<1>4. \A w \in Workers : wj[w] \in 0 .. BatchSize /\ wbatch[w] \in BatchOrNil
  BY DEF Types, WorkerTypes
<1> QED BY <1>1, <1>2, <1>3, <1>4

(* A batch someone has in hand, or in pending, is in that place alone.     *)
LEMMA Whereabouts ==
  ASSUME Types, NEW p \in [Batches -> Places], Placed(p)
  PROVE  /\ \A v \in Workers : wbatch[v] # NoBatch => wbatch[v] \in Batches /\ p[wbatch[v]] = "worker"
         /\ \A x \in 0 .. NumBlocks : pending[x] # NoBatch =>
              pending[x] \in Batches /\ p[pending[x]] = "pending"
         /\ cbatch # NoBatch => cbatch \in Batches /\ p[cbatch] = "collector"
<1>1. \A v \in Workers : wbatch[v] # NoBatch => wbatch[v] \in Batches
  BY Numbers DEF BatchOrNil
<1>2. \A x \in 0 .. NumBlocks : pending[x] # NoBatch => pending[x] \in Batches
  BY DEF Types, CollectorTypes, BatchOrNil
<1>3. cbatch # NoBatch => cbatch \in Batches
  BY DEF Types, CollectorTypes, BatchOrNil
<1> QED BY <1>1, <1>2, <1>3 DEF Placed

(* The slots of a batch that no step has touched keep what they hold.      *)
LEMMA SlotsKept ==
  ASSUME NEW b \in Batches, archive' = archive, firstBlock'[b] = firstBlock[b],
         \A s \in Slots : /\ inputs'[b][s] = inputs[b][s] /\ nwBytes'[b][s] = nwBytes[b][s]
                         /\ outs'[b][s] = outs[b][s]
  PROVE  \A s \in Slots : Loaded(b, s)' = Loaded(b, s) /\ Ready(b, s)' = Ready(b, s)
BY DEF Loaded, Ready, Right

(* The reader takes a batch: it becomes the empty last tile.               *)
LEMMA TakeStep ==
  ASSUME Types, Holding, Closing, ReaderTake, NEW p \in [Batches -> Places], Described(p)
  PROVE  \E q \in [Batches -> Places] : Described(q)'
<1>0. PICK b \in Batches : b = Head(free)
  BY DEF ReaderTake, Types, ChannelTypes
<1> DEFINE q == [p EXCEPT ![b] = "reader"]
<1>1. /\ NoDup(free') /\ Elems(free') = Elems(free) \ {b}
      /\ b # NoBatch /\ rbatch = NoBatch /\ rbatch' = b
      /\ p[b] = "free" /\ ~readFailed
  <2>1. /\ b \in Elems(free) /\ free' = Tail(free)
        /\ NoDup(free') /\ Elems(free') = Elems(free) \ {b}
    BY <1>0, ReceiveElems DEF ReaderTake, Types, ChannelTypes, Described, Placed
  <2>2. b # NoBatch
    BY PoolSize DEF NoBatch
  <2> QED BY <1>0, <2>1, <2>2 DEF ReaderTake, Holding, Described, Placed
<1>2. q \in [Batches -> Places] /\ q[b] = "reader" /\ \A a \in Batches : a # b => q[a] = p[a]
  BY DEF Places
<1> HIDE DEF q
<1>3. /\ firstBlock'[b] = i /\ n'[b] = 0
      /\ \A a \in Batches : a # b => firstBlock'[a] = firstBlock[a] /\ n'[a] = n[a]
      /\ UNCHANGED <<jobs, results, archive, inputs, nwBytes, outs, i, readFailed, wbatch, wj,
                     pending, cbatch, cj, next, out, cpc>>
      /\ rpc' = "fill" /\ i < NumBlocks
  BY <1>0 DEF ReaderTake, Types, BatchTypes, workers, collector
<1>4. Placed(q)'
  <2>1. ASSUME NEW a \in Batches
        PROVE  /\ q[a] = "free" <=> a \in Elems(free')
               /\ q[a] = "jobs" <=> a \in Elems(jobs)
               /\ q[a] = "results" <=> a \in Elems(results)
               /\ q[a] = "reader" <=> rbatch' = a
               /\ q[a] = "worker" <=> \E w \in Workers : wbatch[w] = a
               /\ q[a] = "pending" <=> \E x \in 0 .. NumBlocks : pending[x] = a
               /\ q[a] = "collector" <=> cbatch = a
    <3>1. CASE a = b
      BY <1>1, <1>2, <3>1 DEF Described, Placed
    <3>2. CASE a # b
      BY <1>1, <1>2, <3>2, PoolSize DEF Described, Placed, NoBatch
    <3> QED BY <3>1, <3>2
  <2> QED BY <1>1, <1>2, <1>3, <2>1 DEF Described, Placed
<1>5. Filled(q)'
  BY <1>1, <1>2, <1>3, Numbers DEF Described, Filled
<1>6. Stored(q)'
  <2>1. /\ \A v \in Workers : wbatch[v] # NoBatch => wbatch[v] \in Batches /\ wbatch[v] # b
        /\ \A x \in 0 .. NumBlocks : pending[x] # NoBatch => pending[x] \in Batches /\ pending[x] # b
        /\ cbatch # NoBatch => cbatch \in Batches /\ cbatch # b
    BY <1>1, Whereabouts DEF Described
  <2>2. ASSUME NEW a \in Batches, a # b
        PROVE  /\ \A s \in Slots : Loaded(a, s)' = Loaded(a, s) /\ Ready(a, s)' = Ready(a, s)
               /\ \A s \in Slots : nwBytes'[a][s] = nwBytes[a][s]
               /\ firstBlock'[a] = firstBlock[a]
    BY <1>3, <2>2, SlotsKept
  <2>3. \A s \in Slots : ~(s < n'[b])
    BY <1>3, Numbers
  <2>4. ASSUME NEW a \in Batches, q[a] # "free", NEW s \in Slots, s < n'[a]
        PROVE  /\ nwBytes'[a][s] = BlockLength(firstBlock'[a] + s)
               /\ q[a] \in {"reader", "jobs"} => Loaded(a, s)'
               /\ q[a] \in {"results", "pending"} => Ready(a, s)'
    <3>1. a # b /\ q[a] = p[a] /\ n'[a] = n[a]
      BY <1>2, <1>3, <2>3, <2>4
    <3> QED BY <2>2, <2>4, <3>1 DEF Described, Stored
  <2>5. ASSUME NEW v \in Workers, wbatch[v] # NoBatch
        PROVE  /\ wj[v] <= n'[wbatch[v]]
               /\ \A s \in Slots : s < wj[v] => Ready(wbatch[v], s)'
               /\ \A s \in Slots : wj[v] <= s /\ s < n'[wbatch[v]] => Loaded(wbatch[v], s)'
    <3>1. PICK a \in Batches : a = wbatch[v] /\ a # b
      BY <2>1, <2>5
    <3>2. /\ wj[v] <= n[a]
          /\ \A s \in Slots : s < wj[v] => Ready(a, s)
          /\ \A s \in Slots : wj[v] <= s /\ s < n[a] => Loaded(a, s)
      BY <2>5, <3>1 DEF Described, Stored
    <3>3. a = wbatch'[v] /\ n'[a] = n[a]
      BY <1>3, <3>1
    <3>4. /\ \A s \in Slots : s < wj[v] => Ready(a, s)'
          /\ \A s \in Slots : wj[v] <= s /\ s < n[a] => Loaded(a, s)'
      BY <2>2, <3>1, <3>2
    <3> QED BY <3>1, <3>2, <3>3, <3>4 DEF Ready, Loaded
  <2>6. \A x \in 0 .. NumBlocks : pending[x] # NoBatch => firstBlock'[pending[x]] = x
    BY <1>3, <2>1 DEF Described, Stored
  <2>7. ASSUME cbatch # NoBatch
        PROVE  /\ firstBlock'[cbatch] = next /\ cj <= n'[cbatch]
               /\ \A s \in Slots : cj <= s /\ s < n'[cbatch] => Ready(cbatch, s)'
    <3>1. PICK a \in Batches : a = cbatch /\ a # b
      BY <2>1, <2>7
    <3>2. /\ firstBlock[a] = next /\ cj <= n[a]
          /\ \A s \in Slots : cj <= s /\ s < n[a] => Ready(a, s)
      BY <2>7, <3>1 DEF Described, Stored
    <3>3. a = cbatch' /\ n'[a] = n[a] /\ firstBlock'[a] = firstBlock[a]
      BY <1>3, <3>1
    <3>4. \A s \in Slots : cj <= s /\ s < n[a] => Ready(a, s)'
      BY <2>2, <3>1, <3>2
    <3> QED BY <3>1, <3>2, <3>3, <3>4 DEF Ready
  <2>8. Len(out) = next + (IF cbatch # NoBatch THEN cj ELSE 0)
    BY DEF Described, Stored
  <2> QED BY <1>3, <2>4, <2>5, <2>6, <2>7, <2>8 DEF Stored
<1>7. Tiled(q)'
  <2>1. ASSUME NEW a \in Batches, q[a] # "free", a # b
        PROVE  firstBlock[a] + n[a] <= i /\ n[a] > 0
    <3>1. p[a] # "free" /\ p[a] # "reader"
      BY <1>1, <1>2, <2>1, PoolSize DEF Described, Placed, NoBatch
    <3>2. firstBlock[a] + n[a] <= i /\ n[a] # 0
      BY <1>1, <3>1 DEF Described, Filled
    <3> QED BY <3>2, Numbers
  <2>2. \A a, c \in Batches : a # c /\ q[a] # "free" /\ q[c] # "free" =>
          /\ \/ firstBlock'[a] + n'[a] <= firstBlock'[c]
             \/ firstBlock'[c] + n'[c] <= firstBlock'[a]
          /\ n'[a] > 0 \/ n'[c] > 0
    BY <1>1, <1>2, <1>3, <2>1, Numbers DEF Described, Tiled
  <2>3. ASSUME NEW x \in 0 .. NumBlocks, next <= x, x < i
        PROVE  \E a \in Batches : /\ q[a] # "free" /\ firstBlock'[a] <= x
                                  /\ x < firstBlock'[a] + n'[a]
    <3>1. PICK a \in Batches : p[a] # "free" /\ firstBlock[a] <= x /\ x < firstBlock[a] + n[a]
      BY <2>3 DEF Described, Tiled
    <3> QED BY <1>1, <1>2, <1>3, <3>1
  <2> QED BY <1>3, <2>2, <2>3 DEF Described, Tiled
<1> QED BY <1>2, <1>4, <1>5, <1>6, <1>7 DEF Described

(* The reader reads one more block: the last tile grows.                   *)
LEMMA FillStep ==
  ASSUME Types, Holding, ReaderFill, NEW p \in [Batches -> Places], Described(p)
  PROVE  Described(p)'
<1>1. /\ rbatch \in Batches /\ p[rbatch] = "reader" /\ n[rbatch] \in Slots
      /\ i < NumBlocks /\ ~readFailed /\ rpc = "fill"
  <2>1. rbatch \in Batches /\ rpc = "fill" /\ n[rbatch] < BatchSize /\ i < NumBlocks
    BY DEF ReaderFill, Filling, Holding, Types, ReaderTypes, BatchOrNil
  <2> QED BY <2>1, Numbers DEF Described, Placed, Filled
<1>2. PICK r \in Batches : r = rbatch
  BY <1>1
<1>3. /\ n'[r] = n[r] + 1 /\ i' = i + 1 /\ rpc' = "fill"
      /\ \A a \in Batches : a # r => n'[a] = n[a]
      /\ UNCHANGED <<free, jobs, results, firstBlock, archive, outs, rbatch, readFailed,
                     wbatch, wj, cpc, cbatch, cj, pending, next, out>>
  BY <1>1, <1>2 DEF ReaderFill, Types, BatchTypes, channels, workers, collector
<1>4. /\ inputs'[r][n[r]] = i /\ nwBytes'[r][n[r]] = BlockLength(i)
      /\ \A a \in Batches, s \in Slots :
           a # r \/ s # n[r] => inputs'[a][s] = inputs[a][s] /\ nwBytes'[a][s] = nwBytes[a][s]
  <2>1. i \in Int /\ BlockLength(i) \in 0 .. BufferSize
    BY Numbers, PoolAssumption DEF BlockLength
  <2>2. /\ inputs' = [inputs EXCEPT ![r][n[r]] = i]
        /\ nwBytes' = [nwBytes EXCEPT ![r][n[r]] = BlockLength(i)]
    BY <1>2 DEF ReaderFill
  <2>3. /\ inputs \in [Batches -> [Slots -> Int]]
        /\ nwBytes \in [Batches -> [Slots -> 0 .. BufferSize]]
    BY DEF Types, BatchTypes
  <2>4. /\ inputs'[r][n[r]] = i
        /\ \A a \in Batches, s \in Slots : a # r \/ s # n[r] => inputs'[a][s] = inputs[a][s]
    BY <1>1, <1>2, <2>1, <2>2, <2>3, SlotUpdate
  <2>5. /\ nwBytes'[r][n[r]] = BlockLength(i)
        /\ \A a \in Batches, s \in Slots : a # r \/ s # n[r] => nwBytes'[a][s] = nwBytes[a][s]
    BY <1>1, <1>2, <2>1, <2>2, <2>3, SlotUpdate
  <2> QED BY <2>4, <2>5
<1>5. next <= firstBlock[r] /\ firstBlock[r] + n[r] = i
  BY <1>1, <1>2 DEF Described, Filled
<1>6. ASSUME NEW a \in Batches, p[a] # "free", a # r
      PROVE  firstBlock[a] + n[a] <= firstBlock[r] /\ n[a] > 0 /\ p[a] # "reader"
  <2>1. p[a] # "reader" /\ firstBlock[a] + n[a] <= i /\ n[a] # 0
    BY <1>1, <1>2, <1>6 DEF Described, Placed, Filled
  <2>2. firstBlock[a] + n[a] <= firstBlock[r] \/ firstBlock[r] + n[r] <= firstBlock[a]
    BY <1>1, <1>2, <1>6 DEF Described, Tiled
  <2> QED BY <1>5, <2>1, <2>2, Numbers
<1>7. Placed(p)'
  BY <1>3 DEF Described, Placed
<1>8. Filled(p)'
  <2>1. firstBlock[r] + n'[r] = i'
    BY <1>1, <1>2, <1>3, <1>5, Numbers
  <2>2. ASSUME NEW a \in Batches, p[a] # "free", a # r
        PROVE  firstBlock[a] + n'[a] <= i' /\ n'[a] # 0
    BY <1>3, <1>6, <2>2, Numbers DEF Described, Filled
  <2> QED BY <1>1, <1>2, <1>3, <1>5, <1>6, <2>1, <2>2, Numbers DEF Described, Filled
<1>9. Stored(p)'
  <2>1. /\ \A v \in Workers : wbatch[v] # NoBatch => wbatch[v] \in Batches /\ wbatch[v] # r
        /\ \A x \in 0 .. NumBlocks : pending[x] # NoBatch => pending[x] \in Batches /\ pending[x] # r
        /\ cbatch # NoBatch => cbatch \in Batches /\ cbatch # r
    BY <1>1, <1>2, Whereabouts DEF Described
  <2>2. ASSUME NEW a \in Batches, a # r
        PROVE  /\ \A s \in Slots : Loaded(a, s)' = Loaded(a, s) /\ Ready(a, s)' = Ready(a, s)
               /\ \A s \in Slots : nwBytes'[a][s] = nwBytes[a][s]
               /\ firstBlock'[a] = firstBlock[a]
    BY <1>3, <1>4, <2>2, SlotsKept
  <2>3. ASSUME NEW s \in Slots, s < n'[r]
        PROVE  Loaded(r, s)' /\ nwBytes'[r][s] = BlockLength(firstBlock'[r] + s)
    <3>1. CASE s = n[r]
      BY <1>3, <1>4, <1>5, <3>1 DEF Loaded
    <3>2. CASE s # n[r]
      <4>1. s < n[r]
        BY <1>3, <2>3, <3>2, Numbers
      <4>2. Loaded(r, s) /\ nwBytes[r][s] = BlockLength(firstBlock[r] + s)
        BY <1>1, <1>2, <4>1 DEF Described, Stored
      <4> QED BY <1>3, <1>4, <3>2, <4>2 DEF Loaded
    <3> QED BY <3>1, <3>2
  <2>4. ASSUME NEW a \in Batches, p[a] # "free", NEW s \in Slots, s < n'[a]
        PROVE  /\ nwBytes'[a][s] = BlockLength(firstBlock'[a] + s)
               /\ p[a] \in {"reader", "jobs"} => Loaded(a, s)'
               /\ p[a] \in {"results", "pending"} => Ready(a, s)'
    <3>1. CASE a = r
      BY <1>1, <1>2, <2>3, <2>4, <3>1
    <3>2. CASE a # r
      BY <1>3, <2>2, <2>4, <3>2 DEF Described, Stored
    <3> QED BY <3>1, <3>2
  <2>5. ASSUME NEW v \in Workers, wbatch[v] # NoBatch
        PROVE  /\ wj[v] <= n'[wbatch[v]]
               /\ \A s \in Slots : s < wj[v] => Ready(wbatch[v], s)'
               /\ \A s \in Slots : wj[v] <= s /\ s < n'[wbatch[v]] => Loaded(wbatch[v], s)'
    <3>1. PICK a \in Batches : a = wbatch[v] /\ a # r
      BY <2>1, <2>5
    <3>2. /\ wj[v] <= n[a]
          /\ \A s \in Slots : s < wj[v] => Ready(a, s)
          /\ \A s \in Slots : wj[v] <= s /\ s < n[a] => Loaded(a, s)
      BY <2>5, <3>1 DEF Described, Stored
    <3>3. a = wbatch'[v] /\ n'[a] = n[a]
      BY <1>3, <3>1
    <3>4. /\ \A s \in Slots : s < wj[v] => Ready(a, s)'
          /\ \A s \in Slots : wj[v] <= s /\ s < n[a] => Loaded(a, s)'
      BY <2>2, <3>1, <3>2
    <3> QED BY <3>1, <3>2, <3>3, <3>4 DEF Ready, Loaded
  <2>6. ASSUME cbatch # NoBatch
        PROVE  /\ firstBlock[cbatch] = next /\ cj <= n'[cbatch]
               /\ \A s \in Slots : cj <= s /\ s < n'[cbatch] => Ready(cbatch, s)'
    <3>1. PICK a \in Batches : a = cbatch /\ a # r
      BY <2>1, <2>6
    <3>2. /\ firstBlock[a] = next /\ cj <= n[a]
          /\ \A s \in Slots : cj <= s /\ s < n[a] => Ready(a, s)
      BY <2>6, <3>1 DEF Described, Stored
    <3>3. a = cbatch' /\ n'[a] = n[a]
      BY <1>3, <3>1
    <3>4. \A s \in Slots : cj <= s /\ s < n[a] => Ready(a, s)'
      BY <2>2, <3>1, <3>2
    <3> QED BY <3>1, <3>2, <3>3, <3>4 DEF Ready
  <2>7. /\ \A x \in 0 .. NumBlocks : pending[x] # NoBatch => firstBlock[pending[x]] = x
        /\ Len(out) = next + (IF cbatch # NoBatch THEN cj ELSE 0)
    BY DEF Described, Stored
  <2> QED BY <1>3, <2>4, <2>5, <2>6, <2>7 DEF Stored
<1>10. Tiled(p)'
  <2>1. \A a, b \in Batches : a # b /\ p[a] # "free" /\ p[b] # "free" =>
          /\ firstBlock[a] + n'[a] <= firstBlock[b] \/ firstBlock[b] + n'[b] <= firstBlock[a]
          /\ n'[a] > 0 \/ n'[b] > 0
    BY <1>3, <1>6, Numbers DEF Described, Tiled
  <2>2. ASSUME NEW x \in 0 .. NumBlocks, next <= x, x < i'
        PROVE  \E b \in Batches : p[b] # "free" /\ firstBlock[b] <= x /\ x < firstBlock[b] + n'[b]
    <3>1. CASE x = i
      BY <1>1, <1>2, <1>3, <1>5, <3>1, Numbers
    <3>2. CASE x < i
      <4>1. PICK b \in Batches : p[b] # "free" /\ firstBlock[b] <= x /\ x < firstBlock[b] + n[b]
        BY <2>2, <3>2 DEF Described, Tiled
      <4>2. n'[b] >= n[b] /\ n'[b] \in Nat
        BY <1>3, Numbers
      <4> QED BY <4>1, <4>2, Numbers
    <3> QED BY <1>3, <2>2, <3>1, <3>2, Numbers
  <2> QED BY <1>3, <2>1, <2>2 DEF Described, Tiled
<1> QED BY <1>7, <1>8, <1>9, <1>10 DEF Described

(* A batch that only changes hands: if q describes its new place and the   *)
(* blocks of no batch changed, what is in the batches in use and how they  *)
(* tile the file stays true, provided no batch was freed.                  *)
LEMMA HandOver ==
  ASSUME Types, NEW p \in [Batches -> Places], Described(p),
         NEW q \in [Batches -> Places], NEW b \in Batches,
         \A a \in Batches : a # b => q[a] = p[a],
         p[b] # "free", q[b] \notin {"free", "reader"},
         p[b] = "reader" /\ n[b] = 0 => readFailed,
         UNCHANGED <<firstBlock, n, archive, i, readFailed, next>>,
         rpc' = "fill" => rpc = "fill" /\ UNCHANGED rbatch,
         rpc' = "send" => rpc = "send" /\ UNCHANGED rbatch
  PROVE  /\ Filled(q)'
         /\ pending' = pending /\ cpc' = cpc => Tiled(q)'
         /\ (cpc' \in {"receive", "done"} => pending'[next] = NoBatch) => Tiled(q)'
<1>1. \A a \in Batches : q[a] # "free" <=> p[a] # "free"
  OBVIOUS
<1>2. Filled(q)'
  BY <1>1, Numbers DEF Described, Filled
<1>3. (cpc' \in {"receive", "done"} => pending'[next] = NoBatch) => Tiled(q)'
  BY <1>1 DEF Described, Tiled
<1>4. pending' = pending /\ cpc' = cpc => (cpc' \in {"receive", "done"} => pending'[next] = NoBatch)
  BY DEF Described, Tiled
<1> QED BY <1>2, <1>3, <1>4

(* jobs <- batch: the batch moves from the reader to the queue.            *)
LEMMA ReaderSendStep ==
  ASSUME Types, Holding, ReaderSend, NEW p \in [Batches -> Places], Described(p)
  PROVE  \E q \in [Batches -> Places] : Described(q)'
<1>0. rbatch \in Batches
  BY DEF ReaderSend, Holding, Types, ReaderTypes, BatchOrNil
<1>1. PICK b \in Batches : b = rbatch
  BY <1>0
<1> DEFINE q == [p EXCEPT ![b] = "jobs"]
<1>2. /\ p[b] = "reader" /\ (n[b] = 0 => readFailed) /\ b # NoBatch
      /\ rbatch' = NoBatch /\ rpc' = "loop"
      /\ UNCHANGED <<free, results, firstBlock, n, archive, inputs, nwBytes, outs, i, readFailed,
                     wbatch, wj, cpc, cbatch, cj, pending, next, out>>
  BY <1>1, PoolSize DEF ReaderSend, Described, Placed, Filled, NoBatch, batch, workers, collector
<1>3. NoDup(jobs') /\ Elems(jobs') = Elems(jobs) \cup {b}
  <2>1. jobs' = Append(jobs, b) /\ jobs \in Seq(Batches)
    BY <1>1 DEF ReaderSend, Types, ChannelTypes
  <2>2. b \notin Elems(jobs) /\ NoDup(jobs)
    BY <1>2 DEF Described, Placed
  <2> QED BY <2>1, <2>2, SendElems
<1>4. q \in [Batches -> Places] /\ q[b] = "jobs" /\ \A a \in Batches : a # b => q[a] = p[a]
  BY DEF Places
<1> HIDE DEF q
<1>5. Placed(q)'
  <2>1. ASSUME NEW a \in Batches
        PROVE  /\ q[a] = "free" <=> a \in Elems(free)
               /\ q[a] = "jobs" <=> a \in Elems(jobs')
               /\ q[a] = "results" <=> a \in Elems(results)
               /\ q[a] = "reader" <=> rbatch' = a
               /\ q[a] = "worker" <=> \E w \in Workers : wbatch[w] = a
               /\ q[a] = "pending" <=> \E x \in 0 .. NumBlocks : pending[x] = a
               /\ q[a] = "collector" <=> cbatch = a
    <3>1. CASE a = b
      BY <1>1, <1>2, <1>3, <1>4, <3>1 DEF Described, Placed
    <3>2. CASE a # b
      BY <1>1, <1>2, <1>3, <1>4, <3>2, PoolSize DEF Described, Placed, NoBatch
    <3> QED BY <3>1, <3>2
  <2> QED BY <1>2, <1>3, <1>4, <2>1 DEF Described, Placed
<1>6. Filled(q)' /\ Tiled(q)'
  BY <1>2, <1>4, HandOver
<1>7. Stored(q)'
  BY <1>2, <1>4 DEF Described, Stored, Loaded, Ready, Right
<1> QED BY <1>4, <1>5, <1>6, <1>7 DEF Described

(* A worker receives a batch from jobs.                                    *)
LEMMA WorkerReceiveStep ==
  ASSUME Types, Holding, NEW w \in Workers, WorkerReceive(w),
         NEW p \in [Batches -> Places], Described(p)
  PROVE  \E q \in [Batches -> Places] : Described(q)'
<1>0. PICK b \in Batches : b = Head(jobs)
  BY DEF WorkerReceive, Types, ChannelTypes
<1> DEFINE q == [p EXCEPT ![b] = "worker"]
<1>1. /\ p[b] = "jobs" /\ NoDup(jobs') /\ Elems(jobs') = Elems(jobs) \ {b} /\ b # NoBatch
  <2>1. /\ b \in Elems(jobs) /\ jobs' = Tail(jobs)
        /\ NoDup(jobs') /\ Elems(jobs') = Elems(jobs) \ {b}
    BY <1>0, ReceiveElems DEF WorkerReceive, Types, ChannelTypes, Described, Placed
  <2> QED BY <2>1, PoolSize DEF Described, Placed, NoBatch
<1>2. /\ wbatch[w] = NoBatch /\ wbatch'[w] = b /\ wj'[w] = 0
      /\ \A v \in Workers : v # w => wbatch'[v] = wbatch[v] /\ wj'[v] = wj[v]
      /\ UNCHANGED <<free, results, firstBlock, n, archive, inputs, nwBytes, outs, i, readFailed, rpc, rbatch,
                     cpc, cbatch, cj, pending, next, out>>
  BY <1>0 DEF WorkerReceive, Holding, Types, WorkerTypes, batch, reader, collector
<1>3. q \in [Batches -> Places] /\ q[b] = "worker" /\ \A a \in Batches : a # b => q[a] = p[a]
  BY DEF Places
<1> HIDE DEF q
<1>p. Placed(q)'
  <2>1. ASSUME NEW a \in Batches
        PROVE  /\ q[a] = "free" <=> a \in Elems(free)
               /\ q[a] = "jobs" <=> a \in Elems(jobs')
               /\ q[a] = "results" <=> a \in Elems(results)
               /\ q[a] = "reader" <=> rbatch = a
               /\ q[a] = "worker" <=> \E v \in Workers : wbatch'[v] = a
               /\ q[a] = "pending" <=> \E x \in 0 .. NumBlocks : pending[x] = a
               /\ q[a] = "collector" <=> cbatch = a
    <3>1. CASE a = b
      BY <1>1, <1>2, <1>3, <3>1, PoolSize DEF Described, Placed, NoBatch
    <3>2. CASE a # b
      BY <1>1, <1>2, <1>3, <3>2, PoolSize DEF Described, Placed, NoBatch
    <3> QED BY <3>1, <3>2
  <2> QED BY <1>1, <1>2, <1>3, <2>1 DEF Described, Placed
<1>4. Filled(q)' /\ Tiled(q)'
  BY <1>1, <1>2, <1>3, HandOver
<1>5. Stored(q)'
  <2>1. \A a \in Batches : q[a] \in {"results", "pending"} => p[a] \in {"results", "pending"}
    BY <1>3
  <2>2. ASSUME NEW v \in Workers, wbatch'[v] # NoBatch
        PROVE  /\ wj'[v] <= n[wbatch'[v]]
               /\ \A s \in Slots : s < wj'[v] => Ready(wbatch'[v], s)
               /\ \A s \in Slots : wj'[v] <= s /\ s < n[wbatch'[v]] => Loaded(wbatch'[v], s)
    <3>1. CASE v = w
      <4>1. \A s \in Slots : s < n[b] => Loaded(b, s)
        BY <1>1 DEF Described, Stored
      <4>2. 0 <= n[b] /\ \A s \in Slots : ~(s < 0)
        BY Numbers
      <4> QED BY <1>2, <3>1, <4>1, <4>2
    <3>2. CASE v # w
      BY <1>2, <2>2, <3>2 DEF Described, Stored
    <3> QED BY <3>1, <3>2
  <2>3. \A a \in Batches, s \in Slots : Loaded(a, s)' = Loaded(a, s) /\ Ready(a, s)' = Ready(a, s)
    BY <1>2 DEF Loaded, Ready, Right
  <2>4. \A a \in Batches : q[a] \in {"reader", "jobs"} => p[a] \in {"reader", "jobs"}
    BY <1>3
  <2>5. \A v \in Workers : wbatch'[v] # NoBatch => wbatch'[v] \in Batches
    BY <1>2, Whereabouts DEF Described
  <2>6. \A a \in Batches : q[a] # "free" => p[a] # "free"
    BY <1>1, <1>3
  <2>7. cbatch # NoBatch => cbatch \in Batches
    BY Whereabouts DEF Described
  <2> QED BY <1>2, <2>1, <2>2, <2>3, <2>4, <2>5, <2>6, <2>7 DEF Described, Stored
<1> QED BY <1>p, <1>3, <1>4, <1>5 DEF Described

(* A worker decodes the block in its current slot: what it leaves there is *)
(* as long as that block, and is the block if it can be had at all.        *)
LEMMA WorkerDecodeStep ==
  ASSUME Types, Holding, NEW w \in Workers, WorkerDecode(w),
         NEW p \in [Batches -> Places], Described(p)
  PROVE  Described(p)'
<1>1. wbatch[w] \in Batches /\ wbatch[w] # NoBatch
  BY InHand DEF WorkerDecode, Types
<1>2. PICK b \in Batches : b = wbatch[w]
  BY <1>1
<1>3. /\ p[b] = "worker" /\ wj[w] < n[b] /\ wj[w] \in Slots
      /\ wj'[w] = wj[w] + 1
      /\ \A v \in Workers : v # w => wj'[v] = wj[v] /\ wbatch[v] # b
      /\ UNCHANGED <<free, jobs, results, firstBlock, n, archive, nwBytes, i, readFailed, rpc, rbatch,
                     wbatch, cpc, cbatch, cj, pending, next, out>>
  BY <1>1, <1>2, Numbers
  DEF WorkerDecode, Described, Placed, Types, WorkerTypes, channels, reader, collector
<1>4. PICK c \in 0 .. NumBlocks - 1 : c = inputs[b][wj[w]] /\ c = firstBlock[b] + wj[w]
  BY <1>2, <1>3, Pending DEF WorkerDecode, Described, Types
<1>5. PICK d \in Decoded(c, outBack[b][wj[w]]) :
        outs' = [outs EXCEPT ![b][wj[w]] = [block |-> d, len |-> nwBytes[b][wj[w]]]]
  BY <1>2, <1>4 DEF WorkerDecode
<1>6. nwBytes[b][wj[w]] = BlockLength(c) /\ nwBytes[b][wj[w]] \in Nat
  <2>1. nwBytes[b][wj[w]] = BlockLength(firstBlock[b] + wj[w])
    BY <1>3 DEF Described, Stored
  <2> QED BY <1>3, <1>4, <2>1 DEF Types, BatchTypes
<1>7. d \in Int /\ (archive.decodes[c] = "own" => d = c)
  <2>1. archive \in Archives /\ outBack[b][wj[w]] \in Int
    BY <1>3 DEF Types, ReaderTypes, BatchTypes
  <2> QED BY <2>1, DecodedType
<1>8. Right([block |-> d, len |-> nwBytes[b][wj[w]]], c)
  BY <1>6, <1>7 DEF Right, OriginalBlock, BlockLength
<1>9. /\ outs'[b][wj[w]] = [block |-> d, len |-> nwBytes[b][wj[w]]]
      /\ \A a \in Batches, s \in Slots : a # b \/ s # wj[w] => outs'[a][s] = outs[a][s]
  <2> DEFINE e == [block |-> d, len |-> nwBytes[b][wj[w]]]
  <2>1. e \in Bytes /\ outs' = [outs EXCEPT ![b][wj[w]] = e]
    BY <1>5, <1>6, <1>7 DEF Bytes
  <2>2. outs \in [Batches -> [Slots -> Bytes]]
    BY DEF Types, BatchTypes
  <2> HIDE DEF e
  <2>3. outs'[b][wj[w]] = e /\ \A a \in Batches, s \in Slots : a # b \/ s # wj[w] => outs'[a][s] = outs[a][s]
    BY <1>3, <2>1, <2>2, SlotUpdate
  <2> QED BY <2>3 DEF e
<1>10. \A a \in Batches, s \in Slots : a # b \/ s # wj[w] => inputs'[a][s] = inputs[a][s]
  <2>1. inputs' = [inputs EXCEPT ![b][wj[w]] = NoBlock] /\ NoBlock \in Int
    BY <1>2 DEF WorkerDecode, NoBlock
  <2>2. inputs \in [Batches -> [Slots -> Int]]
    BY DEF Types, BatchTypes
  <2> QED BY <1>3, <2>1, <2>2, SlotUpdate
<1>11. Placed(p)' /\ Filled(p)' /\ Tiled(p)'
  <2>1. Placed(p)'
    BY <1>3 DEF Described, Placed
  <2>2. Filled(p)' /\ Tiled(p)'
    BY <1>3, HandOver
  <2> QED BY <2>1, <2>2
<1>12. Stored(p)'
  <2>1. /\ \A v \in Workers : wbatch[v] # NoBatch => wbatch[v] \in Batches
        /\ \A x \in 0 .. NumBlocks : pending[x] # NoBatch => pending[x] \in Batches
        /\ cbatch # NoBatch => cbatch \in Batches /\ cbatch # b
    BY <1>3, Whereabouts DEF Described
  <2>2. ASSUME NEW a \in Batches, NEW s \in Slots, a # b \/ s # wj[w]
        PROVE  Loaded(a, s)' = Loaded(a, s) /\ Ready(a, s)' = Ready(a, s)
    <3>1. inputs'[a][s] = inputs[a][s] /\ outs'[a][s] = outs[a][s]
      BY <1>9, <1>10, <2>2
    <3> QED BY <1>3, <3>1 DEF Loaded, Ready, Right
  <2>3. PICK j \in Slots : j = wj[w]
    BY <1>3
  <2>4. Ready(b, j)'
    <3>1. Right(outs'[b][j], firstBlock[b] + j)
      BY <1>4, <1>8, <1>9, <2>3
    <3> QED BY <1>3, <3>1 DEF Ready, Right
  <2>5. ASSUME NEW v \in Workers, wbatch[v] # NoBatch
        PROVE  /\ wj'[v] <= n[wbatch[v]]
               /\ \A s \in Slots : s < wj'[v] => Ready(wbatch[v], s)'
               /\ \A s \in Slots : wj'[v] <= s /\ s < n[wbatch[v]] => Loaded(wbatch[v], s)'
    <3>1. PICK a \in Batches : a = wbatch[v] /\ a = wbatch'[v]
      BY <1>3, <2>1, <2>5
    <3>2. /\ wj[v] <= n[a]
          /\ \A s \in Slots : s < wj[v] => Ready(a, s)
          /\ \A s \in Slots : wj[v] <= s /\ s < n[a] => Loaded(a, s)
      BY <2>5, <3>1 DEF Described, Stored
    <3>3. /\ wj'[v] <= n[a]
          /\ \A s \in Slots : s < wj'[v] => Ready(a, s)'
          /\ \A s \in Slots : wj'[v] <= s /\ s < n[a] => Loaded(a, s)'
      <4>1. CASE v = w
        <5>1. a = b /\ wj'[v] = j + 1 /\ wj'[v] <= n[b]
          BY <1>2, <1>3, <2>3, <3>1, <4>1, Numbers
        <5>2. ASSUME NEW s \in Slots, s < j + 1 PROVE Ready(b, s)'
          <6>1. CASE s = j
            BY <2>4, <6>1
          <6>2. CASE s # j
            <7>1. s < wj[v]
              BY <2>3, <4>1, <5>2, <6>2, Numbers
            <7> QED BY <2>2, <2>3, <3>2, <5>1, <6>2, <7>1
          <6> QED BY <6>1, <6>2
        <5>3. ASSUME NEW s \in Slots, j + 1 <= s, s < n[b] PROVE Loaded(b, s)'
          <6>1. wj[v] <= s /\ s # j
            BY <2>3, <4>1, <5>3, Numbers
          <6> QED BY <2>2, <2>3, <3>2, <5>1, <5>3, <6>1
        <5> QED BY <5>1, <5>2, <5>3
      <4>2. CASE v # w
        <5>1. a # b /\ wj'[v] = wj[v]
          BY <1>3, <3>1, <4>2
        <5> QED BY <2>2, <3>2, <5>1
      <4> QED BY <4>1, <4>2
    <3> QED BY <3>1, <3>3 DEF Ready, Loaded
  <2>6. /\ \A a \in Batches : p[a] \in {"reader", "jobs"} =>
             \A s \in Slots : s < n[a] => Loaded(a, s)'
        /\ \A a \in Batches : p[a] \in {"results", "pending"} =>
             \A s \in Slots : s < n[a] => Ready(a, s)'
    BY <1>3, <2>2 DEF Described, Stored
  <2>7. ASSUME cbatch # NoBatch
        PROVE  \A s \in Slots : cj <= s /\ s < n[cbatch] => Ready(cbatch, s)'
    <3>1. PICK a \in Batches : a = cbatch /\ a = cbatch' /\ a # b
      BY <1>3, <2>1, <2>7
    <3>2. \A s \in Slots : cj <= s /\ s < n[a] => Ready(a, s)
      BY <2>7, <3>1 DEF Described, Stored
    <3>3. \A s \in Slots : cj <= s /\ s < n[a] => Ready(a, s)'
      BY <2>2, <3>1, <3>2
    <3> QED BY <3>1, <3>3 DEF Ready
  <2> QED BY <1>3, <2>5, <2>6, <2>7 DEF Described, Stored
<1> QED BY <1>11, <1>12 DEF Described

(* results <- batch: every slot has been decoded.                          *)
LEMMA WorkerSendStep ==
  ASSUME Types, Holding, NEW w \in Workers, WorkerSend(w),
         NEW p \in [Batches -> Places], Described(p)
  PROVE  \E q \in [Batches -> Places] : Described(q)'
<1>0. wbatch[w] \in Batches
  BY Numbers DEF WorkerSend, Holding, BatchOrNil
<1>1. PICK b \in Batches : b = wbatch[w]
  BY <1>0
<1> DEFINE q == [p EXCEPT ![b] = "results"]
<1>2. /\ p[b] = "worker" /\ b # NoBatch /\ wj[w] = n[b]
      /\ wbatch'[w] = NoBatch
      /\ \A v \in Workers : v # w => wbatch'[v] = wbatch[v] /\ wbatch[v] # b
      /\ UNCHANGED <<free, jobs, firstBlock, n, archive, inputs, nwBytes, outs, i, readFailed, rpc, rbatch,
                     wj, cpc, cbatch, cj, pending, next, out>>
  BY <1>1, PoolSize
  DEF WorkerSend, Described, Placed, Types, WorkerTypes, NoBatch, batch, reader, collector
<1>3. NoDup(results') /\ Elems(results') = Elems(results) \cup {b}
  <2>1. results' = Append(results, b) /\ results \in Seq(Batches)
    BY <1>1 DEF WorkerSend, Types, ChannelTypes
  <2>2. b \notin Elems(results) /\ NoDup(results)
    BY <1>2 DEF Described, Placed
  <2> QED BY <2>1, <2>2, SendElems
<1>4. q \in [Batches -> Places] /\ q[b] = "results" /\ \A a \in Batches : a # b => q[a] = p[a]
  BY DEF Places
<1> HIDE DEF q
<1>p. Placed(q)'
  <2>1. ASSUME NEW a \in Batches
        PROVE  /\ q[a] = "free" <=> a \in Elems(free)
               /\ q[a] = "jobs" <=> a \in Elems(jobs)
               /\ q[a] = "results" <=> a \in Elems(results')
               /\ q[a] = "reader" <=> rbatch = a
               /\ q[a] = "worker" <=> \E v \in Workers : wbatch'[v] = a
               /\ q[a] = "pending" <=> \E x \in 0 .. NumBlocks : pending[x] = a
               /\ q[a] = "collector" <=> cbatch = a
    <3>1. CASE a = b
      BY <1>1, <1>2, <1>3, <1>4, <3>1, PoolSize DEF Described, Placed, NoBatch
    <3>2. CASE a # b
      BY <1>1, <1>2, <1>3, <1>4, <3>2, PoolSize DEF Described, Placed, NoBatch
    <3> QED BY <3>1, <3>2
  <2> QED BY <1>1, <1>2, <1>3, <1>4, <2>1 DEF Described, Placed
<1>5. Filled(q)' /\ Tiled(q)'
  BY <1>2, <1>4, HandOver
<1>6. Stored(q)'
  <2>1. \A s \in Slots : s < n[b] => Ready(b, s)
    BY <1>1, <1>2 DEF Described, Stored
  <2>2. \A a \in Batches, s \in Slots : Loaded(a, s)' = Loaded(a, s) /\ Ready(a, s)' = Ready(a, s)
    BY <1>2 DEF Loaded, Ready, Right
  <2>3. \A v \in Workers : wbatch'[v] # NoBatch => wbatch'[v] = wbatch[v] /\ wbatch[v] \in Batches
    BY <1>2, Whereabouts DEF Described
  <2>4. cbatch # NoBatch => cbatch \in Batches
    BY Whereabouts DEF Described
  <2>5. \A a \in Batches : /\ q[a] # "free" => p[a] # "free"
                           /\ q[a] \in {"reader", "jobs"} => p[a] \in {"reader", "jobs"}
                           /\ q[a] \in {"results", "pending"} => a = b \/ p[a] \in {"results", "pending"}
    BY <1>2, <1>4
  <2> QED BY <1>2, <2>1, <2>2, <2>3, <2>4, <2>5 DEF Described, Stored
<1> QED BY <1>p, <1>4, <1>5, <1>6 DEF Described

(* The collector receives a batch: no other batch in use starts at the     *)
(* same block, so nothing in pending is overwritten.                       *)
LEMMA CollectorReceiveStep ==
  ASSUME Types, Holding, CollectorReceive, NEW p \in [Batches -> Places], Described(p)
  PROVE  \E q \in [Batches -> Places] : Described(q)'
<1>0. PICK b \in Batches : b = Head(results)
  BY DEF CollectorReceive, Types, ChannelTypes
<1> DEFINE q == [p EXCEPT ![b] = "pending"]
<1>1. /\ p[b] = "results" /\ b # NoBatch
      /\ NoDup(results') /\ Elems(results') = Elems(results) \ {b}
  <2>1. /\ b \in Elems(results) /\ results' = Tail(results)
        /\ NoDup(results') /\ Elems(results') = Elems(results) \ {b}
    BY <1>0, ReceiveElems DEF CollectorReceive, Types, ChannelTypes, Described, Placed
  <2> QED BY <2>1, PoolSize DEF Described, Placed, NoBatch
<1>2. PICK f \in 0 .. NumBlocks : f = firstBlock[b]
  BY DEF Types, BatchTypes
<1>3. pending[f] = NoBatch
  <2> SUFFICES ASSUME pending[f] # NoBatch PROVE FALSE
    OBVIOUS
  <2>1. PICK c \in Batches : c = pending[f]
    BY DEF Types, CollectorTypes, BatchOrNil
  <2>2. p[c] = "pending" /\ firstBlock[c] = f /\ c # b
    BY <1>1, <2>1 DEF Described, Placed, Stored
  <2>3. /\ firstBlock[b] + n[b] <= i /\ firstBlock[c] + n[c] <= i
        /\ n[b] = 0 => firstBlock[b] = i
        /\ n[c] = 0 => firstBlock[c] = i
    BY <1>1, <2>2 DEF Described, Filled
  <2>4. /\ firstBlock[b] + n[b] <= firstBlock[c] \/ firstBlock[c] + n[c] <= firstBlock[b]
        /\ n[b] > 0 \/ n[c] > 0
    BY <1>1, <2>2 DEF Described, Tiled
  <2> QED BY <1>2, <2>2, <2>3, <2>4, Numbers
<1>4. /\ pending'[f] = b /\ cpc' = "look"
      /\ \A x \in 0 .. NumBlocks : x # f => pending'[x] = pending[x]
      /\ UNCHANGED <<free, jobs, firstBlock, n, archive, inputs, nwBytes, outs, i, readFailed, rpc, rbatch,
                     wbatch, wj, cbatch, cj, next, out>>
  BY <1>0, <1>2 DEF CollectorReceive, Types, CollectorTypes, batch, reader, workers
<1>5. q \in [Batches -> Places] /\ q[b] = "pending" /\ \A a \in Batches : a # b => q[a] = p[a]
  BY DEF Places
<1> HIDE DEF q
<1>p. Placed(q)'
  <2>1. ASSUME NEW a \in Batches
        PROVE  /\ q[a] = "free" <=> a \in Elems(free)
               /\ q[a] = "jobs" <=> a \in Elems(jobs)
               /\ q[a] = "results" <=> a \in Elems(results')
               /\ q[a] = "reader" <=> rbatch = a
               /\ q[a] = "worker" <=> \E v \in Workers : wbatch[v] = a
               /\ q[a] = "pending" <=> \E x \in 0 .. NumBlocks : pending'[x] = a
               /\ q[a] = "collector" <=> cbatch = a
    <3>1. CASE a = b
      BY <1>1, <1>3, <1>4, <1>5, <3>1, PoolSize DEF Described, Placed, NoBatch
    <3>2. CASE a # b
      BY <1>1, <1>3, <1>4, <1>5, <3>2, PoolSize DEF Described, Placed, NoBatch
    <3> QED BY <3>1, <3>2
  <2> QED BY <1>1, <1>3, <1>4, <1>5, <2>1 DEF Described, Placed
<1>6. Filled(q)' /\ Tiled(q)'
  BY <1>1, <1>4, <1>5, HandOver
<1>7. Stored(q)'
  <2>1. \A a \in Batches : q[a] \in {"results", "pending"} => p[a] \in {"results", "pending"}
    BY <1>1, <1>5
  <2>2. \A x \in 0 .. NumBlocks : pending'[x] # NoBatch => firstBlock[pending'[x]] = x
    BY <1>2, <1>4 DEF Described, Stored
  <2>3. \A a \in Batches, s \in Slots : Loaded(a, s)' = Loaded(a, s) /\ Ready(a, s)' = Ready(a, s)
    BY <1>4 DEF Loaded, Ready, Right
  <2>4. /\ \A v \in Workers : wbatch[v] # NoBatch => wbatch[v] \in Batches
        /\ cbatch # NoBatch => cbatch \in Batches
    BY Whereabouts DEF Described
  <2>5. \A a \in Batches : /\ q[a] # "free" => p[a] # "free"
                           /\ q[a] \in {"reader", "jobs"} => p[a] \in {"reader", "jobs"}
    BY <1>1, <1>5
  <2> QED BY <1>4, <2>1, <2>2, <2>3, <2>4, <2>5 DEF Described, Stored
<1> QED BY <1>p, <1>5, <1>6, <1>7 DEF Described

(* The collector takes the next batch out of pending.                      *)
LEMMA CollectorPickStep ==
  ASSUME Types, Holding, CollectorPick, NEW p \in [Batches -> Places], Described(p)
  PROVE  \E q \in [Batches -> Places] : Described(q)'
<1>0. next \in 0 .. NumBlocks /\ pending[next] \in Batches
  BY DEF CollectorPick, Types, CollectorTypes, BatchOrNil
<1>1. PICK b \in Batches : b = pending[next]
  BY <1>0
<1> DEFINE q == [p EXCEPT ![b] = "collector"]
<1>2. /\ p[b] = "pending" /\ b # NoBatch /\ firstBlock[b] = next
      /\ \A x \in 0 .. NumBlocks : x # next => pending[x] # b
  BY <1>0, <1>1, PoolSize DEF Described, Placed, Stored, NoBatch
<1>3. /\ pending'[next] = NoBatch /\ cbatch = NoBatch /\ cbatch' = b /\ cj' = 0 /\ cpc' = "write"
      /\ \A x \in 0 .. NumBlocks : x # next => pending'[x] = pending[x]
      /\ UNCHANGED <<free, jobs, results, firstBlock, n, archive, inputs, nwBytes, outs, i, readFailed, rpc, rbatch,
                     wbatch, wj, next, out>>
  BY <1>0, <1>1
  DEF CollectorPick, Holding, Types, CollectorTypes, channels, batch, reader, workers
<1>4. q \in [Batches -> Places] /\ q[b] = "collector" /\ \A a \in Batches : a # b => q[a] = p[a]
  BY DEF Places
<1> HIDE DEF q
<1>p. Placed(q)'
  <2>1. ASSUME NEW a \in Batches
        PROVE  /\ q[a] = "free" <=> a \in Elems(free)
               /\ q[a] = "jobs" <=> a \in Elems(jobs)
               /\ q[a] = "results" <=> a \in Elems(results)
               /\ q[a] = "reader" <=> rbatch = a
               /\ q[a] = "worker" <=> \E v \in Workers : wbatch[v] = a
               /\ q[a] = "pending" <=> \E x \in 0 .. NumBlocks : pending'[x] = a
               /\ q[a] = "collector" <=> cbatch' = a
    <3>1. CASE a = b
      BY <1>0, <1>2, <1>3, <1>4, <3>1, PoolSize DEF Described, Placed, NoBatch
    <3>2. CASE a # b
      BY <1>0, <1>2, <1>3, <1>4, <3>2, PoolSize DEF Described, Placed, NoBatch
    <3> QED BY <3>1, <3>2
  <2> QED BY <1>0, <1>2, <1>3, <1>4, <2>1 DEF Described, Placed
<1>5. Filled(q)' /\ Tiled(q)'
  BY <1>2, <1>3, <1>4, HandOver
<1>6. Stored(q)'
  <2>1. \A s \in Slots : s < n[b] => Ready(b, s)
    BY <1>2 DEF Described, Stored
  <2>2. 0 <= n[b] /\ Len(out) = next + 0
    BY <1>3, Numbers DEF Described, Stored
  <2>3. \A a \in Batches : q[a] \in {"results", "pending"} => p[a] \in {"results", "pending"}
    BY <1>4
  <2>4. \A x \in 0 .. NumBlocks : pending'[x] # NoBatch => firstBlock[pending'[x]] = x
    BY <1>3 DEF Described, Stored
  <2>5. \A a \in Batches, s \in Slots : Loaded(a, s)' = Loaded(a, s) /\ Ready(a, s)' = Ready(a, s)
    BY <1>3 DEF Loaded, Ready, Right
  <2>6. \A v \in Workers : wbatch[v] # NoBatch => wbatch[v] \in Batches
    BY Whereabouts DEF Described
  <2>7. \A a \in Batches : /\ q[a] # "free" => p[a] # "free"
                           /\ q[a] \in {"reader", "jobs"} => p[a] \in {"reader", "jobs"}
    BY <1>2, <1>4
  <2> QED BY <1>2, <1>3, <2>1, <2>2, <2>3, <2>4, <2>5, <2>6, <2>7 DEF Described, Stored
<1> QED BY <1>p, <1>4, <1>5, <1>6 DEF Described

(* The collector writes one block of its batch.                            *)
LEMMA CollectorWriteStep ==
  ASSUME Types, Holding, CollectorWrite, NEW p \in [Batches -> Places], Described(p)
  PROVE  Described(p)'
<1>0. cbatch \in Batches /\ cbatch # NoBatch
  BY DEF CollectorWrite, Holding, Types, CollectorTypes, BatchOrNil
<1>1. PICK b \in Batches : b = cbatch
  BY <1>0
<1>2. /\ p[b] = "collector" /\ cj < n[b] /\ cj \in Slots /\ cj' = cj + 1
      /\ UNCHANGED <<free, jobs, results, firstBlock, n, archive, inputs, nwBytes, i, readFailed, rpc, rbatch,
                     wbatch, wj, cpc, cbatch, pending, next>>
  BY <1>0, <1>1, Numbers DEF CollectorWrite, Described, Placed, channels, reader, workers
<1>3. \A a \in Batches, s \in Slots : a # b \/ s # cj => outs'[a][s] = outs[a][s]
  <2>1. NoBytes \in Bytes
    BY DEF NoBytes, NoBlock, Bytes
  <2>2. outs' = [outs EXCEPT ![b][cj] = NoBytes]
    BY <1>1 DEF CollectorWrite
  <2> QED BY <1>2, <2>1, <2>2, SlotUpdate DEF Types, BatchTypes
<1>4. Len(out') = Len(out) + 1
  <2>1. outs[b][cj] \in Bytes
    BY <1>2 DEF Types, BatchTypes
  <2> QED BY <1>1, <2>1 DEF CollectorWrite, Types, CollectorTypes
<1>5. Placed(p)' /\ Filled(p)' /\ Tiled(p)'
  <2>1. Placed(p)'
    BY <1>2 DEF Described, Placed
  <2>2. Filled(p)' /\ Tiled(p)'
    BY <1>2, HandOver
  <2> QED BY <2>1, <2>2
<1>6. Stored(p)'
  <2>1. \A v \in Workers : wbatch[v] # NoBatch => wbatch[v] \in Batches /\ wbatch[v] # b
    BY <1>2, Whereabouts DEF Described
  <2>2. ASSUME NEW a \in Batches, NEW s \in Slots
        PROVE  /\ Loaded(a, s)' = Loaded(a, s)
               /\ a # b \/ s # cj => Ready(a, s)' = Ready(a, s)
    BY <1>2, <1>3 DEF Loaded, Ready, Right
  <2>3. /\ firstBlock[b] = next /\ cj' <= n[b] /\ Len(out') = next + cj'
        /\ \A s \in Slots : cj' <= s /\ s < n[b] => Ready(b, s)'
    <3>1. /\ firstBlock[b] = next /\ Len(out) = next + cj
          /\ \A s \in Slots : cj <= s /\ s < n[b] => Ready(b, s)
      BY <1>0, <1>1 DEF Described, Stored
    <3>2. cj' <= n[b] /\ Len(out') = next + cj'
      BY <1>2, <1>4, <3>1, Numbers
    <3>3. ASSUME NEW s \in Slots, cj' <= s, s < n[b]
          PROVE  Ready(b, s)'
      <4>1. cj <= s /\ s # cj
        BY <1>2, <3>3, Numbers
      <4> QED BY <2>2, <3>1, <3>3, <4>1
    <3> QED BY <3>1, <3>2, <3>3
  <2>4. \A a \in Batches : p[a] \in {"results", "pending"} => a # b
    BY <1>2
  <2> QED BY <1>0, <1>1, <1>2, <2>1, <2>2, <2>3, <2>4 DEF Described, Stored
<1> QED BY <1>5, <1>6 DEF Described

(* The collector frees its batch: the first tile is gone, and the rest     *)
(* tile what follows it.                                                   *)
LEMMA CollectorRecycleStep ==
  ASSUME Types, Holding, CollectorRecycle, NEW p \in [Batches -> Places], Described(p)
  PROVE  \E q \in [Batches -> Places] : Described(q)'
<1>0. cbatch \in Batches /\ cbatch # NoBatch
  BY DEF CollectorRecycle, Holding, Types, CollectorTypes, BatchOrNil
<1>1. PICK b \in Batches : b = cbatch
  BY <1>0
<1> DEFINE q == [p EXCEPT ![b] = "free"]
<1>2. /\ p[b] = "collector" /\ b # NoBatch /\ firstBlock[b] = next /\ cj = n[b]
      /\ next' = next + n[b] /\ cbatch' = NoBatch /\ cpc' = "look"
      /\ UNCHANGED <<jobs, results, firstBlock, n, archive, inputs, nwBytes, outs, i, readFailed, rpc, rbatch,
                     wbatch, wj, pending, out>>
  BY <1>0, <1>1 DEF CollectorRecycle, Described, Placed, Stored, batch, reader, workers
<1>3. NoDup(free') /\ Elems(free') = Elems(free) \cup {b}
  <2>1. free' = Append(free, b) /\ free \in Seq(Batches)
    BY <1>1 DEF CollectorRecycle, Types, ChannelTypes
  <2>2. b \notin Elems(free) /\ NoDup(free)
    BY <1>2 DEF Described, Placed
  <2> QED BY <2>1, <2>2, SendElems
<1>4. q \in [Batches -> Places] /\ q[b] = "free" /\ \A a \in Batches : a # b => q[a] = p[a]
  BY DEF Places
<1> HIDE DEF q
<1>p. Placed(q)'
  <2>1. ASSUME NEW a \in Batches
        PROVE  /\ q[a] = "free" <=> a \in Elems(free')
               /\ q[a] = "jobs" <=> a \in Elems(jobs)
               /\ q[a] = "results" <=> a \in Elems(results)
               /\ q[a] = "reader" <=> rbatch = a
               /\ q[a] = "worker" <=> \E v \in Workers : wbatch[v] = a
               /\ q[a] = "pending" <=> \E x \in 0 .. NumBlocks : pending[x] = a
               /\ q[a] = "collector" <=> cbatch' = a
    <3>1. CASE a = b
      BY <1>1, <1>2, <1>3, <1>4, <3>1, PoolSize DEF Described, Placed, NoBatch
    <3>2. CASE a # b
      BY <1>1, <1>2, <1>3, <1>4, <3>2, PoolSize DEF Described, Placed, NoBatch
    <3> QED BY <3>1, <3>2
  <2> QED BY <1>1, <1>2, <1>3, <1>4, <2>1 DEF Described, Placed
<1>5. next + n[b] <= i
  BY <1>2 DEF Described, Filled
<1>6. ASSUME NEW a \in Batches, p[a] # "free", a # b
      PROVE  next + n[b] <= firstBlock[a]
  <2>1. /\ firstBlock[a] + n[a] <= next \/ next + n[b] <= firstBlock[a]
        /\ next <= firstBlock[a]
    BY <1>2, <1>6 DEF Described, Tiled, Filled
  <2>2. n[a] = 0 => firstBlock[a] = i
    <3>1. CASE p[a] = "reader"
      BY <1>6, <3>1, Numbers DEF Described, Filled
    <3>2. CASE p[a] # "reader"
      BY <1>6, <3>2 DEF Described, Filled
    <3> QED BY <3>1, <3>2
  <2> QED BY <1>5, <2>1, <2>2, Numbers
<1>7. Filled(q)'
  <2>1. ASSUME NEW a \in Batches, q[a] # "free"
        PROVE  a # b /\ p[a] # "free" /\ q[a] = p[a] /\ next' <= firstBlock[a]
    BY <1>2, <1>4, <1>6, <2>1
  <2> QED BY <1>2, <1>5, <2>1 DEF Described, Filled
<1>8. Stored(q)'
  <2>1. \A a \in Batches : q[a] \in {"results", "pending"} => p[a] \in {"results", "pending"}
    BY <1>4
  <2>2. Len(out) = next'
    BY <1>0, <1>1, <1>2 DEF Described, Stored
  <2>3. \A a \in Batches, s \in Slots : Loaded(a, s)' = Loaded(a, s) /\ Ready(a, s)' = Ready(a, s)
    BY <1>2 DEF Loaded, Ready, Right
  <2>4. \A v \in Workers : wbatch[v] # NoBatch => wbatch[v] \in Batches
    BY Whereabouts DEF Described
  <2>5. \A a \in Batches : /\ q[a] # "free" => p[a] # "free"
                           /\ q[a] \in {"reader", "jobs"} => p[a] \in {"reader", "jobs"}
    BY <1>4
  <2> QED BY <1>2, <2>1, <2>2, <2>3, <2>4, <2>5 DEF Described, Stored
<1>9. Tiled(q)'
  <2>1. ASSUME NEW x \in 0 .. NumBlocks, next' <= x, x < i
        PROVE  \E a \in Batches : q[a] # "free" /\ firstBlock[a] <= x /\ x < firstBlock[a] + n[a]
    <3>1. next <= x
      BY <1>2, <2>1, Numbers
    <3>2. PICK a \in Batches : p[a] # "free" /\ firstBlock[a] <= x /\ x < firstBlock[a] + n[a]
      BY <2>1, <3>1 DEF Described, Tiled
    <3>3. a # b
      BY <1>2, <2>1, <3>2, Numbers
    <3> QED BY <1>4, <3>2, <3>3
  <2>2. \A a \in Batches : q[a] # "free" => p[a] # "free"
    BY <1>4
  <2> QED BY <1>2, <2>1, <2>2 DEF Described, Tiled
<1> QED BY <1>p, <1>4, <1>7, <1>8, <1>9 DEF Described

(* Steps that neither move a batch nor touch one.                          *)
LEMMA OtherStep ==
  ASSUME Types, Holding, NEW p \in [Batches -> Places], Described(p),
         \/ ReaderFail \/ ReaderFilled \/ ReaderClose \/ ReaderJoin
         \/ (\E w \in Workers : WorkerExit(w) \/ WorkerCrash(w))
         \/ CloseResults \/ CollectorMiss \/ CollectorEnd \/ UNCHANGED vars
  PROVE  Described(p)'
<1> USE DEF channels, batch, reader, workers, collector
<1>1. UNCHANGED <<free, jobs, results, firstBlock, n, archive, inputs, nwBytes, outs, i, rbatch,
                  wbatch, wj, cbatch, cj, pending, next, out>>
  BY DEF ReaderFail, ReaderFilled, ReaderClose, ReaderJoin, WorkerExit, WorkerCrash, CloseResults,
     CollectorMiss, CollectorEnd, vars
<1>2. Placed(p)' /\ Stored(p)'
  <2>1. Placed(p)'
    BY <1>1 DEF Described, Placed
  <2>2. Stored(p)'
    BY <1>1 DEF Described, Stored, Loaded, Ready, Right
  <2> QED BY <2>1, <2>2
<1>3. readFailed => readFailed'
  BY DEF ReaderFail, ReaderFilled, ReaderClose, ReaderJoin, WorkerExit, WorkerCrash, CloseResults,
     CollectorMiss, CollectorEnd, vars
<1>4. /\ rpc' = "fill" => rpc = "fill" /\ readFailed' = readFailed
      /\ rpc' = "send" => rpc = "send" \/ ReaderFail \/ ReaderFilled
  BY DEF ReaderFail, ReaderFilled, ReaderClose, ReaderJoin, WorkerExit, WorkerCrash, CloseResults,
     CollectorMiss, CollectorEnd, vars
<1>5. ReaderFail => readFailed'
  BY DEF ReaderFail
<1>6. ReaderFilled => n[rbatch] # 0
  <2> SUFFICES ASSUME ReaderFilled, n[rbatch] = 0 PROVE FALSE
    OBVIOUS
  <2>1. i < NumBlocks
    BY DEF ReaderFilled, Described, Filled
  <2> QED BY <2>1, Numbers DEF ReaderFilled, Filling
<1>7. Filled(p)'
  BY <1>1, <1>3, <1>4, <1>5, <1>6 DEF Described, Filled
<1>8. cpc' \in {"receive", "done"} => pending[next] = NoBatch
  BY DEF ReaderFail, ReaderFilled, ReaderClose, ReaderJoin, WorkerExit, WorkerCrash, CloseResults,
     CollectorMiss, CollectorEnd, vars, Described, Tiled
<1>9. Tiled(p)'
  BY <1>1, <1>8 DEF Described, Tiled
<1> QED BY <1>2, <1>7, <1>9 DEF Described

-----------------------------------------------------------------------------
(* What the collector writes next is the next block, as it should be, and  *)
(* goes to the writer and the hash alike.                                  *)
LEMMA OutStep == IInv /\ [Next]_vars => (hashed = out)' /\ Restores'
<1> SUFFICES ASSUME IInv, [Next]_vars PROVE (hashed = out)' /\ Restores'
  OBVIOUS
<1>1. Types /\ Holding /\ hashed = out /\ Restores
  BY DEF IInv, TypeOK, Types
<1>2. CASE UNCHANGED <<archive, out, hashed>>
  BY <1>1, <1>2 DEF Restores
<1>3. CASE CollectorWrite
  <2>1. PICK p \in [Batches -> Places] : Described(p)
    BY DEF IInv, Described
  <2>2. cbatch \in Batches /\ cbatch # NoBatch /\ cj < n[cbatch]
    BY <1>1, <1>3, InHand DEF CollectorWrite, Types
  <2>3. cj \in Slots
    BY <1>1, <2>2, Numbers
  <2>4. Ready(cbatch, cj) /\ firstBlock[cbatch] = next /\ Len(out) = next + cj
    <3>1. PICK b \in Batches : b = cbatch
      BY <2>2
    <3>2. cj <= cj
      BY <1>1, Numbers
    <3> QED BY <2>1, <2>2, <2>3, <3>2 DEF Described, Stored
  <2>5. outs[cbatch][cj] \in Bytes /\ Right(outs[cbatch][cj], Len(out))
    BY <1>1, <2>2, <2>3, <2>4 DEF Ready, Types, BatchTypes
  <2>6. out \in Seq(Bytes)
    BY <1>1 DEF Types, CollectorTypes
  <2>7. out' = Append(out, outs[cbatch][cj]) /\ hashed' = Append(hashed, outs[cbatch][cj]) /\ archive' = archive
    BY <1>3 DEF CollectorWrite
  <2>8. PICK e \in Bytes : e = outs[cbatch][cj]
    BY <2>5
  <2>9. /\ Len(out') = Len(out) + 1 /\ Len(out) \in Nat /\ out'[Len(out) + 1] = e
        /\ \A k \in 1 .. Len(out) : out'[k] = out[k]
    BY <2>6, <2>7, <2>8
  <2>10. ASSUME NEW k \in 1 .. Len(out')
         PROVE  Right(out'[k], k - 1)
    <3>1. CASE k = Len(out) + 1
      <4>1. k - 1 = Len(out)
        BY <2>9, <3>1
      <4> QED BY <2>5, <2>8, <2>9, <3>1, <4>1
    <3>2. CASE k \in 1 .. Len(out)
      BY <1>1, <2>9, <3>2 DEF Restores, Right
    <3> QED BY <2>9, <3>1, <3>2
  <2> QED BY <1>1, <2>7, <2>10 DEF Restores, Right
<1>4. CASE ~CollectorWrite
  <2>1. UNCHANGED <<archive, out, hashed>>
    BY <1>4 DEF Next, vars, Reader, Worker, Collector, Terminated, reader, collector,
       ReaderTake, ReaderFill, ReaderFail, ReaderFilled, ReaderSend, ReaderClose, ReaderJoin,
       WorkerReceive, WorkerDecode, WorkerCrash, WorkerSend, WorkerExit, CloseResults,
       CollectorReceive, CollectorPick, CollectorMiss, CollectorRecycle, CollectorEnd
  <2> QED BY <1>2, <2>1
<1> QED BY <1>3, <1>4

(* IInv is inductive.                                                      *)
LEMMA IInvStep == IInv /\ [Next]_vars => IInv'
<1> SUFFICES ASSUME IInv, [Next]_vars PROVE IInv'
  OBVIOUS
<1>1. TypeOK' /\ Holding' /\ Closing' /\ (hashed = out)' /\ Restores'
  BY TypeStep, ControlStep, OutStep
<1>2. Types /\ Holding /\ Closing
  BY DEF IInv, TypeOK, Types
<1>3. PICK p \in [Batches -> Places] : Described(p)
  BY DEF IInv, Described
<1>4. \E q \in [Batches -> Places] : Described(q)'
  <2>1. CASE ReaderTake
    BY <1>2, <1>3, <2>1, TakeStep
  <2>2. CASE ReaderFill
    BY <1>2, <1>3, <2>2, FillStep
  <2>3. CASE ReaderSend
    BY <1>2, <1>3, <2>3, ReaderSendStep
  <2>4. ASSUME NEW w \in Workers, WorkerReceive(w)
        PROVE  \E q \in [Batches -> Places] : Described(q)'
    BY <1>2, <1>3, <2>4, WorkerReceiveStep
  <2>5. ASSUME NEW w \in Workers, WorkerDecode(w)
        PROVE  \E q \in [Batches -> Places] : Described(q)'
    BY <1>2, <1>3, <2>5, WorkerDecodeStep
  <2>6. ASSUME NEW w \in Workers, WorkerSend(w)
        PROVE  \E q \in [Batches -> Places] : Described(q)'
    BY <1>2, <1>3, <2>6, WorkerSendStep
  <2>7. CASE CollectorReceive
    BY <1>2, <1>3, <2>7, CollectorReceiveStep
  <2>8. CASE CollectorPick
    BY <1>2, <1>3, <2>8, CollectorPickStep
  <2>9. CASE CollectorWrite
    BY <1>2, <1>3, <2>9, CollectorWriteStep
  <2>10. CASE CollectorRecycle
    BY <1>2, <1>3, <2>10, CollectorRecycleStep
  <2>11. CASE \/ ReaderFail \/ ReaderFilled \/ ReaderClose \/ ReaderJoin
              \/ (\E w \in Workers : WorkerExit(w) \/ WorkerCrash(w))
              \/ CloseResults \/ CollectorMiss \/ CollectorEnd \/ UNCHANGED vars
    BY <1>2, <1>3, <2>11, OtherStep
  <2> QED BY <2>1, <2>2, <2>3, <2>4, <2>5, <2>6, <2>7, <2>8, <2>9, <2>10, <2>11
          DEF Next, Reader, Worker, Collector, Terminated
<1> QED BY <1>1, <1>4 DEF IInv, Described

(* The inductive invariant holds in every reachable state.                 *)
THEOREM Invariance == Spec => []IInv
BY InitIInv, IInvStep, PTL DEF Spec

(* Every variable keeps its type and the block counters stay in range.     *)
THEOREM TypeCorrect == Spec => []TypeOK
<1>1. IInv => TypeOK
  BY DEF IInv
<1> QED BY <1>1, Invariance, PTL

(* The hash and the file agree, and each block is as long as it was, with  *)
(* its own bytes if they can be had at all: whatever the key, however many *)
(* workers, and whichever blocks make the decoder panic.                   *)
THEOREM RestoresCorrect == Spec => []Restores
<1>1. IInv => Restores
  BY DEF IInv
<1> QED BY <1>1, Invariance, PTL

(* A batch on the free list, or being filled, is in nobody else's hands,   *)
(* so no recycled output buffer is read or written.                        *)
THEOREM RecycleCorrect == Spec => []NoUseAfterRecycle
<1>1. IInv => NoUseAfterRecycle
  <2> SUFFICES ASSUME IInv,
                      NEW b \in { free[k] : k \in 1 .. Len(free) } \cup {rbatch}, b # NoBatch,
                      b \in { wbatch[w] : w \in Workers } \cup {cbatch}
                              \cup { jobs[k] : k \in 1 .. Len(jobs) }
                              \cup { results[k] : k \in 1 .. Len(results) }
                              \cup { pending[x] : x \in 0 .. NumBlocks }
               PROVE  FALSE
    BY DEF NoUseAfterRecycle
  <2>1. PICK p \in [Batches -> Places] : Placed(p)
    BY DEF IInv
  <2>2. b \in Batches
    <3>1. free \in Seq(Batches) /\ rbatch \in BatchOrNil
      BY DEF IInv, TypeOK, ChannelTypes, ReaderTypes
    <3> QED BY <3>1 DEF BatchOrNil
  <2>3. p[b] \in {"free", "reader"}
    BY <2>1, <2>2 DEF Placed, Elems
  <2>4. p[b] \notin {"free", "reader"}
    BY <2>1, <2>2 DEF Placed, Elems
  <2> QED BY <2>3, <2>4
<1> QED BY <1>1, Invariance, PTL

(* After the join no batch is in use, so nothing is left between what has  *)
(* been written and what has been read.                                    *)
LEMMA NothingLeft ==
  ASSUME IInv, Done
  PROVE  Len(out) = i /\ (readFailed \/ i = NumBlocks)
<1>1. PICK p \in [Batches -> Places] : Described(p)
  BY DEF IInv, Described
<1>t. Types /\ Holding /\ Closing
  BY DEF IInv, TypeOK, Types
<1>2. /\ cpc = "done" /\ results = <<>> /\ jobs = <<>> /\ rbatch = NoBatch /\ cbatch = NoBatch
      /\ \A w \in Workers : wpc[w] = "exited" /\ wbatch[w] = NoBatch
      /\ readFailed \/ i = NumBlocks
  BY <1>t, PoolAssumption DEF Done, Closing, Holding
<1>3. \A b \in Batches : p[b] \in {"free", "pending"}
  BY <1>1, <1>2, EmptyElems, PoolSize DEF Described, Placed, Places, NoBatch
<1>4. next = i
  <2> SUFFICES ASSUME next # i PROVE FALSE
    OBVIOUS
  <2>1. next < i /\ next \in 0 .. NumBlocks
    BY <1>1, <1>t, Numbers DEF Described, Filled
  <2>2. PICK b \in Batches : p[b] # "free" /\ firstBlock[b] <= next
    BY <1>1, <2>1, Numbers, <1>t DEF Described, Tiled
  <2>3. firstBlock[b] = next /\ p[b] = "pending"
    BY <1>1, <1>3, <2>2, <1>t, Numbers DEF Described, Filled
  <2>4. PICK x \in 0 .. NumBlocks : pending[x] = b
    BY <1>1, <2>3 DEF Described, Placed
  <2>5. x = next
    BY <1>1, <2>3, <2>4, PoolSize DEF Described, Stored, NoBatch
  <2>6. pending[next] = NoBatch
    BY <1>1, <1>2 DEF Described, Tiled
  <2> QED BY <2>4, <2>5, <2>6, PoolSize DEF NoBatch
<1>5. Len(out) = i
  BY <1>1, <1>2, <1>4, <1>t, Numbers DEF Described, Stored
<1> QED BY <1>2, <1>5

(* The hash main compares is over exactly the bytes written, and when it   *)
(* does so they are the whole file unless a read failed.                   *)
THEOREM HashCorrect == Spec => []HashCoversOutput
<1>1. IInv => HashCoversOutput
  BY NothingLeft DEF IInv, HashCoversOutput
<1> QED BY <1>1, Invariance, PTL

-----------------------------------------------------------------------------
(* DecompressPool implements OrderedPipe, as far as safety goes.           *)

(* The ordered pipe without its fairness.                                  *)
PipeSafety == Pipe!Init /\ [][Pipe!Next]_(Pipe!vars)

(* The blocks that left the pool, a block that cannot be had shown as the  *)
(* pipe's item: a step that writes nothing leaves it alone.                *)
Shown == [k \in 1 .. Len(out) |->
            IF archive.decodes[k - 1] = "own" THEN out[k] ELSE OriginalBlock(k - 1)]

(* While the reader has a slot to fill, there are fewer blocks between     *)
(* next and i than slots: each of those blocks has a slot of its own in a  *)
(* batch in use, and none has the one about to be filled.                  *)
LEMMA SlotLeft ==
  ASSUME Types, Holding, NEW p \in [Batches -> Places], Described(p), Filling
  PROVE  i - next < InFlight * BatchSize
<1>. DEFINE blocks == next .. i - 1
            Home(x) == CHOOSE b \in Batches :
                         p[b] # "free" /\ firstBlock[b] <= x /\ x < firstBlock[b] + n[b]
            slot == [x \in blocks |-> <<Home(x), x - firstBlock[Home(x)]>>]
            filling == <<rbatch, n[rbatch]>>
            others == (Batches \X Slots) \ {filling}
<1>1. /\ next \in Nat /\ i \in Nat /\ next <= i /\ i <= NumBlocks /\ NumBlocks \in Nat
      /\ BatchSize \in Nat /\ InFlight \in Nat
  BY Numbers, PoolSize DEF Described, Filled
<1>2. /\ rbatch \in Batches /\ n[rbatch] \in Slots
  BY Numbers DEF Filling, Holding, Types, ReaderTypes, BatchOrNil
<1>3. \A x \in blocks : /\ Home(x) \in Batches
                        /\ firstBlock[Home(x)] <= x /\ x < firstBlock[Home(x)] + n[Home(x)]
  <2>. SUFFICES ASSUME NEW x \in blocks
                PROVE  \E b \in Batches : p[b] # "free" /\ firstBlock[b] <= x /\ x < firstBlock[b] + n[b]
    OBVIOUS
  <2>1. x \in 0 .. NumBlocks /\ next <= x /\ x < i
    BY <1>1
  <2>. QED  BY <2>1 DEF Described, Tiled
<1>4. \A x \in blocks : /\ Home(x) \in Batches /\ x - firstBlock[Home(x)] \in Slots
                        /\ x - firstBlock[Home(x)] # n[Home(x)]
  <2>. SUFFICES ASSUME NEW x \in blocks
                PROVE  /\ Home(x) \in Batches /\ x - firstBlock[Home(x)] \in Slots
                       /\ x - firstBlock[Home(x)] # n[Home(x)]
    OBVIOUS
  <2>1. /\ Home(x) \in Batches
        /\ firstBlock[Home(x)] <= x /\ x < firstBlock[Home(x)] + n[Home(x)]
    BY <1>3
  <2>2. x \in Nat
    BY <1>1
  <2>. HIDE DEF Home
  <2>. QED  BY <2>1, <2>2, Numbers
<1>5. slot \in [blocks -> others]
  <2>. HIDE DEF Home
  <2>. QED  BY <1>4
<1>6. \A x, y \in blocks : slot[x] = slot[y] => x = y
  <2>. SUFFICES ASSUME NEW x \in blocks, NEW y \in blocks, slot[x] = slot[y]
                PROVE  x = y
    OBVIOUS
  <2>. DEFINE bx == Home(x)  by == Home(y)
  <2>1. bx = by /\ x - firstBlock[bx] = y - firstBlock[by]
    <3>. HIDE DEF Home
    <3>. QED  OBVIOUS
  <2>2. bx \in Batches /\ x \in Nat /\ y \in Nat
    BY <1>1, <1>3
  <2>3. firstBlock[bx] \in Nat
    <3>. HIDE DEF bx
    <3>. QED  BY <2>2, Numbers
  <2>. HIDE DEF bx, by
  <2>. QED  BY <2>1, <2>2, <2>3
<1>7. IsFiniteSet(blocks) /\ Cardinality(blocks) = i - next
  <2>1. Cardinality(blocks) = IF next > i - 1 THEN 0 ELSE i - 1 - next + 1
    BY <1>1, FS_Interval
  <2>2. IsFiniteSet(blocks)
    BY <1>1, FS_Interval
  <2>. QED  BY <1>1, <2>1, <2>2
<1>8. IsFiniteSet(others) /\ Cardinality(others) = InFlight * BatchSize - 1
  <2>1. IsFiniteSet(Batches) /\ Cardinality(Batches) = InFlight
    BY BatchCount
  <2>2. IsFiniteSet(Slots) /\ Cardinality(Slots) = BatchSize
    BY FS_Interval, PoolAssumption DEF Slots
  <2>3. IsFiniteSet(Batches \X Slots) /\ Cardinality(Batches \X Slots) = InFlight * BatchSize
    BY <2>1, <2>2, FS_Product
  <2>4. filling \in Batches \X Slots
    BY <1>2
  <2>. HIDE DEF filling
  <2>. QED  BY <2>3, <2>4, FS_RemoveElement
<1>9. ~(Cardinality(others) < Cardinality(blocks))
  <2>. HIDE DEF slot, others, blocks
  <2>. QED  BY <1>5, <1>6, <1>7, <1>8, FS_PigeonHole
<1>10. InFlight * BatchSize \in Nat
  BY <1>1
<1>. HIDE DEF blocks, others
<1>. QED  BY <1>1, <1>7, <1>8, <1>9, <1>10

-----------------------------------------------------------------------------
(* A step of the pool is a step of the pipe, or invisible in it.           *)

(* What leaves the pipe is, for every block, the block it should be.       *)
LEMMA ShownBlocks ==
  ASSUME out \in Seq(Bytes), Restores
  PROVE  /\ Shown = [k \in 1 .. Len(out) |-> OriginalBlock(k - 1)]
         /\ Len(Shown) = Len(out)
<1>1. \A k \in 1 .. Len(out) : archive.decodes[k - 1] = "own" => out[k] = OriginalBlock(k - 1)
  BY DEF Restores
<1>2. Shown = [k \in 1 .. Len(out) |-> OriginalBlock(k - 1)]
  BY <1>1 DEF Shown
<1>3. Len(out) \in Nat
  OBVIOUS
<1> QED BY <1>2, <1>3

(* Reading a block is accepting it: SlotLeft is the pipe's capacity.       *)
LEMMA FillAccepts == IInv /\ ReaderFill => Pipe!Accept
<1>. SUFFICES ASSUME IInv, ReaderFill PROVE Pipe!Accept
  OBVIOUS
<1>1. PICK p \in [Batches -> Places] : Described(p)
  BY DEF IInv, Described
<1>2. Types /\ Holding /\ Restores
  BY DEF IInv, TypeOK, Types
<1>3. Filling /\ ~readFailed /\ i < NumBlocks /\ ~Dead
  BY <1>1 DEF ReaderFill, Filling, Described, Filled, Dead
<1>4. i - next < InFlight * BatchSize
  BY <1>1, <1>2, <1>3, SlotLeft
<1>5. Len(out) \in Nat /\ next <= Len(out)
  BY <1>1, <1>2, Numbers DEF Described, Stored
<1>6. i - Len(out) < InFlight * BatchSize
  <2>1. InFlight * BatchSize \in Int
    BY <1>2, PoolSize, Numbers
  <2>. DEFINE capacity == InFlight * BatchSize
  <2>2. capacity \in Int /\ i - next < capacity
    BY <1>4, <2>1
  <2>. HIDE DEF capacity
  <2>3. i - Len(out) < capacity
    BY <1>2, <1>5, <2>2, Numbers
  <2>. QED  BY <2>3 DEF capacity
<1>7. i' = i + 1 /\ UNCHANGED <<readFailed, Shown, Done, Dead>>
  BY DEF ReaderFill, collector, Done, Dead, Shown
<1>8. Len(Shown) = Len(out)
  BY <1>2, ShownBlocks DEF Types, CollectorTypes
<1>. QED  BY <1>3, <1>6, <1>7, <1>8 DEF Pipe!Accept, Shown

(* Writing a block is emitting it: the next one in order, and accepted.    *)
LEMMA WriteEmits == IInv /\ CollectorWrite => Pipe!Emit
<1>. SUFFICES ASSUME IInv, CollectorWrite PROVE Pipe!Emit
  OBVIOUS
<1>1. PICK p \in [Batches -> Places] : Described(p)
  BY DEF IInv, Described
<1>2. Types /\ Holding /\ Closing /\ Restores
  BY DEF IInv, TypeOK, Types
<1>3. cbatch \in Batches /\ cbatch # NoBatch /\ cj < n[cbatch]
  BY <1>2, InHand DEF CollectorWrite, Types
<1>4. Len(out) = next + cj /\ firstBlock[cbatch] = next
  BY <1>1, <1>3 DEF Described, Stored
<1>5. p[cbatch] = "collector"
  BY <1>1, <1>3 DEF Described, Placed
<1>6. firstBlock[cbatch] + n[cbatch] <= i
  BY <1>1, <1>3, <1>5 DEF Described, Filled
<1>7. Len(out) < i
  BY <1>2, <1>3, <1>4, <1>6, Numbers
<1>8. TypeOK' /\ Restores'
  <2>1. [Next]_vars
    BY DEF Next, Collector
  <2>. QED  BY <2>1, TypeStep, OutStep
<1>9. Len(out') = Len(out) + 1 /\ Len(out) \in Nat
  <2>1. out \in Seq(Bytes) /\ out' \in Seq(Bytes)
    BY <1>2, <1>8 DEF TypeOK, Types, CollectorTypes
  <2>. QED  BY <2>1 DEF CollectorWrite
<1>10. /\ Shown = [k \in 1 .. Len(out) |-> OriginalBlock(k - 1)] /\ Len(Shown) = Len(out)
       /\ Shown' = [k \in 1 .. Len(out') |-> OriginalBlock(k - 1)]
  <2>1. out \in Seq(Bytes) /\ Restores
    BY <1>2 DEF Types, CollectorTypes
  <2>2. out' \in Seq(Bytes) /\ Restores'
    BY <1>8 DEF TypeOK, CollectorTypes
  <2>3. \A k \in 1 .. Len(out') : archive'.decodes[k - 1] = "own" => out'[k] = OriginalBlock(k - 1)
    BY <2>2 DEF Restores
  <2>4. Shown' = [k \in 1 .. Len(out') |-> OriginalBlock(k - 1)]
    BY <2>3 DEF Shown
  <2>. QED  BY <2>1, <2>4, ShownBlocks
<1>11. Shown' = Append(Shown, OriginalBlock(Len(Shown)))
  <2>. DEFINE N == Len(out)
              all(m) == [k \in 1 .. m |-> OriginalBlock(k - 1)]
  <2>1. ASSUME NEW m \in Nat PROVE all(m + 1) = Append(all(m), OriginalBlock(m))
    <3>1. \A k \in Nat : OriginalBlock(k) \in Bytes
      BY PoolAssumption DEF OriginalBlock, Bytes
    <3>2. all(m) \in Seq(Bytes) /\ all(m + 1) \in Seq(Bytes) /\ Len(all(m)) = m /\ Len(all(m + 1)) = m + 1
      <4>1. \A k \in 1 .. m + 1 : OriginalBlock(k - 1) \in Bytes
        BY <3>1
      <4>. HIDE DEF Bytes
      <4>2. all(m) \in [1 .. m -> Bytes] /\ all(m + 1) \in [1 .. m + 1 -> Bytes]
        BY <4>1
      <4>. HIDE DEF all
      <4>. QED  BY <4>2
    <3>3. \A k \in 1 .. m + 1 : all(m + 1)[k] = Append(all(m), OriginalBlock(m))[k]
      <4>1. \A k \in 1 .. m : Append(all(m), OriginalBlock(m))[k] = all(m)[k]
        <5>. HIDE DEF all
        <5>. QED  BY <3>1, <3>2
      <4>2. Append(all(m), OriginalBlock(m))[m + 1] = OriginalBlock(m)
        <5>. HIDE DEF all
        <5>. QED  BY <3>1, <3>2
      <4>3. \A k \in 1 .. m : all(m)[k] = OriginalBlock(k - 1) /\ all(m + 1)[k] = OriginalBlock(k - 1)
        OBVIOUS
      <4>4. all(m + 1)[m + 1] = OriginalBlock(m)
        OBVIOUS
      <4>. HIDE DEF all
      <4>5. \A k \in 1 .. m + 1 : k \in 1 .. m \/ k = m + 1
        OBVIOUS
      <4>. QED  BY <4>1, <4>2, <4>3, <4>4, <4>5
    <3>. HIDE DEF all
    <3>4. Append(all(m), OriginalBlock(m)) \in Seq(Bytes) /\ Len(Append(all(m), OriginalBlock(m))) = m + 1
      BY <3>1, <3>2
    <3>. QED  BY <3>2, <3>3, <3>4, SeqEqual
  <2>2. Shown = all(N) /\ Shown' = all(N + 1) /\ Len(Shown) = N
    BY <1>9, <1>10
  <2>. HIDE DEF N, all
  <2>. QED  BY <1>9, <2>1, <2>2 DEF N
<1>12. ~Dead /\ UNCHANGED <<i, readFailed, Done, Dead>>
  BY <1>2 DEF CollectorWrite, Closing, reader, Done, Dead
<1>. QED  BY <1>7, <1>10, <1>11, <1>12 DEF Pipe!Emit, Shown

(* The join ends the pipe: NothingLeft in the state after it.              *)
LEMMA JoinEnds == IInv /\ ReaderJoin => Pipe!End
<1>. SUFFICES ASSUME IInv, ReaderJoin PROVE Pipe!End
  OBVIOUS
<1>1. ~Done /\ ~Dead /\ Done' /\ ~Dead'
  BY DEF ReaderJoin, Done, Dead
<1>2. UNCHANGED <<i, readFailed, out, Shown>>
  BY DEF ReaderJoin, collector, Shown
<1>3. Len(out) = i /\ (readFailed \/ i = NumBlocks)
  <2>1. [Next]_vars
    BY DEF Next, Reader
  <2>2. IInv'
    BY <2>1, IInvStep
  <2>3. (IInv /\ Done => Len(out) = i /\ (readFailed \/ i = NumBlocks))'
    BY NothingLeft, PTL
  <2>. QED  BY <1>1, <1>2, <2>2, <2>3
<1>4. Len(Shown) = Len(out)
  BY ShownBlocks DEF IInv, TypeOK, CollectorTypes
<1>. QED  BY <1>1, <1>2, <1>3, <1>4 DEF Pipe!End, Shown, Done, Dead

(* A panic nobody recovers from is the crash of the pipe: a worker at work *)
(* means that the pool has been neither joined nor killed.                 *)
LEMMA PanicCrashes == ASSUME IInv, NEW w \in Workers, WorkerCrash(w) PROVE Pipe!Crash
<1>1. Closing /\ wpc[w] = "decode"
  BY DEF IInv, WorkerCrash
<1>2. rpc # "done" /\ rpc # "dead" /\ rpc' = "dead"
  BY <1>1 DEF Closing, WorkerCrash
<1>3. UNCHANGED <<i, readFailed, Shown>>
  BY DEF WorkerCrash, Shown
<1>. QED  BY <1>2, <1>3 DEF Pipe!Crash, Done, Dead, Shown

(* Every step of the pool is a step of the pipe or leaves it as it is.     *)
LEMMA PipeStep == IInv /\ [Next]_vars => [Pipe!Next]_(Pipe!vars)
<1>. SUFFICES ASSUME IInv, [Next]_vars PROVE [Pipe!Next]_(Pipe!vars)
  OBVIOUS
<1>1. CASE ReaderFill
  BY <1>1, FillAccepts DEF Pipe!Next
<1>2. CASE ReaderFail
  <2>1. ~readFailed /\ i < NumBlocks /\ ~Dead
    BY <1>2 DEF ReaderFail, Filling, IInv, Filled, Dead
  <2>2. readFailed' = TRUE /\ UNCHANGED <<i, Shown, Done, Dead>>
    BY <1>2 DEF ReaderFail, Filling, collector, Done, Dead, Shown
  <2>. QED  BY <2>1, <2>2 DEF Pipe!Next, Pipe!Fail, Shown
<1>3. CASE CollectorWrite
  BY <1>3, WriteEmits DEF Pipe!Next
<1>4. CASE ReaderJoin
  BY <1>4, JoinEnds DEF Pipe!Next
<1>5. CASE \E w \in Workers : WorkerCrash(w)
  BY <1>5, PanicCrashes DEF Pipe!Next
<1>6. CASE ~(ReaderFill \/ ReaderFail \/ CollectorWrite \/ ReaderJoin \/ \E w \in Workers : WorkerCrash(w))
  <2>1. UNCHANGED <<i, readFailed, archive, out, Done, Dead>>
    BY <1>6 DEF Next, vars, Reader, Worker, Collector, Terminated,
       channels, batch, reader, workers, collector, Done, Dead,
       ReaderTake, ReaderFilled, ReaderSend, ReaderClose,
       WorkerReceive, WorkerDecode, WorkerSend, WorkerExit, CloseResults,
       CollectorReceive, CollectorPick, CollectorMiss, CollectorRecycle, CollectorEnd
  <2>. QED  BY <2>1 DEF Pipe!vars
<1>. QED  BY <1>1, <1>2, <1>3, <1>4, <1>5, <1>6

(* The decompress pool implements the ordered pipe: blocks are accepted in *)
(* order with at most InFlight * BatchSize in flight, each leaves once and *)
(* in order, the join comes after the last, and only a panic nobody        *)
(* recovers from ends it before that.                                      *)
THEOREM RefinesPipe == Spec => PipeSafety
<1>1. Init => Pipe!Init
  BY DEF Init, Done, Dead, Pipe!Init
<1>2. IInv /\ [Next]_vars => [Pipe!Next]_(Pipe!vars)
  BY PipeStep
<1>. QED  BY <1>1, <1>2, Invariance, PTL DEF Spec, PipeSafety
=============================================================================
