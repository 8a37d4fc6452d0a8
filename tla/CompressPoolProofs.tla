-------------------------- MODULE CompressPoolProofs --------------------------
(***************************************************************************)
(* Proofs about CompressPool, for any number of workers, blocks and blocks *)
(* per batch.                                                              *)
(*                                                                         *)
(* The properties of the pool rest on one inductive invariant, IInv.  Its  *)
(* heart is that some assignment p of batches to places describes where    *)
(* every batch is (Placed): the queues, the map and the goroutines'        *)
(* variables are then disjoint by construction, and a step moves one batch *)
(* from one place to another.  The rest of IInv says what is in a batch at *)
(* each place (Filled, Coded), how the blocks in use tile the range        *)
(* between `next' and `i' (Tiled), and in which order the goroutines end   *)
(* (Closing).  From the same invariant follows, in the second part, that   *)
(* the pool implements OrderedPipe.                                        *)
(***************************************************************************)
EXTENDS CompressPool, Foundations

Places == {"free", "reader", "jobs", "worker", "results", "pending", "collector"}

(* p tells where each batch is.                                            *)
Placed(p) ==
  /\ p \in [Batches -> Places]
  /\ NoDup(free) /\ NoDup(jobs) /\ NoDup(results)
  /\ \A v, w \in Workers : wbatch[v] = wbatch[w] /\ wbatch[v] # NoBatch => v = w
  /\ \A x, y \in 0 .. NumBlocks : pending[x] = pending[y] /\ pending[x] # NoBatch => x = y
  /\ \A b \in Batches :
       /\ p[b] = "free" <=> b \in Elems(free)
       /\ p[b] = "jobs" <=> b \in Elems(jobs)
       /\ p[b] = "results" <=> b \in Elems(results)
       /\ p[b] = "reader" <=> rbatch = b
       /\ p[b] = "worker" <=> \E w \in Workers : wbatch[w] = b
       /\ p[b] = "pending" <=> \E x \in 0 .. NumBlocks : pending[x] = b
       /\ p[b] = "collector" <=> cbatch = b

(* A goroutine holds a batch exactly where its code has one in hand.       *)
Holding ==
  /\ rpc \in {"fill", "send"} <=> rbatch # NoBatch
  /\ \A w \in Workers : wpc[w] = "encode" <=> wbatch[w] # NoBatch
  /\ cpc = "write" <=> cbatch # NoBatch

(* A batch in use holds consecutive blocks already read and not yet        *)
(* written; only the batch of a failed read can be empty.                  *)
Filled(p) ==
  /\ \A b \in Batches : p[b] # "free" =>
       /\ next <= firstBlock[b]
       /\ firstBlock[b] + n[b] <= i
       /\ \A s \in Slots : s < n[b] => inputs[b][s] = firstBlock[b] + s
       /\ p[b] = "reader" => firstBlock[b] + n[b] = i
       /\ p[b] # "reader" /\ n[b] = 0 => readFailed /\ firstBlock[b] = i
  /\ next <= i
  /\ rpc = "fill" => ~readFailed /\ (n[rbatch] = 0 => i < NumBlocks)
  /\ rpc = "send" /\ n[rbatch] = 0 => readFailed

(* What has been encoded.                                                  *)
Coded(p) ==
  /\ \A b \in Batches : p[b] \in {"results", "pending"} =>
       \A s \in Slots : s < n[b] => datas[b][s] = OwnItem(firstBlock[b] + s)
  /\ \A w \in Workers : wbatch[w] # NoBatch =>
       /\ wj[w] <= n[wbatch[w]]
       /\ \A s \in Slots : s < wj[w] =>
            datas[wbatch[w]][s] = OwnItem(firstBlock[wbatch[w]] + s)
  /\ \A x \in 0 .. NumBlocks : pending[x] # NoBatch => firstBlock[pending[x]] = x
  /\ cbatch # NoBatch =>
       /\ firstBlock[cbatch] = next /\ cj <= n[cbatch]
       /\ \A s \in Slots : cj <= s /\ s < n[cbatch] =>
            datas[cbatch][s] = OwnItem(firstBlock[cbatch] + s)
  /\ Len(out) = next + (IF cbatch # NoBatch THEN cj ELSE 0)

(* The batches in use tile the blocks from next to i - 1.                  *)
Tiled(p) ==
  /\ \A a, b \in Batches : a # b /\ p[a] # "free" /\ p[b] # "free" =>
       /\ firstBlock[a] + n[a] <= firstBlock[b] \/ firstBlock[b] + n[b] <= firstBlock[a]
       /\ n[a] > 0 \/ n[b] > 0
  /\ \A x \in 0 .. NumBlocks : next <= x /\ x < i =>
       \E b \in Batches : p[b] # "free" /\ firstBlock[b] <= x /\ x < firstBlock[b] + n[b]
  /\ cpc \in {"receive", "done"} => pending[next] = NoBatch

(* The order in which the goroutines finish.                               *)
Closing ==
  /\ jobsClosed <=> rpc \in {"join", "done"}
  /\ jobsClosed => readFailed \/ i = NumBlocks
  /\ \A w \in Workers : wpc[w] = "exited" => jobsClosed /\ jobs = <<>>
  /\ resultsClosed => \A w \in Workers : wpc[w] = "exited"
  /\ cpc = "done" => resultsClosed /\ results = <<>>
  /\ rpc = "done" => cpc = "done"

(* The hash has been fed the blocks read, in order.                        *)
Hashed == Len(hashed) = i /\ \A k \in 1 .. Len(hashed) : hashed[k] = k - 1

IInv == /\ TypeOK /\ Holding /\ Closing /\ Hashed /\ InOrder
        /\ \E p \in [Batches -> Places] : Placed(p) /\ Filled(p) /\ Coded(p) /\ Tiled(p)
-----------------------------------------------------------------------------
(* The size of the pool is a positive number.                              *)
LEMMA PoolSize == InFlight \in Nat /\ InFlight > 0 /\ 0 \notin Batches
<1>1. Cardinality(Workers) \in Nat
  BY PoolAssumption, FS_CardinalityType
<1>2. Cardinality(Workers) # 0
  BY PoolAssumption, FS_EmptySet
<1> QED BY <1>1, <1>2 DEF InFlight, Batches

(* There are as many batches as a channel has room for.                    *)
LEMMA BatchCount == IsFiniteSet(Batches) /\ Cardinality(Batches) = InFlight
BY FS_Interval, PoolSize DEF Batches

(* Before the goroutines start, every batch is on the free list.           *)
THEOREM InitIInv == Init => IInv
<1> SUFFICES ASSUME Init PROVE IInv
  OBVIOUS
<1> USE PoolAssumption, PoolSize DEF NoBatch
<1>0. free \in Seq(Batches) /\ Len(free) = InFlight /\ \A k \in 1 .. Len(free) : free[k] = k
  <2>1. free \in [1 .. InFlight -> Batches]
    BY DEF Init, Batches
  <2>2. free \in Seq(Batches) /\ Len(free) = InFlight
    BY <2>1
  <2> QED BY <2>2 DEF Init, Batches
<1>1. TypeOK
  <2>1. ChannelTypes
    <3>1. \A S : <<>> \in Seq(S)
      OBVIOUS
    <3> QED BY <1>0, <3>1 DEF Init, ChannelTypes
  <2>2. BatchTypes
    BY DEF Init, BatchTypes, NoData, NoBlock, Encoded
  <2>3. ReaderTypes
    <3>1. <<>> \in Seq(Int)
      OBVIOUS
    <3>2. rpc \in ReaderPC /\ rbatch \in BatchOrNil
      BY DEF Init, ReaderPC, BatchOrNil
    <3>3. i \in 0 .. NumBlocks
      BY DEF Init
    <3>4. readFailed \in BOOLEAN
      BY DEF Init
    <3>5. hashed \in Seq(Int)
      BY <3>1 DEF Init
    <3> QED BY <3>2, <3>3, <3>4, <3>5 DEF ReaderTypes
  <2>4. WorkerTypes
    BY DEF Init, WorkerTypes, BatchOrNil, WorkerPC
  <2>5. CollectorTypes
    BY DEF Init, CollectorTypes, BatchOrNil, CollectorPC
  <2> QED BY <2>1, <2>2, <2>3, <2>4, <2>5 DEF TypeOK
<1>2. Holding /\ Closing /\ Hashed /\ InOrder
  BY DEF Init, Holding, Closing, Hashed, InOrder
<1>3. ASSUME NEW p \in [Batches -> Places], p = [b \in Batches |-> "free"]
      PROVE  Placed(p) /\ Filled(p) /\ Coded(p) /\ Tiled(p)
  <2>1. Elems(free) = Batches /\ NoDup(free)
    <3>1. \A b \in Batches : b \in 1 .. Len(free)
      BY <1>0 DEF Batches
    <3> QED BY <1>0, <3>1 DEF Elems, NoDup
  <2>2. \A b \in Batches : b # 0
    OBVIOUS
  <2>3. Placed(p)
    BY <1>3, <2>1, <2>2, EmptyElems DEF Init, Placed
  <2>4. Filled(p) /\ Coded(p) /\ Tiled(p)
    BY <1>3 DEF Init, Filled, Coded, Tiled
  <2> QED BY <2>3, <2>4
<1>4. [b \in Batches |-> "free"] \in [Batches -> Places]
  BY DEF Places
<1> QED BY <1>1, <1>2, <1>3, <1>4 DEF IInv

(* Every step keeps the type invariant: one step per action, in which only *)
(* the parts of TypeOK about variables the action writes need a reason.    *)
LEMMA TypeStep == IInv /\ [Next]_vars => TypeOK'
<1> SUFFICES ASSUME IInv, [Next]_vars PROVE TypeOK'
  OBVIOUS
<1> USE PoolAssumption, PoolSize
<1>t. /\ ChannelTypes /\ BatchTypes /\ ReaderTypes /\ WorkerTypes /\ CollectorTypes
      /\ Holding
  BY DEF IInv, TypeOK
<1>p. PICK p \in [Batches -> Places] : Placed(p) /\ Filled(p) /\ Coded(p) /\ Tiled(p)
  BY DEF IInv
<1>f. \A b \in Batches : b # NoBatch
  BY DEF NoBatch
<1> USE DEF channels, batch, reader, workers, collector
<1> USE DEF ChannelTypes, BatchTypes, ReaderTypes, WorkerTypes, CollectorTypes
<1>1. CASE ReaderTake
  <2>1. Head(free) \in Batches /\ Tail(free) \in Seq(Batches)
    BY <1>t, <1>1 DEF ReaderTake
  <2>2. ChannelTypes' /\ ReaderTypes' /\ WorkerTypes' /\ CollectorTypes'
    BY <1>t, <1>1, <2>1 DEF ReaderTake, ReaderPC, BatchOrNil
  <2>3. BatchTypes'
    BY <1>t, <1>1, <2>1 DEF ReaderTake
  <2> QED BY <2>2, <2>3 DEF TypeOK
<1>2. CASE ReaderFill
  <2>1. rbatch \in Batches /\ n[rbatch] \in Slots /\ i \in 0 .. NumBlocks - 1 /\ i \in Int
    BY <1>t, <1>2 DEF ReaderFill, Filling, Holding, BatchOrNil, Slots
  <2>2. ChannelTypes' /\ ReaderTypes' /\ WorkerTypes' /\ CollectorTypes'
    BY <1>t, <1>2, <2>1 DEF ReaderFill
  <2>3. inputs' \in [Batches -> [Slots -> Int]]
    BY <1>t, <1>2, <2>1, SlotUpdate DEF ReaderFill
  <2>4. n' \in [Batches -> 0 .. BatchSize]
    <3>1. n[rbatch] + 1 \in 0 .. BatchSize
      BY <2>1 DEF Slots
    <3> QED BY <1>t, <1>2, <2>1, <3>1 DEF ReaderFill
  <2>5. BatchTypes'
    BY <1>t, <1>2, <2>3, <2>4 DEF ReaderFill
  <2> QED BY <2>2, <2>5 DEF TypeOK
<1>3. CASE ReaderFail \/ ReaderFilled \/ ReaderClose \/ ReaderJoin
  BY <1>t, <1>3 DEF TypeOK, ReaderFail, ReaderFilled, ReaderClose, ReaderJoin, ReaderPC
<1>4. CASE ReaderSend
  BY <1>t, <1>4 DEF TypeOK, ReaderSend, ReaderPC, Holding, BatchOrNil
<1>5. ASSUME NEW w \in Workers, WorkerReceive(w) PROVE TypeOK'
  <2>1. Head(jobs) \in Batches /\ Tail(jobs) \in Seq(Batches)
    BY <1>t, <1>5 DEF WorkerReceive
  <2>2. ChannelTypes' /\ BatchTypes' /\ ReaderTypes' /\ CollectorTypes'
    BY <1>t, <1>5, <2>1 DEF WorkerReceive
  <2>3. WorkerTypes'
    <3>1. "encode" \in WorkerPC /\ 0 \in 0 .. BatchSize /\ Head(jobs) \in BatchOrNil
      BY <2>1 DEF WorkerPC, BatchOrNil
    <3> QED BY <1>t, <1>5, <3>1 DEF WorkerReceive
  <2> QED BY <2>2, <2>3 DEF TypeOK
<1>6. ASSUME NEW w \in Workers, WorkerEncode(w) PROVE TypeOK'
  <2>1. wbatch[w] \in Batches /\ wj[w] \in Slots /\ wj[w] + 1 \in 0 .. BatchSize
    <3>1. wbatch[w] \in Batches
      BY <1>t, <1>6 DEF WorkerEncode, Holding, BatchOrNil
    <3>2. n[wbatch[w]] \in 0 .. BatchSize /\ wj[w] \in 0 .. BatchSize /\ wj[w] < n[wbatch[w]]
      BY <1>t, <1>6, <3>1 DEF WorkerEncode
    <3> QED BY <3>1, <3>2 DEF Slots
  <2> DEFINE e == [block |-> inputs[wbatch[w]][wj[w]], index |-> firstBlock[wbatch[w]] + wj[w]]
  <2>2. e \in Encoded
    <3>1. inputs[wbatch[w]][wj[w]] \in Int
      BY <1>t, <2>1
    <3>2. firstBlock[wbatch[w]] + wj[w] \in Int
      BY <1>t, <2>1 DEF Slots
    <3> QED BY <3>1, <3>2 DEF Encoded
  <2>3. datas' = [datas EXCEPT ![wbatch[w]][wj[w]] = e]
    BY <1>6 DEF WorkerEncode
  <2> HIDE DEF e
  <2>4. datas' \in [Batches -> [Slots -> Encoded]]
    BY <1>t, <2>1, <2>2, <2>3, SlotUpdate
  <2>5. ChannelTypes' /\ ReaderTypes' /\ CollectorTypes' /\ WorkerTypes'
    BY <1>t, <1>6, <2>1 DEF WorkerEncode
  <2>6. BatchTypes'
    BY <1>t, <1>6, <2>4 DEF WorkerEncode
  <2> QED BY <2>5, <2>6 DEF TypeOK
<1>7. ASSUME NEW w \in Workers, WorkerSend(w) PROVE TypeOK'
  BY <1>t, <1>7 DEF TypeOK, WorkerSend, WorkerPC, Holding, BatchOrNil
<1>8. ASSUME NEW w \in Workers, WorkerExit(w) PROVE TypeOK'
  BY <1>t, <1>8 DEF TypeOK, WorkerExit, WorkerPC
<1>9. CASE CloseResults
  BY <1>t, <1>9 DEF TypeOK, CloseResults
<1>10. CASE CollectorReceive
  <2>1. Head(results) \in Batches /\ Tail(results) \in Seq(Batches)
    BY <1>t, <1>10 DEF CollectorReceive
  <2>2. ChannelTypes' /\ BatchTypes' /\ ReaderTypes' /\ WorkerTypes'
    BY <1>t, <1>10, <2>1 DEF CollectorReceive
  <2>3. CollectorTypes'
    BY <1>t, <1>10, <2>1 DEF CollectorReceive, CollectorPC, BatchOrNil
  <2> QED BY <2>2, <2>3 DEF TypeOK
<1>11. CASE CollectorPick
  <2>1. CollectorTypes'
    BY <1>t, <1>11 DEF CollectorPick, CollectorPC, BatchOrNil
  <2> QED BY <1>t, <1>11, <2>1 DEF TypeOK, CollectorPick
<1>12. CASE CollectorMiss \/ CollectorEnd
  BY <1>t, <1>12 DEF TypeOK, CollectorMiss, CollectorEnd, CollectorPC
<1>13. CASE CollectorWrite
  <2>1. cbatch \in Batches /\ cj \in Slots /\ cj + 1 \in 0 .. BatchSize
    BY <1>t, <1>13 DEF CollectorWrite, Holding, BatchOrNil, Slots
  <2>2. datas[cbatch][cj] \in Encoded /\ NoData \in Encoded
    BY <1>t, <2>1 DEF NoData, NoBlock, Encoded
  <2>3. datas' \in [Batches -> [Slots -> Encoded]]
    BY <1>t, <1>13, <2>1, <2>2, SlotUpdate DEF CollectorWrite
  <2>4. CollectorTypes'
    BY <1>t, <1>13, <2>1, <2>2 DEF CollectorWrite, CollectorPC
  <2> QED BY <1>t, <1>13, <2>3, <2>4 DEF TypeOK, CollectorWrite
<1>14. CASE CollectorRecycle
  <2>1. cbatch \in Batches /\ cbatch # NoBatch
    BY <1>t, <1>f, <1>14 DEF CollectorRecycle, Holding, BatchOrNil
  <2>2. next + n[cbatch] <= i
    BY <1>t, <1>p, <2>1 DEF Placed, Filled, Coded
  <2>3. ChannelTypes'
    BY <1>t, <1>14, <2>1 DEF CollectorRecycle
  <2>4. next + n[cbatch] \in 0 .. NumBlocks
    BY <1>t, <2>1, <2>2
  <2>5. CollectorTypes'
    BY <1>t, <1>14, <2>4 DEF CollectorRecycle, CollectorPC, BatchOrNil
  <2> QED BY <1>t, <1>14, <2>3, <2>5 DEF TypeOK, CollectorRecycle
<1>15. CASE UNCHANGED vars
  BY <1>t, <1>15 DEF TypeOK, vars
<1> QED BY <1>1, <1>2, <1>3, <1>4, <1>5, <1>6, <1>7, <1>8, <1>9, <1>10, <1>11, <1>12, <1>13, <1>14, <1>15
        DEF Next, Reader, Worker, Collector, Terminated
(* Program counters, closed channels and the hash: every step keeps them   *)
(* consistent.                                                             *)
LEMMA ControlStep == IInv /\ [Next]_vars => Holding' /\ Closing' /\ Hashed'
<1> SUFFICES ASSUME IInv, [Next]_vars PROVE Holding' /\ Closing' /\ Hashed'
  OBVIOUS
<1>t. /\ ChannelTypes /\ BatchTypes /\ ReaderTypes /\ WorkerTypes /\ CollectorTypes
      /\ Holding /\ Closing /\ Hashed
  BY DEF IInv, TypeOK
<1>f. \A b \in Batches : b # NoBatch
  BY PoolSize DEF NoBatch
<1> USE DEF channels, batch, reader, workers, collector
<1>1. CASE ReaderTake
  <2>1. Head(free) \in Batches
    BY <1>t, <1>1 DEF ReaderTake, ChannelTypes
  <2> QED BY <1>t, <1>f, <1>1, <2>1 DEF ReaderTake, Holding, Closing, Hashed
<1>2. CASE ReaderFill
  <2>1. Holding' /\ Closing'
    BY <1>t, <1>2 DEF ReaderFill, Filling, Holding, Closing
  <2>2. Hashed'
    <3>1. /\ hashed \in Seq(Int) /\ i \in Int
          /\ hashed' = Append(hashed, i) /\ i' = i + 1
      BY <1>t, <1>2 DEF ReaderFill, ReaderTypes
    <3> QED BY <1>t, <3>1 DEF Hashed
  <2> QED BY <2>1, <2>2
<1>3. CASE ReaderFail \/ ReaderFilled
  BY <1>t, <1>3 DEF ReaderFail, ReaderFilled, Filling, Holding, Closing, Hashed
<1>4. CASE ReaderSend
  BY <1>t, <1>4 DEF ReaderSend, Holding, Closing, Hashed
<1>5. CASE ReaderClose
  BY <1>t, <1>5, PoolAssumption DEF ReaderClose, ReaderTypes, Holding, Closing, Hashed
<1>6. CASE ReaderJoin
  BY <1>t, <1>6 DEF ReaderJoin, Holding, Closing, Hashed
<1>7. ASSUME NEW w \in Workers, WorkerReceive(w) PROVE Holding' /\ Closing' /\ Hashed'
  <2>1. Head(jobs) \in Batches
    BY <1>t, <1>7 DEF WorkerReceive, ChannelTypes
  <2>2. Holding'
    BY <1>t, <1>f, <1>7, <2>1 DEF WorkerReceive, WorkerTypes, Holding
  <2>3. Closing' /\ Hashed'
    BY <1>t, <1>7 DEF WorkerReceive, WorkerTypes, Closing, Hashed
  <2> QED BY <2>2, <2>3
<1>8. ASSUME NEW w \in Workers, WorkerEncode(w) PROVE Holding' /\ Closing' /\ Hashed'
  BY <1>t, <1>8 DEF WorkerEncode, Holding, Closing, Hashed
<1>9. ASSUME NEW w \in Workers, WorkerSend(w) PROVE Holding' /\ Closing' /\ Hashed'
  <2>1. Holding'
    BY <1>t, <1>9 DEF WorkerSend, WorkerTypes, Holding
  <2>2. Closing' /\ Hashed'
    BY <1>t, <1>9 DEF WorkerSend, WorkerTypes, Closing, Hashed
  <2> QED BY <2>1, <2>2
<1>10. ASSUME NEW w \in Workers, WorkerExit(w) PROVE Holding' /\ Closing' /\ Hashed'
  BY <1>t, <1>10 DEF WorkerExit, WorkerTypes, Holding, Closing, Hashed
<1>11. CASE CloseResults
  BY <1>t, <1>11 DEF CloseResults, Holding, Closing, Hashed
<1>12. CASE CollectorReceive
  BY <1>t, <1>12 DEF CollectorReceive, Holding, Closing, Hashed
<1>13. CASE CollectorPick
  BY <1>t, <1>13 DEF CollectorPick, Holding, Closing, Hashed
<1>14. CASE CollectorMiss \/ CollectorWrite \/ CollectorEnd
  BY <1>t, <1>14 DEF CollectorMiss, CollectorWrite, CollectorEnd, Holding, Closing, Hashed
<1>15. CASE CollectorRecycle
  BY <1>t, <1>15 DEF CollectorRecycle, Holding, Closing, Hashed
<1>16. CASE UNCHANGED vars
  BY <1>t, <1>16 DEF vars, Holding, Closing, Hashed
<1> QED BY <1>1, <1>2, <1>3, <1>4, <1>5, <1>6, <1>7, <1>8, <1>9, <1>10, <1>11, <1>12, <1>13, <1>14,
           <1>15, <1>16 DEF Next, Reader, Worker, Collector, Terminated

(* Only the collector writes, and what it writes next is the next block.   *)
LEMMA OrderStep == IInv /\ [Next]_vars => InOrder'
<1> SUFFICES ASSUME IInv, [Next]_vars PROVE InOrder'
  OBVIOUS
<1>t. TypeOK /\ Holding /\ InOrder
  BY DEF IInv
<1>1. CASE CollectorWrite
  <2>p. PICK p \in [Batches -> Places] : Coded(p)
    BY DEF IInv
  <2>1. cbatch \in Batches /\ cbatch # NoBatch /\ cj \in Slots /\ cj < n[cbatch]
    <3>1. cbatch \in Batches /\ cbatch # NoBatch
      BY <1>t, <1>1 DEF CollectorWrite, Holding, TypeOK, CollectorTypes, BatchOrNil
    <3>2. cj \in 0 .. BatchSize /\ n[cbatch] \in 0 .. BatchSize /\ cj < n[cbatch]
      BY <1>t, <1>1, <3>1 DEF CollectorWrite, TypeOK, CollectorTypes, BatchTypes
    <3> QED BY <3>1, <3>2, PoolAssumption DEF Slots
  <2>2. Len(out) = next + cj /\ datas[cbatch][cj] = OwnItem(next + cj)
    BY <2>p, <2>1 DEF Coded, Slots
  <2>3. out' = Append(out, OwnItem(Len(out))) /\ out \in Seq(Encoded)
    BY <1>t, <1>1, <2>2 DEF CollectorWrite, TypeOK, CollectorTypes
  <2>4. Len(out') = Len(out) + 1 /\ Len(out) \in Nat
    BY <2>3
  <2>5. ASSUME NEW k \in 1 .. Len(out') PROVE out'[k] = OwnItem(k - 1)
    <3>1. CASE k \in 1 .. Len(out)
      BY <1>t, <2>3, <3>1 DEF InOrder, OwnItem
    <3>2. CASE k = Len(out) + 1
      BY <2>3, <3>2
    <3> QED BY <2>4, <3>1, <3>2
  <2> QED BY <2>5 DEF InOrder, OwnItem
<1>2. CASE ~CollectorWrite
  <2>1. out' = out
    BY <1>2 DEF Next, vars, Reader, Worker, Collector, Terminated, channels, batch, reader, workers, collector,
       ReaderTake, ReaderFill, ReaderFail, ReaderFilled, ReaderSend, ReaderClose, ReaderJoin,
       WorkerReceive, WorkerEncode, WorkerSend, WorkerExit, CloseResults,
       CollectorReceive, CollectorPick, CollectorMiss, CollectorRecycle, CollectorEnd
  <2> QED BY <1>t, <2>1 DEF InOrder
<1> QED BY <1>1, <1>2
-----------------------------------------------------------------------------
(* Where the batches are and what is in them: one lemma for each step that *)
(* moves a batch or writes into one.  Each names the new place of the      *)
(* batch that moved and proves the four parts of IInv for it.              *)

Types == ChannelTypes /\ BatchTypes /\ ReaderTypes /\ WorkerTypes /\ CollectorTypes

Described(p) == Placed(p) /\ Filled(p) /\ Coded(p) /\ Tiled(p)

(* The numbers in the state, with the bounds the arithmetic needs.         *)
LEMMA Numbers ==
  ASSUME Types
  PROVE  /\ NumBlocks \in Nat /\ BatchSize \in Nat /\ BatchSize > 0
         /\ next \in Nat /\ next <= NumBlocks /\ i \in Nat /\ i <= NumBlocks
         /\ cj \in Nat
         /\ \A b \in Batches : /\ firstBlock[b] \in Nat /\ firstBlock[b] <= NumBlocks
                               /\ n[b] \in Nat /\ n[b] <= BatchSize
         /\ \A w \in Workers : wj[w] \in Nat /\ wbatch[w] \in BatchOrNil
         /\ \A s \in Slots : s \in Nat /\ s < BatchSize
         /\ \A s \in Nat : s < BatchSize => s \in Slots
<1> USE PoolAssumption
<1>1. /\ NumBlocks \in Nat /\ BatchSize \in Nat /\ BatchSize > 0
      /\ \A s \in Slots : s \in Nat /\ s < BatchSize
      /\ \A s \in Nat : s < BatchSize => s \in Slots
  BY DEF Slots
<1>2. /\ next \in Nat /\ next <= NumBlocks /\ i \in Nat /\ i <= NumBlocks /\ cj \in Nat
  BY DEF Types, ReaderTypes, CollectorTypes
<1>3. \A b \in Batches : /\ firstBlock[b] \in 0 .. NumBlocks
                         /\ n[b] \in 0 .. BatchSize
  BY DEF Types, BatchTypes
<1>4. \A w \in Workers : wj[w] \in 0 .. BatchSize /\ wbatch[w] \in BatchOrNil
  BY DEF Types, WorkerTypes
<1> QED BY <1>1, <1>2, <1>3, <1>4

(* The reader takes a batch: it becomes the empty last tile.               *)
LEMMA TakeStep ==
  ASSUME Types, Holding, Closing, ReaderTake, NEW p \in [Batches -> Places], Described(p)
  PROVE  \E q \in [Batches -> Places] : Described(q)'
<1>0. PICK b \in Batches : b = Head(free)
  BY DEF ReaderTake, Types, ChannelTypes
<1> DEFINE q == [p EXCEPT ![b] = "reader"]
<1>1. /\ NoDup(free') /\ Elems(free') = Elems(free) \ {b}
      /\ b # NoBatch /\ rbatch = NoBatch /\ rbatch' = b
      /\ p[b] = "free" /\ ~readFailed
  <2>1. /\ b \in Elems(free) /\ free' = Tail(free)
        /\ NoDup(free') /\ Elems(free') = Elems(free) \ {b}
    BY <1>0, ReceiveElems DEF ReaderTake, Types, ChannelTypes, Described, Placed
  <2>2. b # NoBatch
    BY PoolSize DEF NoBatch
  <2> QED BY <1>0, <2>1, <2>2 DEF ReaderTake, Holding, Described, Placed
<1>2. q \in [Batches -> Places] /\ q[b] = "reader" /\ \A a \in Batches : a # b => q[a] = p[a]
  BY DEF Places
<1> HIDE DEF q
<1>3. /\ firstBlock'[b] = i /\ n'[b] = 0
      /\ \A a \in Batches : a # b => firstBlock'[a] = firstBlock[a] /\ n'[a] = n[a]
      /\ UNCHANGED <<jobs, results, inputs, datas, i, readFailed, wbatch, wj,
                     pending, cbatch, cj, next, out, cpc>>
      /\ rpc' = "fill" /\ i < NumBlocks
  BY <1>0 DEF ReaderTake, Types, BatchTypes, workers, collector
<1>4. Placed(q)'
  <2>1. ASSUME NEW a \in Batches
        PROVE  /\ q[a] = "free" <=> a \in Elems(free')
               /\ q[a] = "jobs" <=> a \in Elems(jobs)
               /\ q[a] = "results" <=> a \in Elems(results)
               /\ q[a] = "reader" <=> rbatch' = a
               /\ q[a] = "worker" <=> \E w \in Workers : wbatch[w] = a
               /\ q[a] = "pending" <=> \E x \in 0 .. NumBlocks : pending[x] = a
               /\ q[a] = "collector" <=> cbatch = a
    <3>1. CASE a = b
      BY <1>1, <1>2, <3>1 DEF Described, Placed
    <3>2. CASE a # b
      BY <1>1, <1>2, <3>2, PoolSize DEF Described, Placed, NoBatch
    <3> QED BY <3>1, <3>2
  <2> QED BY <1>1, <1>2, <1>3, <2>1 DEF Described, Placed
<1>5. Filled(q)'
  BY <1>1, <1>2, <1>3, Numbers DEF Described, Filled
<1>6. Coded(q)'
  <2>1. \A w \in Workers : wbatch[w] # NoBatch => wbatch[w] \in Batches /\ wbatch[w] # b
    BY <1>1, Numbers DEF Described, Placed, BatchOrNil
  <2>2. cbatch # NoBatch => cbatch \in Batches /\ cbatch # b
    BY <1>1 DEF Described, Placed, Types, CollectorTypes, BatchOrNil
  <2>3. \A x \in 0 .. NumBlocks : pending[x] # NoBatch => pending[x] \in Batches /\ pending[x] # b
    BY <1>1 DEF Described, Placed, Types, CollectorTypes, BatchOrNil
  <2> QED BY <1>1, <1>2, <1>3, <2>1, <2>2, <2>3 DEF Described, Coded
<1>7. Tiled(q)'
  <2>1. ASSUME NEW a \in Batches, q[a] # "free", a # b
        PROVE  firstBlock[a] + n[a] <= i /\ n[a] > 0
    <3>1. p[a] # "free" /\ p[a] # "reader"
      BY <1>1, <1>2, <2>1, PoolSize DEF Described, Placed, NoBatch
    <3>2. firstBlock[a] + n[a] <= i /\ n[a] # 0
      BY <1>1, <3>1 DEF Described, Filled
    <3> QED BY <3>2, Numbers
  <2>2. \A a, c \in Batches : a # c /\ q[a] # "free" /\ q[c] # "free" =>
          /\ \/ firstBlock'[a] + n'[a] <= firstBlock'[c]
             \/ firstBlock'[c] + n'[c] <= firstBlock'[a]
          /\ n'[a] > 0 \/ n'[c] > 0
    BY <1>1, <1>2, <1>3, <2>1, Numbers DEF Described, Tiled
  <2>3. ASSUME NEW x \in 0 .. NumBlocks, next <= x, x < i
        PROVE  \E a \in Batches : /\ q[a] # "free" /\ firstBlock'[a] <= x
                                  /\ x < firstBlock'[a] + n'[a]
    <3>1. PICK a \in Batches : p[a] # "free" /\ firstBlock[a] <= x /\ x < firstBlock[a] + n[a]
      BY <2>3 DEF Described, Tiled
    <3> QED BY <1>1, <1>2, <1>3, <3>1
  <2> QED BY <1>3, <2>2, <2>3 DEF Described, Tiled
<1> QED BY <1>2, <1>4, <1>5, <1>6, <1>7 DEF Described

(* The reader reads one more block: the last tile grows.                   *)
LEMMA FillStep ==
  ASSUME Types, Holding, ReaderFill, NEW p \in [Batches -> Places], Described(p)
  PROVE  Described(p)'
<1>1. /\ rbatch \in Batches /\ p[rbatch] = "reader" /\ n[rbatch] \in Slots
      /\ i < NumBlocks /\ ~readFailed /\ rpc = "fill"
  <2>1. rbatch \in Batches /\ rpc = "fill" /\ n[rbatch] < BatchSize /\ i < NumBlocks
    BY DEF ReaderFill, Filling, Holding, Types, ReaderTypes, BatchOrNil
  <2> QED BY <2>1, Numbers DEF Described, Placed, Filled
<1>2. PICK r \in Batches : r = rbatch
  BY <1>1
<1>3. /\ n'[r] = n[r] + 1 /\ i' = i + 1 /\ rpc' = "fill"
      /\ \A a \in Batches : a # r => n'[a] = n[a]
      /\ UNCHANGED <<free, jobs, results, firstBlock, datas, rbatch, readFailed,
                     wbatch, wj, cpc, cbatch, cj, pending, next, out>>
  BY <1>1, <1>2 DEF ReaderFill, Types, BatchTypes, channels, workers, collector
<1>4. /\ inputs'[r][n[r]] = i
      /\ \A a \in Batches, s \in Slots :
           a # r \/ s # n[r] => inputs'[a][s] = inputs[a][s]
  <2>1. i \in Int
    BY Numbers
  <2>2. inputs' = [inputs EXCEPT ![r][n[r]] = i]
    BY <1>2 DEF ReaderFill
  <2> QED BY <1>1, <1>2, <2>1, <2>2, SlotUpdate DEF Types, BatchTypes
<1>5. /\ next <= firstBlock[r] /\ firstBlock[r] + n[r] = i
      /\ \A s \in Slots : s < n[r] => inputs[r][s] = firstBlock[r] + s
  BY <1>1, <1>2 DEF Described, Filled
<1>6. ASSUME NEW a \in Batches, p[a] # "free", a # r
      PROVE  firstBlock[a] + n[a] <= firstBlock[r] /\ n[a] > 0 /\ p[a] # "reader"
  <2>1. p[a] # "reader" /\ firstBlock[a] + n[a] <= i /\ n[a] # 0
    BY <1>1, <1>2, <1>6 DEF Described, Placed, Filled
  <2>2. firstBlock[a] + n[a] <= firstBlock[r] \/ firstBlock[r] + n[r] <= firstBlock[a]
    BY <1>1, <1>2, <1>6 DEF Described, Tiled
  <2> QED BY <1>5, <2>1, <2>2, Numbers
<1>7. Placed(p)'
  BY <1>3 DEF Described, Placed
<1>8. Filled(p)'
  <2>1. /\ firstBlock[r] + n'[r] = i'
        /\ \A s \in Slots : s < n'[r] => inputs'[r][s] = firstBlock[r] + s
    <3>1. firstBlock[r] + n'[r] = i'
      BY <1>1, <1>2, <1>3, <1>5, Numbers
    <3>2. ASSUME NEW s \in Slots, s < n'[r] PROVE inputs'[r][s] = firstBlock[r] + s
      <4>1. s < n[r] \/ s = n[r]
        BY <1>1, <1>3, <3>2, Numbers DEF Slots
      <4>2. s < n[r] => s # n[r]
        BY <1>1, Numbers DEF Slots
      <4> QED BY <1>1, <1>4, <1>5, <4>1, <4>2
    <3> QED BY <3>1, <3>2
  <2>2. ASSUME NEW a \in Batches, p[a] # "free", a # r
        PROVE  /\ firstBlock[a] + n'[a] <= i' /\ n'[a] # 0
               /\ \A s \in Slots : s < n'[a] => inputs'[a][s] = firstBlock[a] + s
    BY <1>3, <1>4, <1>6, <2>2, Numbers DEF Described, Filled
  <2> QED BY <1>1, <1>2, <1>3, <1>5, <1>6, <2>1, <2>2, Numbers DEF Described, Filled
<1>9. Coded(p)'
  <2>1. \A w \in Workers : wbatch[w] # NoBatch => wbatch[w] \in Batches /\ wbatch[w] # r
    BY <1>1, <1>2, Numbers DEF Described, Placed, BatchOrNil
  <2>2. cbatch # NoBatch => cbatch \in Batches /\ cbatch # r
    BY <1>1, <1>2 DEF Described, Placed, Types, CollectorTypes, BatchOrNil
  <2> QED BY <1>1, <1>2, <1>3, <2>1, <2>2 DEF Described, Coded
<1>10. Tiled(p)'
  <2>1. \A a, b \in Batches : a # b /\ p[a] # "free" /\ p[b] # "free" =>
          /\ firstBlock[a] + n'[a] <= firstBlock[b] \/ firstBlock[b] + n'[b] <= firstBlock[a]
          /\ n'[a] > 0 \/ n'[b] > 0
    BY <1>3, <1>6, Numbers DEF Described, Tiled
  <2>2. ASSUME NEW x \in 0 .. NumBlocks, next <= x, x < i'
        PROVE  \E b \in Batches : p[b] # "free" /\ firstBlock[b] <= x /\ x < firstBlock[b] + n'[b]
    <3>1. CASE x = i
      BY <1>1, <1>2, <1>3, <1>5, <3>1, Numbers
    <3>2. CASE x < i
      <4>1. PICK b \in Batches : p[b] # "free" /\ firstBlock[b] <= x /\ x < firstBlock[b] + n[b]
        BY <2>2, <3>2 DEF Described, Tiled
      <4>2. n'[b] >= n[b] /\ n'[b] \in Nat
        BY <1>3, Numbers
      <4> QED BY <4>1, <4>2, Numbers
    <3> QED BY <1>3, <2>2, <3>1, <3>2, Numbers
  <2> QED BY <1>3, <2>1, <2>2 DEF Described, Tiled
<1> QED BY <1>7, <1>8, <1>9, <1>10 DEF Described
(* A batch that only changes hands: if q describes its new place and the   *)
(* blocks of no batch changed, what is in the batches in use and how they  *)
(* tile the file stays true, provided no batch was freed.                  *)
LEMMA HandOver ==
  ASSUME Types, NEW p \in [Batches -> Places], Described(p),
         NEW q \in [Batches -> Places], NEW b \in Batches,
         \A a \in Batches : a # b => q[a] = p[a],
         p[b] # "free", q[b] \notin {"free", "reader"},
         p[b] = "reader" /\ n[b] = 0 => readFailed,
         UNCHANGED <<firstBlock, n, inputs, i, readFailed, next>>,
         rpc' = "fill" => rpc = "fill" /\ UNCHANGED rbatch,
         rpc' = "send" => rpc = "send" /\ UNCHANGED rbatch
  PROVE  /\ Filled(q)'
         /\ pending' = pending /\ cpc' = cpc => Tiled(q)'
         /\ (cpc' \in {"receive", "done"} => pending'[next] = NoBatch) => Tiled(q)'
<1>1. \A a \in Batches : q[a] # "free" <=> p[a] # "free"
  OBVIOUS
<1>2. Filled(q)'
  BY <1>1, Numbers DEF Described, Filled
<1>3. (cpc' \in {"receive", "done"} => pending'[next] = NoBatch) => Tiled(q)'
  BY <1>1 DEF Described, Tiled
<1>4. pending' = pending /\ cpc' = cpc => (cpc' \in {"receive", "done"} => pending'[next] = NoBatch)
  BY DEF Described, Tiled
<1> QED BY <1>2, <1>3, <1>4

(* jobs <- batch: the batch moves from the reader to the queue.            *)
LEMMA ReaderSendStep ==
  ASSUME Types, Holding, ReaderSend, NEW p \in [Batches -> Places], Described(p)
  PROVE  \E q \in [Batches -> Places] : Described(q)'
<1>0. rbatch \in Batches
  BY DEF ReaderSend, Holding, Types, ReaderTypes, BatchOrNil
<1>1. PICK b \in Batches : b = rbatch
  BY <1>0
<1> DEFINE q == [p EXCEPT ![b] = "jobs"]
<1>2. /\ p[b] = "reader" /\ (n[b] = 0 => readFailed) /\ b # NoBatch
      /\ rbatch' = NoBatch /\ rpc' = "loop"
      /\ UNCHANGED <<free, results, firstBlock, n, inputs, datas, i, readFailed,
                     wbatch, wj, cpc, cbatch, cj, pending, next, out>>
  BY <1>1, PoolSize DEF ReaderSend, Described, Placed, Filled, NoBatch, batch, workers, collector
<1>3. NoDup(jobs') /\ Elems(jobs') = Elems(jobs) \cup {b}
  <2>1. jobs' = Append(jobs, b) /\ jobs \in Seq(Batches)
    BY <1>1 DEF ReaderSend, Types, ChannelTypes
  <2>2. b \notin Elems(jobs) /\ NoDup(jobs)
    BY <1>2 DEF Described, Placed
  <2> QED BY <2>1, <2>2, SendElems
<1>4. q \in [Batches -> Places] /\ q[b] = "jobs" /\ \A a \in Batches : a # b => q[a] = p[a]
  BY DEF Places
<1> HIDE DEF q
<1>5. Placed(q)'
  <2>1. ASSUME NEW a \in Batches
        PROVE  /\ q[a] = "free" <=> a \in Elems(free)
               /\ q[a] = "jobs" <=> a \in Elems(jobs')
               /\ q[a] = "results" <=> a \in Elems(results)
               /\ q[a] = "reader" <=> rbatch' = a
               /\ q[a] = "worker" <=> \E w \in Workers : wbatch[w] = a
               /\ q[a] = "pending" <=> \E x \in 0 .. NumBlocks : pending[x] = a
               /\ q[a] = "collector" <=> cbatch = a
    <3>1. CASE a = b
      BY <1>1, <1>2, <1>3, <1>4, <3>1 DEF Described, Placed
    <3>2. CASE a # b
      BY <1>1, <1>2, <1>3, <1>4, <3>2, PoolSize DEF Described, Placed, NoBatch
    <3> QED BY <3>1, <3>2
  <2> QED BY <1>2, <1>3, <1>4, <2>1 DEF Described, Placed
<1>6. Filled(q)' /\ Tiled(q)'
  BY <1>2, <1>4, HandOver
<1>7. Coded(q)'
  BY <1>2, <1>4 DEF Described, Coded
<1> QED BY <1>4, <1>5, <1>6, <1>7 DEF Described
(* A worker receives a batch from jobs.                                    *)
LEMMA WorkerReceiveStep ==
  ASSUME Types, Holding, NEW w \in Workers, WorkerReceive(w),
         NEW p \in [Batches -> Places], Described(p)
  PROVE  \E q \in [Batches -> Places] : Described(q)'
<1>0. PICK b \in Batches : b = Head(jobs)
  BY DEF WorkerReceive, Types, ChannelTypes
<1> DEFINE q == [p EXCEPT ![b] = "worker"]
<1>1. /\ p[b] = "jobs" /\ NoDup(jobs') /\ Elems(jobs') = Elems(jobs) \ {b} /\ b # NoBatch
  <2>1. /\ b \in Elems(jobs) /\ jobs' = Tail(jobs)
        /\ NoDup(jobs') /\ Elems(jobs') = Elems(jobs) \ {b}
    BY <1>0, ReceiveElems DEF WorkerReceive, Types, ChannelTypes, Described, Placed
  <2> QED BY <2>1, PoolSize DEF Described, Placed, NoBatch
<1>2. /\ wbatch[w] = NoBatch /\ wbatch'[w] = b /\ wj'[w] = 0
      /\ \A v \in Workers : v # w => wbatch'[v] = wbatch[v] /\ wj'[v] = wj[v]
      /\ UNCHANGED <<free, results, firstBlock, n, inputs, datas, i, readFailed, rpc, rbatch,
                     cpc, cbatch, cj, pending, next, out>>
  BY <1>0 DEF WorkerReceive, Holding, Types, WorkerTypes, batch, reader, collector
<1>3. q \in [Batches -> Places] /\ q[b] = "worker" /\ \A a \in Batches : a # b => q[a] = p[a]
  BY DEF Places
<1> HIDE DEF q
<1>p. Placed(q)'
  <2>1. ASSUME NEW a \in Batches
        PROVE  /\ q[a] = "free" <=> a \in Elems(free)
               /\ q[a] = "jobs" <=> a \in Elems(jobs')
               /\ q[a] = "results" <=> a \in Elems(results)
               /\ q[a] = "reader" <=> rbatch = a
               /\ q[a] = "worker" <=> \E v \in Workers : wbatch'[v] = a
               /\ q[a] = "pending" <=> \E x \in 0 .. NumBlocks : pending[x] = a
               /\ q[a] = "collector" <=> cbatch = a
    <3>1. CASE a = b
      BY <1>1, <1>2, <1>3, <3>1, PoolSize DEF Described, Placed, NoBatch
    <3>2. CASE a # b
      BY <1>1, <1>2, <1>3, <3>2, PoolSize DEF Described, Placed, NoBatch
    <3> QED BY <3>1, <3>2
  <2> QED BY <1>1, <1>2, <1>3, <2>1 DEF Described, Placed
<1>4. Filled(q)' /\ Tiled(q)'
  BY <1>1, <1>2, <1>3, HandOver
<1>5. Coded(q)'
  <2>1. \A a \in Batches : q[a] \in {"results", "pending"} => p[a] \in {"results", "pending"}
    BY <1>3
  <2>2. ASSUME NEW v \in Workers, wbatch'[v] # NoBatch
        PROVE  /\ wj'[v] <= n[wbatch'[v]]
               /\ \A s \in Slots : s < wj'[v] =>
                    datas[wbatch'[v]][s] = OwnItem(firstBlock[wbatch'[v]] + s)
    <3>1. CASE v = w
      BY <1>2, <3>1, Numbers
    <3>2. CASE v # w
      BY <1>2, <2>2, <3>2 DEF Described, Coded
    <3> QED BY <3>1, <3>2
  <2> QED BY <1>2, <2>1, <2>2 DEF Described, Coded
<1> QED BY <1>p, <1>3, <1>4, <1>5 DEF Described

(* A worker encodes the block in its current slot.                         *)
LEMMA WorkerEncodeStep ==
  ASSUME Types, Holding, NEW w \in Workers, WorkerEncode(w),
         NEW p \in [Batches -> Places], Described(p)
  PROVE  Described(p)'
<1>1. wbatch[w] \in Batches /\ wbatch[w] # NoBatch
  BY Numbers, PoolSize DEF WorkerEncode, Holding, BatchOrNil, NoBatch
<1>2. PICK b \in Batches : b = wbatch[w]
  BY <1>1
<1>3. /\ p[b] = "worker" /\ wj[w] < n[b] /\ wj[w] \in Slots
      /\ wj'[w] = wj[w] + 1
      /\ \A v \in Workers : v # w => wj'[v] = wj[v] /\ wbatch[v] # b
      /\ UNCHANGED <<free, jobs, results, firstBlock, n, inputs, i, readFailed, rpc, rbatch,
                     wbatch, cpc, cbatch, cj, pending, next, out>>
  BY <1>1, <1>2, Numbers
  DEF WorkerEncode, Described, Placed, Types, WorkerTypes, channels, reader, collector
<1>4. inputs[b][wj[w]] = firstBlock[b] + wj[w]
  BY <1>3 DEF Described, Filled
<1>5. /\ datas'[b][wj[w]] = OwnItem(firstBlock[b] + wj[w])
      /\ \A a \in Batches, s \in Slots : a # b \/ s # wj[w] => datas'[a][s] = datas[a][s]
  <2>1. datas' = [datas EXCEPT ![b][wj[w]] = OwnItem(firstBlock[b] + wj[w])]
    BY <1>2, <1>4 DEF WorkerEncode, OwnItem
  <2>2. OwnItem(firstBlock[b] + wj[w]) \in Encoded
    BY Numbers DEF OwnItem, Encoded
  <2> QED BY <1>3, <2>1, <2>2, SlotUpdate DEF Types, BatchTypes
<1>6. Placed(p)' /\ Filled(p)' /\ Tiled(p)'
  <2>1. Placed(p)'
    BY <1>3 DEF Described, Placed
  <2>2. Filled(p)' /\ Tiled(p)'
    BY <1>3, HandOver
  <2> QED BY <2>1, <2>2
<1>7. Coded(p)'
  <2>1. \A a \in Batches : p[a] \in {"results", "pending"} => a # b
    BY <1>3
  <2>2. cbatch # NoBatch => cbatch \in Batches /\ cbatch # b
    BY <1>3 DEF Described, Placed, Types, CollectorTypes, BatchOrNil
  <2>3. ASSUME NEW v \in Workers, wbatch[v] # NoBatch
        PROVE  /\ wj'[v] <= n[wbatch[v]]
               /\ \A s \in Slots : s < wj'[v] =>
                    datas'[wbatch[v]][s] = OwnItem(firstBlock[wbatch[v]] + s)
    <3>1. CASE v = w
      <4>1. wj'[w] <= n[b]
        BY <1>3, Numbers
      <4>2. ASSUME NEW s \in Slots, s < wj'[w]
            PROVE  datas'[b][s] = OwnItem(firstBlock[b] + s)
        <5>1. CASE s = wj[w]
          BY <1>5, <5>1
        <5>2. CASE s # wj[w]
          <6>1. s < wj[w]
            BY <1>3, <4>2, <5>2, Numbers
          <6>2. datas[b][s] = OwnItem(firstBlock[b] + s)
            BY <1>1, <1>2, <6>1 DEF Described, Coded
          <6> QED BY <1>5, <5>2, <6>2
        <5> QED BY <5>1, <5>2
      <4> QED BY <1>2, <3>1, <4>1, <4>2
    <3>2. CASE v # w
      <4>1. wbatch[v] \in Batches /\ wbatch[v] # b /\ wj'[v] = wj[v]
        BY <1>3, <2>3, <3>2, Numbers DEF BatchOrNil
      <4>2. /\ wj[v] <= n[wbatch[v]]
            /\ \A s \in Slots : s < wj[v] =>
                 datas[wbatch[v]][s] = OwnItem(firstBlock[wbatch[v]] + s)
        BY <2>3 DEF Described, Coded
      <4> QED BY <1>5, <4>1, <4>2
    <3> QED BY <3>1, <3>2
  <2> QED BY <1>3, <1>5, <2>1, <2>2, <2>3 DEF Described, Coded
<1> QED BY <1>6, <1>7 DEF Described

(* results <- batch: every slot has been encoded.                          *)
LEMMA WorkerSendStep ==
  ASSUME Types, Holding, NEW w \in Workers, WorkerSend(w),
         NEW p \in [Batches -> Places], Described(p)
  PROVE  \E q \in [Batches -> Places] : Described(q)'
<1>0. wbatch[w] \in Batches
  BY Numbers DEF WorkerSend, Holding, BatchOrNil
<1>1. PICK b \in Batches : b = wbatch[w]
  BY <1>0
<1> DEFINE q == [p EXCEPT ![b] = "results"]
<1>2. /\ p[b] = "worker" /\ b # NoBatch /\ wj[w] = n[b]
      /\ wbatch'[w] = NoBatch
      /\ \A v \in Workers : v # w => wbatch'[v] = wbatch[v] /\ wbatch[v] # b
      /\ UNCHANGED <<free, jobs, firstBlock, n, inputs, datas, i, readFailed, rpc, rbatch,
                     wj, cpc, cbatch, cj, pending, next, out>>
  BY <1>1, PoolSize
  DEF WorkerSend, Described, Placed, Types, WorkerTypes, NoBatch, batch, reader, collector
<1>3. NoDup(results') /\ Elems(results') = Elems(results) \cup {b}
  <2>1. results' = Append(results, b) /\ results \in Seq(Batches)
    BY <1>1 DEF WorkerSend, Types, ChannelTypes
  <2>2. b \notin Elems(results) /\ NoDup(results)
    BY <1>2 DEF Described, Placed
  <2> QED BY <2>1, <2>2, SendElems
<1>4. q \in [Batches -> Places] /\ q[b] = "results" /\ \A a \in Batches : a # b => q[a] = p[a]
  BY DEF Places
<1> HIDE DEF q
<1>p. Placed(q)'
  <2>1. ASSUME NEW a \in Batches
        PROVE  /\ q[a] = "free" <=> a \in Elems(free)
               /\ q[a] = "jobs" <=> a \in Elems(jobs)
               /\ q[a] = "results" <=> a \in Elems(results')
               /\ q[a] = "reader" <=> rbatch = a
               /\ q[a] = "worker" <=> \E v \in Workers : wbatch'[v] = a
               /\ q[a] = "pending" <=> \E x \in 0 .. NumBlocks : pending[x] = a
               /\ q[a] = "collector" <=> cbatch = a
    <3>1. CASE a = b
      BY <1>1, <1>2, <1>3, <1>4, <3>1, PoolSize DEF Described, Placed, NoBatch
    <3>2. CASE a # b
      BY <1>1, <1>2, <1>3, <1>4, <3>2, PoolSize DEF Described, Placed, NoBatch
    <3> QED BY <3>1, <3>2
  <2> QED BY <1>1, <1>2, <1>3, <1>4, <2>1 DEF Described, Placed
<1>5. Filled(q)' /\ Tiled(q)'
  BY <1>2, <1>4, HandOver
<1>6. Coded(q)'
  <2>1. \A s \in Slots : s < n[b] => datas[b][s] = OwnItem(firstBlock[b] + s)
    BY <1>1, <1>2 DEF Described, Coded
  <2> QED BY <1>2, <1>4, <2>1 DEF Described, Coded
<1> QED BY <1>p, <1>4, <1>5, <1>6 DEF Described
(* The collector receives a batch: no other batch in use starts at the     *)
(* same block, so nothing in pending is overwritten.                       *)
LEMMA CollectorReceiveStep ==
  ASSUME Types, Holding, CollectorReceive, NEW p \in [Batches -> Places], Described(p)
  PROVE  \E q \in [Batches -> Places] : Described(q)'
<1>0. PICK b \in Batches : b = Head(results)
  BY DEF CollectorReceive, Types, ChannelTypes
<1> DEFINE q == [p EXCEPT ![b] = "pending"]
<1>1. /\ p[b] = "results" /\ b # NoBatch
      /\ NoDup(results') /\ Elems(results') = Elems(results) \ {b}
  <2>1. /\ b \in Elems(results) /\ results' = Tail(results)
        /\ NoDup(results') /\ Elems(results') = Elems(results) \ {b}
    BY <1>0, ReceiveElems DEF CollectorReceive, Types, ChannelTypes, Described, Placed
  <2> QED BY <2>1, PoolSize DEF Described, Placed, NoBatch
<1>2. PICK f \in 0 .. NumBlocks : f = firstBlock[b]
  BY DEF Types, BatchTypes
<1>3. pending[f] = NoBatch
  <2> SUFFICES ASSUME pending[f] # NoBatch PROVE FALSE
    OBVIOUS
  <2>1. PICK c \in Batches : c = pending[f]
    BY DEF Types, CollectorTypes, BatchOrNil
  <2>2. p[c] = "pending" /\ firstBlock[c] = f /\ c # b
    BY <1>1, <2>1 DEF Described, Placed, Coded
  <2>3. /\ firstBlock[b] + n[b] <= i /\ firstBlock[c] + n[c] <= i
        /\ n[b] = 0 => firstBlock[b] = i
        /\ n[c] = 0 => firstBlock[c] = i
    BY <1>1, <2>2 DEF Described, Filled
  <2>4. /\ firstBlock[b] + n[b] <= firstBlock[c] \/ firstBlock[c] + n[c] <= firstBlock[b]
        /\ n[b] > 0 \/ n[c] > 0
    BY <1>1, <2>2 DEF Described, Tiled
  <2> QED BY <1>2, <2>2, <2>3, <2>4, Numbers
<1>4. /\ pending'[f] = b /\ cpc' = "look"
      /\ \A x \in 0 .. NumBlocks : x # f => pending'[x] = pending[x]
      /\ UNCHANGED <<free, jobs, firstBlock, n, inputs, datas, i, readFailed, rpc, rbatch,
                     wbatch, wj, cbatch, cj, next, out>>
  BY <1>0, <1>2 DEF CollectorReceive, Types, CollectorTypes, batch, reader, workers
<1>5. q \in [Batches -> Places] /\ q[b] = "pending" /\ \A a \in Batches : a # b => q[a] = p[a]
  BY DEF Places
<1> HIDE DEF q
<1>p. Placed(q)'
  <2>1. ASSUME NEW a \in Batches
        PROVE  /\ q[a] = "free" <=> a \in Elems(free)
               /\ q[a] = "jobs" <=> a \in Elems(jobs)
               /\ q[a] = "results" <=> a \in Elems(results')
               /\ q[a] = "reader" <=> rbatch = a
               /\ q[a] = "worker" <=> \E v \in Workers : wbatch[v] = a
               /\ q[a] = "pending" <=> \E x \in 0 .. NumBlocks : pending'[x] = a
               /\ q[a] = "collector" <=> cbatch = a
    <3>1. CASE a = b
      BY <1>1, <1>3, <1>4, <1>5, <3>1, PoolSize DEF Described, Placed, NoBatch
    <3>2. CASE a # b
      BY <1>1, <1>3, <1>4, <1>5, <3>2, PoolSize DEF Described, Placed, NoBatch
    <3> QED BY <3>1, <3>2
  <2> QED BY <1>1, <1>3, <1>4, <1>5, <2>1 DEF Described, Placed
<1>6. Filled(q)' /\ Tiled(q)'
  BY <1>1, <1>4, <1>5, HandOver
<1>7. Coded(q)'
  <2>1. \A a \in Batches : q[a] \in {"results", "pending"} => p[a] \in {"results", "pending"}
    BY <1>1, <1>5
  <2>2. \A x \in 0 .. NumBlocks : pending'[x] # NoBatch => firstBlock[pending'[x]] = x
    BY <1>2, <1>4 DEF Described, Coded
  <2> QED BY <1>4, <2>1, <2>2 DEF Described, Coded
<1> QED BY <1>p, <1>5, <1>6, <1>7 DEF Described

(* The collector takes the next batch out of pending.                      *)
LEMMA CollectorPickStep ==
  ASSUME Types, Holding, CollectorPick, NEW p \in [Batches -> Places], Described(p)
  PROVE  \E q \in [Batches -> Places] : Described(q)'
<1>0. next \in 0 .. NumBlocks /\ pending[next] \in Batches
  BY DEF CollectorPick, Types, CollectorTypes, BatchOrNil
<1>1. PICK b \in Batches : b = pending[next]
  BY <1>0
<1> DEFINE q == [p EXCEPT ![b] = "collector"]
<1>2. /\ p[b] = "pending" /\ b # NoBatch /\ firstBlock[b] = next
      /\ \A x \in 0 .. NumBlocks : x # next => pending[x] # b
  BY <1>0, <1>1, PoolSize DEF Described, Placed, Coded, NoBatch
<1>3. /\ pending'[next] = NoBatch /\ cbatch = NoBatch /\ cbatch' = b /\ cj' = 0 /\ cpc' = "write"
      /\ \A x \in 0 .. NumBlocks : x # next => pending'[x] = pending[x]
      /\ UNCHANGED <<free, jobs, results, firstBlock, n, inputs, datas, i, readFailed, rpc, rbatch,
                     wbatch, wj, next, out>>
  BY <1>0, <1>1
  DEF CollectorPick, Holding, Types, CollectorTypes, channels, batch, reader, workers
<1>4. q \in [Batches -> Places] /\ q[b] = "collector" /\ \A a \in Batches : a # b => q[a] = p[a]
  BY DEF Places
<1> HIDE DEF q
<1>p. Placed(q)'
  <2>1. ASSUME NEW a \in Batches
        PROVE  /\ q[a] = "free" <=> a \in Elems(free)
               /\ q[a] = "jobs" <=> a \in Elems(jobs)
               /\ q[a] = "results" <=> a \in Elems(results)
               /\ q[a] = "reader" <=> rbatch = a
               /\ q[a] = "worker" <=> \E v \in Workers : wbatch[v] = a
               /\ q[a] = "pending" <=> \E x \in 0 .. NumBlocks : pending'[x] = a
               /\ q[a] = "collector" <=> cbatch' = a
    <3>1. CASE a = b
      BY <1>0, <1>2, <1>3, <1>4, <3>1, PoolSize DEF Described, Placed, NoBatch
    <3>2. CASE a # b
      BY <1>0, <1>2, <1>3, <1>4, <3>2, PoolSize DEF Described, Placed, NoBatch
    <3> QED BY <3>1, <3>2
  <2> QED BY <1>0, <1>2, <1>3, <1>4, <2>1 DEF Described, Placed
<1>5. Filled(q)' /\ Tiled(q)'
  BY <1>2, <1>3, <1>4, HandOver
<1>6. Coded(q)'
  <2>1. \A s \in Slots : s < n[b] => datas[b][s] = OwnItem(firstBlock[b] + s)
    BY <1>2 DEF Described, Coded
  <2>2. 0 <= n[b] /\ Len(out) = next + 0
    BY <1>3, Numbers DEF Described, Coded
  <2>3. \A a \in Batches : q[a] \in {"results", "pending"} => p[a] \in {"results", "pending"}
    BY <1>4
  <2>4. \A x \in 0 .. NumBlocks : pending'[x] # NoBatch => firstBlock[pending'[x]] = x
    BY <1>3 DEF Described, Coded
  <2> QED BY <1>2, <1>3, <2>1, <2>2, <2>3, <2>4 DEF Described, Coded
<1> QED BY <1>p, <1>4, <1>5, <1>6 DEF Described
(* The collector writes one block of its batch.                            *)
LEMMA CollectorWriteStep ==
  ASSUME Types, Holding, CollectorWrite, NEW p \in [Batches -> Places], Described(p)
  PROVE  Described(p)'
<1>0. cbatch \in Batches /\ cbatch # NoBatch
  BY DEF CollectorWrite, Holding, Types, CollectorTypes, BatchOrNil
<1>1. PICK b \in Batches : b = cbatch
  BY <1>0
<1>2. /\ p[b] = "collector" /\ cj < n[b] /\ cj \in Slots /\ cj' = cj + 1
      /\ UNCHANGED <<free, jobs, results, firstBlock, n, inputs, i, readFailed, rpc, rbatch,
                     wbatch, wj, cpc, cbatch, pending, next>>
  BY <1>0, <1>1, Numbers DEF CollectorWrite, Described, Placed, channels, reader, workers
<1>3. \A a \in Batches, s \in Slots : a # b \/ s # cj => datas'[a][s] = datas[a][s]
  <2>1. NoData \in Encoded
    BY DEF NoData, NoBlock, Encoded
  <2>2. datas' = [datas EXCEPT ![b][cj] = NoData]
    BY <1>1 DEF CollectorWrite
  <2> QED BY <1>2, <2>1, <2>2, SlotUpdate DEF Types, BatchTypes
<1>4. Len(out') = Len(out) + 1
  <2>1. datas[b][cj] \in Encoded
    BY <1>2 DEF Types, BatchTypes
  <2> QED BY <1>1, <2>1 DEF CollectorWrite, Types, CollectorTypes
<1>5. Placed(p)' /\ Filled(p)' /\ Tiled(p)'
  <2>1. Placed(p)'
    BY <1>2 DEF Described, Placed
  <2>2. Filled(p)' /\ Tiled(p)'
    BY <1>2, HandOver
  <2> QED BY <2>1, <2>2
<1>6. Coded(p)'
  <2>1. \A a \in Batches : p[a] \in {"results", "pending"} => a # b
    BY <1>2
  <2>2. \A v \in Workers : wbatch[v] # NoBatch => wbatch[v] \in Batches /\ wbatch[v] # b
    BY <1>2, Numbers DEF Described, Placed, BatchOrNil
  <2>3. /\ firstBlock[b] = next /\ cj' <= n[b] /\ Len(out') = next + cj'
        /\ \A s \in Slots : cj' <= s /\ s < n[b] => datas'[b][s] = OwnItem(firstBlock[b] + s)
    <3>1. /\ firstBlock[b] = next /\ Len(out) = next + cj
          /\ \A s \in Slots : cj <= s /\ s < n[b] => datas[b][s] = OwnItem(firstBlock[b] + s)
      BY <1>0, <1>1 DEF Described, Coded
    <3>2. cj' <= n[b] /\ Len(out') = next + cj'
      BY <1>2, <1>4, <3>1, Numbers
    <3>3. ASSUME NEW s \in Slots, cj' <= s, s < n[b]
          PROVE  datas'[b][s] = OwnItem(firstBlock[b] + s)
      <4>1. cj <= s /\ s # cj
        BY <1>2, <3>3, Numbers
      <4> QED BY <1>3, <3>1, <3>3, <4>1
    <3> QED BY <3>1, <3>2, <3>3
  <2> QED BY <1>0, <1>1, <1>2, <1>3, <2>1, <2>2, <2>3 DEF Described, Coded
<1> QED BY <1>5, <1>6 DEF Described

(* The collector frees its batch: the first tile is gone, and the rest     *)
(* tile what follows it.                                                   *)
LEMMA CollectorRecycleStep ==
  ASSUME Types, Holding, CollectorRecycle, NEW p \in [Batches -> Places], Described(p)
  PROVE  \E q \in [Batches -> Places] : Described(q)'
<1>0. cbatch \in Batches /\ cbatch # NoBatch
  BY DEF CollectorRecycle, Holding, Types, CollectorTypes, BatchOrNil
<1>1. PICK b \in Batches : b = cbatch
  BY <1>0
<1> DEFINE q == [p EXCEPT ![b] = "free"]
<1>2. /\ p[b] = "collector" /\ b # NoBatch /\ firstBlock[b] = next /\ cj = n[b]
      /\ next' = next + n[b] /\ cbatch' = NoBatch /\ cpc' = "look"
      /\ UNCHANGED <<jobs, results, firstBlock, n, inputs, datas, i, readFailed, rpc, rbatch,
                     wbatch, wj, pending, out>>
  BY <1>0, <1>1 DEF CollectorRecycle, Described, Placed, Coded, batch, reader, workers
<1>3. NoDup(free') /\ Elems(free') = Elems(free) \cup {b}
  <2>1. free' = Append(free, b) /\ free \in Seq(Batches)
    BY <1>1 DEF CollectorRecycle, Types, ChannelTypes
  <2>2. b \notin Elems(free) /\ NoDup(free)
    BY <1>2 DEF Described, Placed
  <2> QED BY <2>1, <2>2, SendElems
<1>4. q \in [Batches -> Places] /\ q[b] = "free" /\ \A a \in Batches : a # b => q[a] = p[a]
  BY DEF Places
<1> HIDE DEF q
<1>p. Placed(q)'
  <2>1. ASSUME NEW a \in Batches
        PROVE  /\ q[a] = "free" <=> a \in Elems(free')
               /\ q[a] = "jobs" <=> a \in Elems(jobs)
               /\ q[a] = "results" <=> a \in Elems(results)
               /\ q[a] = "reader" <=> rbatch = a
               /\ q[a] = "worker" <=> \E v \in Workers : wbatch[v] = a
               /\ q[a] = "pending" <=> \E x \in 0 .. NumBlocks : pending[x] = a
               /\ q[a] = "collector" <=> cbatch' = a
    <3>1. CASE a = b
      BY <1>1, <1>2, <1>3, <1>4, <3>1, PoolSize DEF Described, Placed, NoBatch
    <3>2. CASE a # b
      BY <1>1, <1>2, <1>3, <1>4, <3>2, PoolSize DEF Described, Placed, NoBatch
    <3> QED BY <3>1, <3>2
  <2> QED BY <1>1, <1>2, <1>3, <1>4, <2>1 DEF Described, Placed
<1>5. next + n[b] <= i
  BY <1>2 DEF Described, Filled
<1>6. ASSUME NEW a \in Batches, p[a] # "free", a # b
      PROVE  next + n[b] <= firstBlock[a]
  <2>1. /\ firstBlock[a] + n[a] <= next \/ next + n[b] <= firstBlock[a]
        /\ next <= firstBlock[a]
    BY <1>2, <1>6 DEF Described, Tiled, Filled
  <2>2. n[a] = 0 => firstBlock[a] = i
    <3>1. CASE p[a] = "reader"
      BY <1>6, <3>1, Numbers DEF Described, Filled
    <3>2. CASE p[a] # "reader"
      BY <1>6, <3>2 DEF Described, Filled
    <3> QED BY <3>1, <3>2
  <2> QED BY <1>5, <2>1, <2>2, Numbers
<1>7. Filled(q)'
  <2>1. ASSUME NEW a \in Batches, q[a] # "free"
        PROVE  a # b /\ p[a] # "free" /\ q[a] = p[a] /\ next' <= firstBlock[a]
    BY <1>2, <1>4, <1>6, <2>1
  <2> QED BY <1>2, <1>5, <2>1 DEF Described, Filled
<1>8. Coded(q)'
  <2>1. \A a \in Batches : q[a] \in {"results", "pending"} => p[a] \in {"results", "pending"}
    BY <1>4
  <2>2. Len(out) = next'
    BY <1>0, <1>2 DEF Described, Coded
  <2> QED BY <1>2, <2>1, <2>2 DEF Described, Coded
<1>9. Tiled(q)'
  <2>1. ASSUME NEW x \in 0 .. NumBlocks, next' <= x, x < i
        PROVE  \E a \in Batches : q[a] # "free" /\ firstBlock[a] <= x /\ x < firstBlock[a] + n[a]
    <3>1. next <= x
      BY <1>2, <2>1, Numbers
    <3>2. PICK a \in Batches : p[a] # "free" /\ firstBlock[a] <= x /\ x < firstBlock[a] + n[a]
      BY <2>1, <3>1 DEF Described, Tiled
    <3>3. a # b
      BY <1>2, <2>1, <3>2, Numbers
    <3> QED BY <1>4, <3>2, <3>3
  <2>2. \A a \in Batches : q[a] # "free" => p[a] # "free"
    BY <1>4
  <2> QED BY <1>2, <2>1, <2>2 DEF Described, Tiled
<1> QED BY <1>p, <1>4, <1>7, <1>8, <1>9 DEF Described

(* Steps that neither move a batch nor touch one.                          *)
LEMMA OtherStep ==
  ASSUME Types, Holding, NEW p \in [Batches -> Places], Described(p),
         \/ ReaderFail \/ ReaderFilled \/ ReaderClose \/ ReaderJoin
         \/ (\E w \in Workers : WorkerExit(w))
         \/ CloseResults \/ CollectorMiss \/ CollectorEnd \/ UNCHANGED vars
  PROVE  Described(p)'
<1> USE DEF channels, batch, reader, workers, collector
<1>1. UNCHANGED <<free, jobs, results, firstBlock, n, inputs, datas, i, rbatch,
                  wbatch, wj, cbatch, cj, pending, next, out>>
  BY DEF ReaderFail, ReaderFilled, ReaderClose, ReaderJoin, WorkerExit, CloseResults,
     CollectorMiss, CollectorEnd, vars
<1>2. Placed(p)' /\ Coded(p)'
  BY <1>1 DEF Described, Placed, Coded
<1>3. readFailed => readFailed'
  BY DEF ReaderFail, ReaderFilled, ReaderClose, ReaderJoin, WorkerExit, CloseResults,
     CollectorMiss, CollectorEnd, vars
<1>4. /\ rpc' = "fill" => rpc = "fill" /\ readFailed' = readFailed
      /\ rpc' = "send" => rpc = "send" \/ ReaderFail \/ ReaderFilled
  BY DEF ReaderFail, ReaderFilled, ReaderClose, ReaderJoin, WorkerExit, CloseResults,
     CollectorMiss, CollectorEnd, vars
<1>5. ReaderFail => readFailed'
  BY DEF ReaderFail
<1>6. ReaderFilled => n[rbatch] # 0
  <2> SUFFICES ASSUME ReaderFilled, n[rbatch] = 0 PROVE FALSE
    OBVIOUS
  <2>1. i < NumBlocks
    BY DEF ReaderFilled, Described, Filled
  <2> QED BY <2>1, Numbers DEF ReaderFilled, Filling
<1>7. Filled(p)'
  BY <1>1, <1>3, <1>4, <1>5, <1>6 DEF Described, Filled
<1>8. cpc' \in {"receive", "done"} => pending[next] = NoBatch
  BY DEF ReaderFail, ReaderFilled, ReaderClose, ReaderJoin, WorkerExit, CloseResults,
     CollectorMiss, CollectorEnd, vars, Described, Tiled
<1>9. Tiled(p)'
  BY <1>1, <1>8 DEF Described, Tiled
<1> QED BY <1>2, <1>7, <1>9 DEF Described

-----------------------------------------------------------------------------
(* IInv is inductive.                                                      *)
LEMMA IInvStep == IInv /\ [Next]_vars => IInv'
<1> SUFFICES ASSUME IInv, [Next]_vars PROVE IInv'
  OBVIOUS
<1>1. TypeOK' /\ Holding' /\ Closing' /\ Hashed' /\ InOrder'
  BY TypeStep, ControlStep, OrderStep
<1>2. Types /\ Holding /\ Closing
  BY DEF IInv, TypeOK, Types
<1>3. PICK p \in [Batches -> Places] : Described(p)
  BY DEF IInv, Described
<1>4. \E q \in [Batches -> Places] : Described(q)'
  <2>1. CASE ReaderTake
    BY <1>2, <1>3, <2>1, TakeStep
  <2>2. CASE ReaderFill
    BY <1>2, <1>3, <2>2, FillStep
  <2>3. CASE ReaderSend
    BY <1>2, <1>3, <2>3, ReaderSendStep
  <2>4. ASSUME NEW w \in Workers, WorkerReceive(w)
        PROVE  \E q \in [Batches -> Places] : Described(q)'
    BY <1>2, <1>3, <2>4, WorkerReceiveStep
  <2>5. ASSUME NEW w \in Workers, WorkerEncode(w)
        PROVE  \E q \in [Batches -> Places] : Described(q)'
    BY <1>2, <1>3, <2>5, WorkerEncodeStep
  <2>6. ASSUME NEW w \in Workers, WorkerSend(w)
        PROVE  \E q \in [Batches -> Places] : Described(q)'
    BY <1>2, <1>3, <2>6, WorkerSendStep
  <2>7. CASE CollectorReceive
    BY <1>2, <1>3, <2>7, CollectorReceiveStep
  <2>8. CASE CollectorPick
    BY <1>2, <1>3, <2>8, CollectorPickStep
  <2>9. CASE CollectorWrite
    BY <1>2, <1>3, <2>9, CollectorWriteStep
  <2>10. CASE CollectorRecycle
    BY <1>2, <1>3, <2>10, CollectorRecycleStep
  <2>11. CASE \/ ReaderFail \/ ReaderFilled \/ ReaderClose \/ ReaderJoin
              \/ (\E w \in Workers : WorkerExit(w))
              \/ CloseResults \/ CollectorMiss \/ CollectorEnd \/ UNCHANGED vars
    BY <1>2, <1>3, <2>11, OtherStep
  <2> QED BY <2>1, <2>2, <2>3, <2>4, <2>5, <2>6, <2>7, <2>8, <2>9, <2>10, <2>11
          DEF Next, Reader, Worker, Collector, Terminated
<1> QED BY <1>1, <1>4 DEF IInv, Described

(* The inductive invariant holds in every reachable state.                 *)
THEOREM Invariance == Spec => []IInv
BY InitIInv, IInvStep, PTL DEF Spec

(* Every variable keeps its type and the block counters stay in range.     *)
THEOREM TypeCorrect == Spec => []TypeOK
<1>1. IInv => TypeOK
  BY DEF IInv
<1> QED BY <1>1, Invariance, PTL

(* Blocks leave in file order, each with its own bytes and block index,    *)
(* for any number of workers and any interleaving of them.                 *)
THEOREM OrderCorrect == Spec => []InOrder
<1>1. IInv => InOrder
  BY DEF IInv
<1> QED BY <1>1, Invariance, PTL
(* No two goroutines, channels or map entries ever hold the same batch,    *)
(* and none is lost: the buffers need no lock.                             *)
THEOREM OwnershipCorrect == Spec => []SingleOwner
<1>1. IInv => SingleOwner
  <2> SUFFICES ASSUME IInv, NEW b \in Batches
               PROVE  \E h \in Holders(b) : Holders(b) = {h}
    BY DEF SingleOwner
  <2>1. PICK p \in [Batches -> Places] : Placed(p)
    BY DEF IInv
  <2>2. /\ p[b] # "free" => b \notin Elems(free)
        /\ p[b] # "jobs" => b \notin Elems(jobs)
        /\ p[b] # "results" => b \notin Elems(results)
    BY <2>1 DEF Placed
  <2> DEFINE F == { k \in 1 .. Len(free) : free[k] = b }
             J == { k \in 1 .. Len(jobs) : jobs[k] = b }
             R == { k \in 1 .. Len(results) : results[k] = b }
             P == { x \in 0 .. NumBlocks : pending[x] = b }
             W == { w \in Workers : wbatch[w] = b }
             D == IF rbatch = b THEN {<<"reader", 0>>} ELSE {}
             C == IF cbatch = b THEN {<<"collector", 0>>} ELSE {}
  <2>3. Holders(b) = ({"free"} \X F) \cup ({"jobs"} \X J) \cup ({"results"} \X R)
                       \cup ({"pending"} \X P) \cup ({"worker"} \X W) \cup D \cup C
    BY DEF Holders
  <2>4. /\ p[b] # "free" => F = {}
        /\ p[b] # "jobs" => J = {}
        /\ p[b] # "results" => R = {}
        /\ p[b] # "pending" => P = {}
        /\ p[b] # "worker" => W = {}
        /\ p[b] # "reader" => D = {}
        /\ p[b] # "collector" => C = {}
    BY <2>1, <2>2 DEF Placed, Elems
  <2>5. /\ p[b] = "free" => \E k : F = {k}
        /\ p[b] = "jobs" => \E k : J = {k}
        /\ p[b] = "results" => \E k : R = {k}
    <3>1. /\ p[b] = "free" => b \in Elems(free)
          /\ p[b] = "jobs" => b \in Elems(jobs)
          /\ p[b] = "results" => b \in Elems(results)
          /\ NoDup(free) /\ NoDup(jobs) /\ NoDup(results)
      BY <2>1 DEF Placed
    <3>2. \A s : NoDup(s) /\ b \in Elems(s) => \E k : { l \in 1 .. Len(s) : s[l] = b } = {k}
      <4> SUFFICES ASSUME NEW s, NoDup(s), b \in Elems(s)
                   PROVE  \E k : { l \in 1 .. Len(s) : s[l] = b } = {k}
        OBVIOUS
      <4>1. PICK k \in 1 .. Len(s) : s[k] = b
        BY DEF Elems
      <4>2. { l \in 1 .. Len(s) : s[l] = b } = {k}
        BY <4>1 DEF NoDup
      <4> QED BY <4>2
    <3> QED BY <3>1, <3>2
  <2>6. /\ p[b] = "pending" => \E k : P = {k}
        /\ p[b] = "worker" => \E k : W = {k}
    <3>1. b # NoBatch
      BY PoolSize DEF NoBatch
    <3>2. ASSUME p[b] = "pending" PROVE \E k : P = {k}
      <4>1. PICK k \in 0 .. NumBlocks : pending[k] = b
        BY <2>1, <3>2 DEF Placed
      <4>2. P = {k}
        BY <2>1, <3>1, <4>1 DEF Placed
      <4> QED BY <4>2
    <3>3. ASSUME p[b] = "worker" PROVE \E k : W = {k}
      <4>1. PICK k \in Workers : wbatch[k] = b
        BY <2>1, <3>3 DEF Placed
      <4>2. W = {k}
        BY <2>1, <3>1, <4>1 DEF Placed
      <4> QED BY <4>2
    <3> QED BY <3>2, <3>3
  <2>7. /\ p[b] = "reader" => D = {<<"reader", 0>>}
        /\ p[b] = "collector" => C = {<<"collector", 0>>}
    BY <2>1 DEF Placed
  <2>8. p[b] \in Places
    OBVIOUS
  <2> HIDE DEF F, J, R, P, W, D, C
  <2>9. \A t, S : (S = {} => {t} \X S = {}) /\ (\A k : S = {k} => {t} \X S = {<<t, k>>})
    OBVIOUS
  <2>10. \E h : Holders(b) = {h}
    <3>1. CASE p[b] = "free"
      <4>1. PICK k : F = {k}
        BY <2>5, <3>1
      <4>2. Holders(b) = {<<"free", k>>}
        BY <2>3, <2>4, <2>9, <3>1, <4>1
      <4> QED BY <4>2
    <3>2. CASE p[b] = "jobs"
      <4>1. PICK k : J = {k}
        BY <2>5, <3>2
      <4>2. Holders(b) = {<<"jobs", k>>}
        BY <2>3, <2>4, <2>9, <3>2, <4>1
      <4> QED BY <4>2
    <3>3. CASE p[b] = "results"
      <4>1. PICK k : R = {k}
        BY <2>5, <3>3
      <4>2. Holders(b) = {<<"results", k>>}
        BY <2>3, <2>4, <2>9, <3>3, <4>1
      <4> QED BY <4>2
    <3>4. CASE p[b] = "pending"
      <4>1. PICK k : P = {k}
        BY <2>6, <3>4
      <4>2. Holders(b) = {<<"pending", k>>}
        BY <2>3, <2>4, <2>9, <3>4, <4>1
      <4> QED BY <4>2
    <3>5. CASE p[b] = "worker"
      <4>1. PICK k : W = {k}
        BY <2>6, <3>5
      <4>2. Holders(b) = {<<"worker", k>>}
        BY <2>3, <2>4, <2>9, <3>5, <4>1
      <4> QED BY <4>2
    <3>6. CASE p[b] = "reader"
      <4>1. Holders(b) = {<<"reader", 0>>}
        BY <2>3, <2>4, <2>7, <2>9, <3>6
      <4> QED BY <4>1
    <3>7. CASE p[b] = "collector"
      <4>1. Holders(b) = {<<"collector", 0>>}
        BY <2>3, <2>4, <2>7, <2>9, <3>7
      <4> QED BY <4>1
    <3> QED BY <2>8, <3>1, <3>2, <3>3, <3>4, <3>5, <3>6, <3>7 DEF Places
  <2> QED BY <2>10
<1> QED BY <1>1, Invariance, PTL

(* At the end no batch is in use, so nothing is left between what has been *)
(* written and what has been read.                                         *)
LEMMA NothingLeft == IInv => CompleteAtEnd
<1> SUFFICES ASSUME IInv, Done PROVE /\ Len(out) = Len(hashed)
                                     /\ \A k \in 1 .. Len(out) : out[k].block = hashed[k]
                                     /\ readFailed \/ Len(out) = NumBlocks
  BY DEF CompleteAtEnd
<1>1. PICK p \in [Batches -> Places] : Described(p)
  BY DEF IInv, Described
<1>t. Types /\ Holding /\ Closing /\ Hashed /\ InOrder
  BY DEF IInv, TypeOK, Types
<1>2. /\ cpc = "done" /\ results = <<>> /\ jobs = <<>> /\ rbatch = NoBatch /\ cbatch = NoBatch
      /\ \A w \in Workers : wpc[w] = "exited" /\ wbatch[w] = NoBatch
      /\ readFailed \/ i = NumBlocks
  BY <1>t, PoolAssumption DEF Done, Closing, Holding
<1>3. \A b \in Batches : p[b] \in {"free", "pending"}
  BY <1>1, <1>2, EmptyElems, PoolSize DEF Described, Placed, Places, NoBatch
<1>4. next = i
  <2> SUFFICES ASSUME next # i PROVE FALSE
    OBVIOUS
  <2>1. next < i /\ next \in 0 .. NumBlocks
    BY <1>1, <1>t, Numbers DEF Described, Filled
  <2>2. PICK b \in Batches : p[b] # "free" /\ firstBlock[b] <= next
    BY <1>1, <2>1, Numbers, <1>t DEF Described, Tiled
  <2>3. firstBlock[b] = next /\ p[b] = "pending"
    BY <1>1, <1>3, <2>2, <1>t, Numbers DEF Described, Filled
  <2>4. PICK x \in 0 .. NumBlocks : pending[x] = b
    BY <1>1, <2>3 DEF Described, Placed
  <2>5. x = next
    BY <1>1, <2>3, <2>4, PoolSize DEF Described, Coded, NoBatch
  <2>6. pending[next] = NoBatch
    BY <1>1, <1>2 DEF Described, Tiled
  <2> QED BY <2>4, <2>5, <2>6, PoolSize DEF NoBatch
<1>5. Len(out) = i /\ Len(hashed) = i
  BY <1>1, <1>2, <1>4, <1>t, Numbers DEF Described, Coded, Hashed
<1> QED BY <1>2, <1>5, <1>t DEF InOrder, Hashed

(* After the join everything that was read and hashed has been written,    *)
(* and without a read error that is the whole file.                        *)
THEOREM CompletenessCorrect == Spec => []CompleteAtEnd
BY NothingLeft, Invariance, PTL

(* No goroutine ever sends on a closed channel.                            *)
THEOREM ClosingCorrect == Spec => []NoSendOnClosed
<1>1. IInv => NoSendOnClosed
  BY PoolAssumption DEF IInv, Closing, NoSendOnClosed
<1> QED BY <1>1, Invariance, PTL

(* No send on any of the three channels ever waits: the batch about to be  *)
(* sent is not in the queue yet, and there are only as many batches as the *)
(* queue has room for.  So no goroutine can hold up another by a full      *)
(* channel.                                                                *)
THEOREM SendingCorrect == Spec => []SendsNeverBlock
<1>1. IInv => SendsNeverBlock
  <2>. SUFFICES ASSUME IInv PROVE SendsNeverBlock
    OBVIOUS
  <2>1. PICK p \in [Batches -> Places] : Placed(p)
    BY DEF IInv
  <2>2. /\ Holding /\ jobs \in Seq(Batches) /\ results \in Seq(Batches) /\ free \in Seq(Batches)
        /\ rbatch \in BatchOrNil /\ wbatch \in [Workers -> BatchOrNil] /\ cbatch \in BatchOrNil
    BY DEF IInv, TypeOK, ChannelTypes, ReaderTypes, WorkerTypes, CollectorTypes
  <2>3. ASSUME rpc = "send" PROVE Len(jobs) < InFlight
    <3>1. rbatch \in Batches
      BY <2>2, <2>3 DEF Holding, BatchOrNil
    <3>2. p[rbatch] = "reader"
      BY <2>1, <3>1 DEF Placed
    <3>3. rbatch \notin Elems(jobs)
      BY <2>1, <3>1, <3>2 DEF Placed
    <3>. QED  BY <2>1, <2>2, <3>1, <3>3, RoomLeft, BatchCount DEF Placed
  <2>4. ASSUME NEW w \in Workers, wpc[w] = "encode" PROVE Len(results) < InFlight
    <3>1. wbatch[w] \in Batches
      BY <2>2, <2>4 DEF Holding, BatchOrNil
    <3>2. p[wbatch[w]] = "worker"
      BY <2>1, <3>1 DEF Placed
    <3>3. wbatch[w] \notin Elems(results)
      BY <2>1, <3>1, <3>2 DEF Placed
    <3>. QED  BY <2>1, <2>2, <3>1, <3>3, RoomLeft, BatchCount DEF Placed
  <2>5. ASSUME cpc = "write" PROVE Len(free) < InFlight
    <3>1. cbatch \in Batches
      BY <2>2, <2>5 DEF Holding, BatchOrNil
    <3>2. p[cbatch] = "collector"
      BY <2>1, <3>1 DEF Placed
    <3>3. cbatch \notin Elems(free)
      BY <2>1, <3>1, <3>2 DEF Placed
    <3>. QED  BY <2>1, <2>2, <3>1, <3>3, RoomLeft, BatchCount DEF Placed
  <2>. QED  BY <2>3, <2>4, <2>5 DEF SendsNeverBlock
<1>. QED  BY <1>1, Invariance, PTL

-----------------------------------------------------------------------------
(***************************************************************************)
(* CompressPool implements OrderedPipe, as far as safety goes: each of its *)
(* steps is a step of the pipe or leaves the pipe as it is, for every      *)
(* number of workers and blocks and every batch size.                      *)
(***************************************************************************)

(* The ordered pipe without its fairness: what CompressPool does to        *)
(* accepted, failed, out and ended is what the pipe allows.                *)
PipeSafety == Pipe!Init /\ [][Pipe!Next]_(Pipe!vars)

(* While the reader has a slot to fill, there are fewer blocks between     *)
(* next and i than slots: each of those blocks has a slot of its own in a  *)
(* batch in use, and none has the one about to be filled.                  *)
LEMMA SlotLeft ==
  ASSUME Types, Holding, NEW p \in [Batches -> Places], Described(p), Filling
  PROVE  i - next < InFlight * BatchSize
<1>. DEFINE blocks == next .. i - 1
            Home(x) == CHOOSE b \in Batches :
                         p[b] # "free" /\ firstBlock[b] <= x /\ x < firstBlock[b] + n[b]
            slot == [x \in blocks |-> <<Home(x), x - firstBlock[Home(x)]>>]
            filling == <<rbatch, n[rbatch]>>
            others == (Batches \X Slots) \ {filling}
<1>1. /\ next \in Nat /\ i \in Nat /\ next <= i /\ i <= NumBlocks /\ NumBlocks \in Nat
      /\ BatchSize \in Nat /\ InFlight \in Nat
  BY Numbers, PoolSize DEF Described, Filled
<1>2. /\ rbatch \in Batches /\ n[rbatch] \in Slots
  BY Numbers DEF Filling, Holding, Types, ReaderTypes, BatchOrNil
<1>3. \A x \in blocks : /\ Home(x) \in Batches
                        /\ firstBlock[Home(x)] <= x /\ x < firstBlock[Home(x)] + n[Home(x)]
  <2>. SUFFICES ASSUME NEW x \in blocks
                PROVE  \E b \in Batches : p[b] # "free" /\ firstBlock[b] <= x /\ x < firstBlock[b] + n[b]
    OBVIOUS
  <2>1. x \in 0 .. NumBlocks /\ next <= x /\ x < i
    BY <1>1
  <2>. QED  BY <2>1 DEF Described, Tiled
<1>4. \A x \in blocks : /\ Home(x) \in Batches /\ x - firstBlock[Home(x)] \in Slots
                        /\ x - firstBlock[Home(x)] # n[Home(x)]
  <2>. SUFFICES ASSUME NEW x \in blocks
                PROVE  /\ Home(x) \in Batches /\ x - firstBlock[Home(x)] \in Slots
                       /\ x - firstBlock[Home(x)] # n[Home(x)]
    OBVIOUS
  <2>1. /\ Home(x) \in Batches
        /\ firstBlock[Home(x)] <= x /\ x < firstBlock[Home(x)] + n[Home(x)]
    BY <1>3
  <2>2. x \in Nat
    BY <1>1
  <2>. HIDE DEF Home
  <2>. QED  BY <2>1, <2>2, Numbers
<1>5. slot \in [blocks -> others]
  <2>. HIDE DEF Home
  <2>. QED  BY <1>4
<1>6. \A x, y \in blocks : slot[x] = slot[y] => x = y
  <2>. SUFFICES ASSUME NEW x \in blocks, NEW y \in blocks, slot[x] = slot[y]
                PROVE  x = y
    OBVIOUS
  <2>. DEFINE bx == Home(x)  by == Home(y)
  <2>1. bx = by /\ x - firstBlock[bx] = y - firstBlock[by]
    <3>. HIDE DEF Home
    <3>. QED  OBVIOUS
  <2>2. bx \in Batches /\ x \in Nat /\ y \in Nat
    BY <1>1, <1>3
  <2>3. firstBlock[bx] \in Nat
    <3>. HIDE DEF bx
    <3>. QED  BY <2>2, Numbers
  <2>. HIDE DEF bx, by
  <2>. QED  BY <2>1, <2>2, <2>3
<1>7. IsFiniteSet(blocks) /\ Cardinality(blocks) = i - next
  <2>1. Cardinality(blocks) = IF next > i - 1 THEN 0 ELSE i - 1 - next + 1
    BY <1>1, FS_Interval
  <2>2. IsFiniteSet(blocks)
    BY <1>1, FS_Interval
  <2>. QED  BY <1>1, <2>1, <2>2
<1>8. IsFiniteSet(others) /\ Cardinality(others) = InFlight * BatchSize - 1
  <2>1. IsFiniteSet(Batches) /\ Cardinality(Batches) = InFlight
    BY BatchCount
  <2>2. IsFiniteSet(Slots) /\ Cardinality(Slots) = BatchSize
    BY FS_Interval, PoolAssumption DEF Slots
  <2>3. IsFiniteSet(Batches \X Slots) /\ Cardinality(Batches \X Slots) = InFlight * BatchSize
    BY <2>1, <2>2, FS_Product
  <2>4. filling \in Batches \X Slots
    BY <1>2
  <2>. HIDE DEF filling
  <2>. QED  BY <2>3, <2>4, FS_RemoveElement
<1>9. ~(Cardinality(others) < Cardinality(blocks))
  <2>. HIDE DEF slot, others, blocks
  <2>. QED  BY <1>5, <1>6, <1>7, <1>8, FS_PigeonHole
<1>10. InFlight * BatchSize \in Nat
  BY <1>1
<1>. HIDE DEF blocks, others
<1>. QED  BY <1>1, <1>7, <1>8, <1>9, <1>10

-----------------------------------------------------------------------------
(* A step of the pool is a step of the pipe, or invisible in it.           *)

(* Reading a block is accepting it: SlotLeft is the pipe's capacity.       *)
LEMMA FillAccepts == IInv /\ ReaderFill => Pipe!Accept
<1>. SUFFICES ASSUME IInv, ReaderFill PROVE Pipe!Accept
  OBVIOUS
<1>1. PICK p \in [Batches -> Places] : Described(p)
  BY DEF IInv, Described
<1>2. Types /\ Holding
  BY DEF IInv, TypeOK, Types
<1>3. Filling /\ ~readFailed /\ i < NumBlocks
  BY <1>1 DEF ReaderFill, Filling, Described, Filled
<1>4. i - next < InFlight * BatchSize
  BY <1>1, <1>2, <1>3, SlotLeft
<1>5. Len(out) \in Nat /\ next <= Len(out)
  BY <1>1, <1>2, Numbers DEF Described, Coded
<1>6. i - Len(out) < InFlight * BatchSize
  <2>1. InFlight * BatchSize \in Int
    BY <1>2, PoolSize, Numbers
  <2>. DEFINE capacity == InFlight * BatchSize
  <2>2. capacity \in Int /\ i - next < capacity
    BY <1>4, <2>1
  <2>. HIDE DEF capacity
  <2>3. i - Len(out) < capacity
    BY <1>2, <1>5, <2>2, Numbers
  <2>. QED  BY <2>3 DEF capacity
<1>7. i' = i + 1 /\ UNCHANGED <<readFailed, out, Done>>
  BY DEF ReaderFill, collector, Done
<1>. QED  BY <1>3, <1>6, <1>7 DEF Pipe!Accept

(* Writing a block is emitting it: the next one in order, and accepted.    *)
LEMMA WriteEmits == IInv /\ CollectorWrite => Pipe!Emit
<1>. SUFFICES ASSUME IInv, CollectorWrite PROVE Pipe!Emit
  OBVIOUS
<1>1. PICK p \in [Batches -> Places] : Described(p)
  BY DEF IInv, Described
<1>2. Types /\ Holding
  BY DEF IInv, TypeOK, Types
<1>3. cbatch \in Batches /\ cbatch # NoBatch /\ cj < n[cbatch]
  BY <1>2 DEF CollectorWrite, Holding, Types, CollectorTypes, BatchOrNil
<1>4. cj \in Slots
  BY <1>2, <1>3, Numbers
<1>5. Len(out) = next + cj /\ datas[cbatch][cj] = OwnItem(next + cj) /\ firstBlock[cbatch] = next
  BY <1>1, <1>2, <1>3, <1>4, Numbers DEF Described, Coded
<1>6. p[cbatch] = "collector"
  BY <1>1, <1>3 DEF Described, Placed
<1>7. firstBlock[cbatch] + n[cbatch] <= i
  BY <1>1, <1>3, <1>6 DEF Described, Filled
<1>8. Len(out) < i
  BY <1>2, <1>3, <1>5, <1>7, Numbers
<1>9. out' = Append(out, OwnItem(Len(out))) /\ UNCHANGED <<i, readFailed, Done>>
  BY <1>5 DEF CollectorWrite, reader, Done
<1>. QED  BY <1>8, <1>9 DEF Pipe!Emit

(* The join ends the pipe: NothingLeft in the state after it.              *)
LEMMA JoinEnds == IInv /\ ReaderJoin => Pipe!End
<1>. SUFFICES ASSUME IInv, ReaderJoin PROVE Pipe!End
  OBVIOUS
<1>1. [Next]_vars
  BY DEF Next, Reader
<1>2. CompleteAtEnd' /\ Hashed'
  <2>1. IInv'
    BY <1>1, IInvStep
  <2>2. CompleteAtEnd'
    BY <2>1, NothingLeft, PTL
  <2>. QED  BY <2>1, <2>2 DEF IInv
<1>3. Done' /\ ~Done
  BY DEF ReaderJoin, Done
<1>4. UNCHANGED <<i, readFailed, out, hashed>>
  BY DEF ReaderJoin, collector
<1>5. Len(out) = i
  BY <1>2, <1>3, <1>4 DEF CompleteAtEnd, Hashed
<1>6. readFailed \/ i = NumBlocks
  BY DEF IInv, Closing, ReaderJoin
<1>. QED  BY <1>3, <1>4, <1>5, <1>6 DEF Pipe!End

(* Every step of the pool is a step of the pipe or leaves it as it is.     *)
LEMMA PipeStep == IInv /\ [Next]_vars => [Pipe!Next]_(Pipe!vars)
<1>. SUFFICES ASSUME IInv, [Next]_vars PROVE [Pipe!Next]_(Pipe!vars)
  OBVIOUS
<1>1. CASE ReaderFill
  BY <1>1, FillAccepts DEF Pipe!Next
<1>2. CASE ReaderFail
  <2>1. ~readFailed /\ i < NumBlocks
    BY <1>2 DEF ReaderFail, Filling, IInv, Filled
  <2>2. readFailed' = TRUE /\ UNCHANGED <<i, out, Done>>
    BY <1>2 DEF ReaderFail, Filling, collector, Done
  <2>. QED  BY <2>1, <2>2 DEF Pipe!Next, Pipe!Fail
<1>3. CASE CollectorWrite
  BY <1>3, WriteEmits DEF Pipe!Next
<1>4. CASE ReaderJoin
  BY <1>4, JoinEnds DEF Pipe!Next
<1>5. CASE ~(ReaderFill \/ ReaderFail \/ CollectorWrite \/ ReaderJoin)
  <2>1. UNCHANGED <<i, readFailed, out, Done>>
    BY <1>5 DEF Next, vars, Reader, Worker, Collector, Terminated,
       channels, batch, reader, workers, collector, Done,
       ReaderTake, ReaderFilled, ReaderSend, ReaderClose,
       WorkerReceive, WorkerEncode, WorkerSend, WorkerExit, CloseResults,
       CollectorReceive, CollectorPick, CollectorMiss, CollectorRecycle, CollectorEnd
  <2>. QED  BY <2>1 DEF Pipe!vars
<1>. QED  BY <1>1, <1>2, <1>3, <1>4, <1>5

(* The compress pool implements the ordered pipe: blocks are accepted in   *)
(* order with at most InFlight * BatchSize in flight, each leaves once, in *)
(* order and as the right item, and the join comes after the last.         *)
THEOREM RefinesPipe == Spec => PipeSafety
<1>1. Init => Pipe!Init
  BY DEF Init, Done, Pipe!Init
<1>2. IInv /\ [Next]_vars => [Pipe!Next]_(Pipe!vars)
  BY PipeStep
<1>. QED  BY <1>1, <1>2, Invariance, PTL DEF Spec, PipeSafety
=============================================================================
