-------------------------- MODULE ScratchPoolProofs --------------------------
(***************************************************************************)
(* No two calls of process ever hold the same scratch, what a writer holds *)
(* is what its call has written, and what a call returned stays that, for  *)
(* every number of callers, calls and scratches and every width of bytes   *)
(* and words.                                                              *)
(***************************************************************************)
EXTENDS ScratchPool, CombinadicProofs

-----------------------------------------------------------------------------
(* The invariant.                                                          *)

(* Who holds what: a scratch is in the pool or in the hands of a call that *)
(* has begun, and has been made.  Without the first conjuncts Put could    *)
(* give back a scratch that another call holds.                            *)
Holding ==
  /\ pool \subseteq alive /\ alive \subseteq Scratches
  /\ pc \in [Callers -> {"idle", "write", "copy", "put"}]
  /\ scratch \in [Callers -> alive \cup {Unused}]
  /\ \A c \in Callers : pc[c] # "idle" => scratch[c] # Unused

(* Every writer is sound, a scratch's too that nobody holds, and the array *)
(* under its buffer begins with what is in the buffer: otherwise the copy  *)
(* could return the bytes of an earlier call.                              *)
Begins(bytes, buf) == Len(buf) <= Len(bytes) /\ SubSeq(bytes, 1, Len(buf)) = buf

Buffers ==
  /\ writer \in [Scratches -> Writers] /\ array \in [Scratches -> Seq(Bytes)]
  /\ \A s \in Scratches : Sound(writer[s]) /\ Begins(array[s], writer[s].buf)

(* What each call has written, and what it returned, which is its own.     *)
Padded(bytes, bits) ==
  LET fill == ByteBits * Len(bytes) - Len(bits) IN
  /\ fill \in 0 .. ByteBits - 1
  /\ Unpacked(bytes) = Joined(bits, BitsOf(0, fill))

Written ==
  /\ calls \in [Callers -> 0 .. MaxCalls] /\ fed \in [Callers -> Seq(Bit)] /\ src \in [Callers -> Nat]
  /\ \A c \in Callers :
       /\ pc[c] = "write" => Held(writer[scratch[c]]) = fed[c]
       /\ pc[c] = "copy" => /\ src[c] = Len(writer[scratch[c]].buf)
                            /\ Padded(writer[scratch[c]].buf, fed[c])

Returned ==
  /\ result \in [Callers -> [of : {Unused}, data : Seq(Bytes), bits : Seq(Bit)]]
  /\ \A c \in Callers : Padded(result[c].data, result[c].bits)

Ownership == Holding /\ NotShared
Contents == Buffers /\ Written /\ Returned

IInv == Ownership /\ Contents

-----------------------------------------------------------------------------
(* Arrays and buffers.                                                     *)

(* A buffer written over the beginning of its array.                       *)
LEMMA OverwrittenLaw ==
  ASSUME NEW old \in Seq(Bytes), NEW buf \in Seq(Bytes)
  PROVE  Overwritten(old, buf) \in Seq(Bytes) /\ Begins(Overwritten(old, buf), buf)
<1> DEFINE rest == SubSeq(old, Len(buf) + 1, Len(old))
<1>1. Len(buf) \in Nat /\ Len(old) \in Nat
  OBVIOUS
<1>2. rest \in Seq(Bytes)
  <2>1. \A i \in Len(buf) + 1 .. Len(old) : i \in 1 .. Len(old)
    BY <1>1
  <2> QED BY <1>1, <2>1, SubSeqProperties
<1> HIDE DEF rest
<1>3. /\ buf \o rest \in Seq(Bytes) /\ Len(buf \o rest) = Len(buf) + Len(rest) /\ Len(rest) \in Nat
      /\ \A i \in 1 .. Len(buf) : (buf \o rest)[i] = buf[i]
  BY <1>1, <1>2, ConcatProperties
<1> DEFINE all == buf \o rest
<1> HIDE DEF all
<1>4. all \in Seq(Bytes) /\ Len(buf) <= Len(all) /\ \A i \in 1 .. Len(buf) : all[i] = buf[i]
  BY <1>1, <1>3 DEF all
<1>5. SubSeq(all, 1, Len(buf)) = buf
  <2>1. /\ SubSeq(all, 1, Len(buf)) \in Seq(Bytes) /\ Len(SubSeq(all, 1, Len(buf))) = Len(buf)
        /\ \A i \in 1 .. Len(buf) : SubSeq(all, 1, Len(buf))[i] = all[i]
    BY <1>1, <1>4
  <2> QED BY <1>1, <1>4, <2>1, SeqEqual
<1>6. Overwritten(old, buf) = all
  BY DEF Overwritten, rest, all
<1> QED BY <1>4, <1>5, <1>6 DEF Begins

(* A new writer is sound and holds nothing.                                *)
LEMMA EmptyWriterLaw == Sound(EmptyWriter) /\ Held(EmptyWriter) = <<>> /\ EmptyWriter.buf = <<>>
<1>1. 2^0 = 1 /\ ByteBits \in Nat \ {0}
  BY ByteTypes
<1>2. EmptyWriter = [buf |-> <<>>, acc |-> 0, nAcc |-> 0]
  BY DEF EmptyWriter
<1>3. EmptyWriter \in Writers
  <2>1. <<>> \in Seq(Bytes) /\ 0 \in 0 .. ByteBits - 1
    BY <1>1
  <2> QED BY <1>2, <2>1 DEF Writers
<1>4. Unpacked(<<>>) = <<>>
  <2>1. <<>> \in Seq(Nat) /\ Len(<<>>) = 0 /\ ByteBits * 0 = 0
    BY <1>1
  <2>2. Unpacked(<<>>) \in Seq(Bit) /\ Len(Unpacked(<<>>)) = 0
    BY <2>1, UnpackedTypes
  <2> QED BY <2>2, EmptySeq
<1>5. Held(EmptyWriter) = Joined(Unpacked(<<>>), BitsOf(0, 0))
  BY <1>2 DEF Held
<1>6. BitsOf(0, 0) = <<>>
  BY NoBits
<1>7. Joined(<<>>, <<>>) = <<>>
  BY JoinedLaw
<1> QED BY <1>1, <1>2, <1>3, <1>4, <1>5, <1>6, <1>7 DEF Sound

(* The bits of zero are zeros.                                             *)
LEMMA ZeroBitsAre == \A n \in Nat : BitsOf(0, n) = [b \in 1 .. n |-> 0]
<1>1. ASSUME NEW n \in Nat, NEW b \in 1 .. n PROVE (0 \div 2^(n - b)) % 2 = 0
  <2>1. 2^(n - b) \in Nat \ {0}
    <3>1. n - b \in Nat
      OBVIOUS
    <3>. QED  BY <3>1, PowerPositive
  <2>2. \A d \in Nat \ {0} : (0 \div d) % 2 = 0
    OBVIOUS
  <2>. QED  BY <2>1, <2>2
<1>. QED  BY <1>1 DEF BitsOf

(* Nothing is packed into no bytes.                                        *)
LEMMA PaddedNothing == Padded(<<>>, <<>>)
<1>1. Unpacked(<<>>) = Joined(<<>>, BitsOf(0, 0))
  <2>1. EmptyWriter.acc = 0 /\ EmptyWriter.nAcc = 0
    BY DEF EmptyWriter
  <2>2. Joined(Unpacked(<<>>), BitsOf(0, 0)) = <<>>
    BY <2>1, EmptyWriterLaw DEF Held
  <2>3. BitsOf(0, 0) = <<>>
    BY NoBits
  <2>4. Unpacked(<<>>) \in Seq(Bit)
    <3>1. <<>> \in Seq(Nat)
      OBVIOUS
    <3> QED BY <3>1, UnpackedTypes
  <2>5. Unpacked(<<>>) = <<>>
    BY <2>2, <2>3, <2>4, JoinedLaw
  <2> QED BY <2>3, <2>5, JoinedLaw
<1>2. ByteBits * Len(<<>>) - Len(<<>>) = 0 /\ ByteBits \in Nat \ {0}
  BY ByteTypes
<1> QED BY <1>1, <1>2 DEF Padded

-----------------------------------------------------------------------------
(* The invariant holds in the beginning and every step keeps it.           *)

(* Nobody holds a scratch in the beginning.                                *)
LEMMA OwnershipInitially == Init => Ownership
BY CallerAssumption DEF Init, Ownership, Holding, NotShared

(* Get hands out a scratch that is in the pool or was not made before.     *)
LEMMA GetOwns ==
  ASSUME Ownership, NEW c \in Callers, Get(c)
  PROVE  Ownership'
<1>1. PICK s \in pool \cup (IF alive = Scratches THEN {} ELSE {CHOOSE t \in Scratches : t \notin alive}) :
        /\ pool' = pool \ {s} /\ alive' = alive \cup {s}
        /\ scratch' = [scratch EXCEPT ![c] = s]
  BY DEF Get
<1>2. s \in Scratches /\ (s \in pool \/ s \notin alive)
  <2>1. CASE s \in pool
    BY <2>1 DEF Ownership, Holding
  <2>2. CASE s \notin pool
    <3>1. alive # Scratches /\ s = CHOOSE t \in Scratches : t \notin alive
      BY <1>1, <2>2
    <3>2. \E t \in Scratches : t \notin alive
      BY <3>1 DEF Ownership, Holding
    <3>. QED  BY <3>1, <3>2
  <2>. QED  BY <2>1, <2>2
<1>3. s # Unused
  BY <1>2, CallerAssumption
<1>4. \A d \in Callers : scratch[d] # s
  BY <1>2, <1>3 DEF Ownership, Holding, NotShared
<1>5. pc' = [pc EXCEPT ![c] = "write"]
  BY DEF Get
<1>6. Holding'
  BY <1>1, <1>2, <1>3, <1>5 DEF Ownership, Holding
<1>7. NotShared'
  <2>. SUFFICES ASSUME NEW d \in Callers, scratch'[d] # Unused
                PROVE  /\ scratch'[d] \notin pool'
                       /\ \A e \in Callers \ {d} : scratch'[e] # scratch'[d]
    BY DEF NotShared
  <2>1. CASE d = c
    BY <1>1, <1>4, <2>1 DEF Ownership, Holding
  <2>2. CASE d # c
    BY <1>1, <1>4, <2>2 DEF Ownership, Holding, NotShared
  <2>. QED  BY <2>1, <2>2
<1>. QED  BY <1>6, <1>7 DEF Ownership

(* Put gives back the scratch the caller held, which is nobody else's.     *)
LEMMA PutOwns ==
  ASSUME Ownership, NEW c \in Callers, Put(c)
  PROVE  Ownership'
<1>1. scratch[c] # Unused /\ scratch[c] \in alive
  BY DEF Ownership, Holding, Put
<1>2. Holding'
  BY <1>1 DEF Ownership, Holding, Put
<1>3. NotShared'
  <2>. SUFFICES ASSUME NEW d \in Callers, scratch'[d] # Unused
                PROVE  /\ scratch'[d] \notin pool'
                       /\ \A e \in Callers \ {d} : scratch'[e] # scratch'[d]
    BY DEF NotShared
  <2>1. d # c /\ scratch'[d] = scratch[d] /\ scratch'[c] = Unused
    BY DEF Ownership, Holding, Put
  <2>2. scratch[d] # scratch[c]
    BY <1>1, <2>1 DEF Ownership, NotShared
  <2>. QED  BY <2>1, <2>2 DEF Ownership, Holding, NotShared, Put
<1>. QED  BY <1>2, <1>3 DEF Ownership

(* The other steps of a call move neither a scratch nor the pool.          *)
LEMMA WorkOwns ==
  ASSUME Ownership, NEW c \in Callers, WriteUint(c) \/ WriteRank(c) \/ TakeBytes(c) \/ CopyOut(c)
  PROVE  Ownership'
<1>1. UNCHANGED <<pool, alive, scratch>>
  BY DEF WriteUint, WriteRank, TakeBytes, CopyOut, Wrote
<1>2. /\ pc' \in [Callers -> {"idle", "write", "copy", "put"}]
      /\ \A d \in Callers : pc'[d] # "idle" => pc[d] # "idle"
  BY DEF Ownership, Holding, WriteUint, WriteRank, TakeBytes, CopyOut, Wrote
<1>. QED  BY <1>1, <1>2 DEF Ownership, Holding, NotShared

(* The garbage collector drops only scratches in the pool.                 *)
LEMMA DropOwns ==
  ASSUME Ownership, Drop
  PROVE  Ownership'
<1>1. \A c \in Callers : scratch[c] # Unused => scratch[c] \in alive \ pool
  BY DEF Ownership, Holding, NotShared
<1>. QED  BY <1>1 DEF Ownership, Holding, NotShared, Drop

(* The contents are those of calls that wrote nothing yet.                 *)
LEMMA ContentsInitially == Init => Contents
<1>. SUFFICES ASSUME Init PROVE Contents
  OBVIOUS
<1>1. Buffers
  <2>1. EmptyWriter \in Writers /\ Sound(EmptyWriter) /\ EmptyWriter.buf = <<>>
    BY EmptyWriterLaw DEF Sound
  <2>2. <<>> \in Seq(Bytes) /\ Begins(<<>>, <<>>)
    BY DEF Begins
  <2>3. \A s \in Scratches : writer[s] = EmptyWriter /\ array[s] = <<>>
    BY DEF Init
  <2>4. writer \in [Scratches -> Writers] /\ array \in [Scratches -> Seq(Bytes)]
    BY <2>1, <2>2 DEF Init
  <2>. QED  BY <2>1, <2>2, <2>3, <2>4 DEF Buffers
<1>2. Written
  BY CallerAssumption DEF Init, Written
<1>3. Returned
  <2>1. \A c \in Callers : result[c] = [of |-> Unused, data |-> <<>>, bits |-> <<>>]
    BY DEF Init
  <2>2. result \in [Callers -> [of : {Unused}, data : Seq(Bytes), bits : Seq(Bit)]]
    BY DEF Init
  <2>. QED  BY <2>1, <2>2, PaddedNothing DEF Returned
<1>. QED  BY <1>1, <1>2, <1>3 DEF Contents

(* The scratch of a call that is under way, which no other call touches.   *)
LEMMA OwnScratch ==
  ASSUME Ownership, NEW c \in Callers, pc[c] # "idle"
  PROVE  /\ scratch[c] \in Scratches
         /\ \A d \in Callers \ {c} : scratch[d] # scratch[c]
BY CallerAssumption DEF Ownership, Holding, NotShared

(* Writing the buffer of a scratch over its array.                         *)
LEMMA BuffersKept ==
  ASSUME Buffers, NEW s \in Scratches, NEW w, Sound(w),
         writer' = [writer EXCEPT ![s] = w],
         array' = [array EXCEPT ![s] = Overwritten(@, w.buf)]
  PROVE  Buffers'
<1>1. w \in Writers /\ w.buf \in Seq(Bytes) /\ array[s] \in Seq(Bytes)
  BY DEF Sound, Writers, Buffers
<1>2. Overwritten(array[s], w.buf) \in Seq(Bytes) /\ Begins(Overwritten(array[s], w.buf), w.buf)
  BY <1>1, OverwrittenLaw
<1>3. writer' \in [Scratches -> Writers] /\ array' \in [Scratches -> Seq(Bytes)]
  BY <1>1, <1>2 DEF Buffers
<1>4. ASSUME NEW t \in Scratches PROVE Sound(writer'[t]) /\ Begins(array'[t], writer'[t].buf)
  <2>1. CASE t = s
    BY <1>2, <2>1 DEF Buffers
  <2>2. CASE t # s
    <3>1. writer'[t] = writer[t] /\ array'[t] = array[t]
      BY <2>2 DEF Buffers
    <3>. QED  BY <3>1 DEF Buffers
  <2>. QED  BY <2>1, <2>2
<1>. QED  BY <1>3, <1>4 DEF Buffers

(* Get hands out a writer that holds nothing yet.                          *)
LEMMA GetFills ==
  ASSUME Ownership, Contents, NEW c \in Callers, Get(c)
  PROVE  Contents'
<1>1. PICK s \in pool \cup (IF alive = Scratches THEN {} ELSE {CHOOSE t \in Scratches : t \notin alive}) :
        /\ scratch' = [scratch EXCEPT ![c] = s]
        /\ writer' = [writer EXCEPT ![s] = EmptyWriter]
  BY DEF Get
<1>2. Ownership'
  BY GetOwns
<1>3. pc' = [pc EXCEPT ![c] = "write"] /\ fed' = [fed EXCEPT ![c] = <<>>] /\ UNCHANGED <<array, src, result>>
  BY DEF Get
<1>4. s \in Scratches /\ \A d \in Callers \ {c} : scratch[d] # s
  BY <1>1, <1>2, <1>3, CallerAssumption DEF Ownership, Holding, NotShared
<1>5. EmptyWriter \in Writers /\ Sound(EmptyWriter) /\ EmptyWriter.buf = <<>> /\ Held(EmptyWriter) = <<>>
  BY EmptyWriterLaw DEF Sound
<1>6. Buffers'
  <2>1. Begins(array[s], <<>>)
    BY <1>4 DEF Contents, Buffers, Begins
  <2>2. writer' \in [Scratches -> Writers] /\ array' \in [Scratches -> Seq(Bytes)]
    BY <1>1, <1>3, <1>5 DEF Contents, Buffers
  <2>3. ASSUME NEW t \in Scratches PROVE Sound(writer'[t]) /\ Begins(array'[t], writer'[t].buf)
    <3>1. CASE t = s
      BY <1>1, <1>3, <1>5, <2>1, <3>1 DEF Contents, Buffers
    <3>2. CASE t # s
      BY <1>1, <1>3, <3>2 DEF Contents, Buffers
    <3>. QED  BY <3>1, <3>2
  <2>. QED  BY <2>2, <2>3 DEF Buffers
<1>7. Written'
  <2>1. calls' \in [Callers -> 0 .. MaxCalls]
    BY CallerAssumption DEF Get, Contents, Written
  <2>2. fed' \in [Callers -> Seq(Bit)] /\ src' \in [Callers -> Nat]
    BY <1>3 DEF Contents, Written
  <2>3. pc'[c] = "write" /\ Held(writer'[scratch'[c]]) = fed'[c]
    BY <1>1, <1>3, <1>4, <1>5 DEF Ownership, Holding, Contents, Buffers, Written
  <2>4. ASSUME NEW d \in Callers \ {c}, pc[d] # "idle"
        PROVE  writer'[scratch'[d]] = writer[scratch[d]]
    <3>1. scratch[d] \in Scratches /\ scratch'[d] = scratch[d]
      BY <1>1, <2>4, OwnScratch DEF Ownership, Holding
    <3>. QED  BY <1>1, <1>4, <3>1 DEF Contents, Buffers
  <2>5. \A d \in Callers \ {c} : pc'[d] = pc[d] /\ fed'[d] = fed[d] /\ src'[d] = src[d]
    BY <1>3 DEF Ownership, Holding, Contents, Written
  <2>. QED  BY <2>1, <2>2, <2>3, <2>4, <2>5 DEF Contents, Written
<1>8. Returned'
  BY <1>3 DEF Contents, Returned
<1>. QED  BY <1>6, <1>7, <1>8 DEF Contents

(* A field comes after the ones before it, in the buffer as in the call.   *)
LEMMA WroteFills ==
  ASSUME Ownership, Contents, NEW c \in Callers, pc[c] = "write", NEW w, NEW bits \in Seq(Bit),
         Adds(w, writer[scratch[c]], bits), Wrote(c, w, bits)
  PROVE  Contents'
<1>. DEFINE s == scratch[c]
<1>1. s \in Scratches /\ \A d \in Callers \ {c} : scratch[d] # s
  BY OwnScratch
<1>2. /\ writer' = [writer EXCEPT ![s] = w] /\ array' = [array EXCEPT ![s] = Overwritten(@, w.buf)]
      /\ fed' = [fed EXCEPT ![c] = Joined(@, bits)] /\ UNCHANGED <<pc, calls, scratch, src, result>>
  BY DEF Wrote, Joined
<1>3. Buffers'
  BY <1>1, <1>2, BuffersKept DEF Contents, Adds
<1>4. Written'
  <2>1. fed[c] \in Seq(Bit) /\ Joined(fed[c], bits) \in Seq(Bit)
    BY JoinedLaw DEF Contents, Written
  <2>2. calls' \in [Callers -> 0 .. MaxCalls] /\ fed' \in [Callers -> Seq(Bit)] /\ src' \in [Callers -> Nat]
    BY <1>2, <2>1 DEF Contents, Written
  <2>3. Held(writer'[s]) = fed'[c]
    BY <1>1, <1>2 DEF Adds, Contents, Buffers, Written
  <2>4. ASSUME NEW d \in Callers \ {c}, pc[d] # "idle"
        PROVE  writer'[scratch[d]] = writer[scratch[d]] /\ fed'[d] = fed[d]
    <3>1. scratch[d] \in Scratches
      BY <2>4, OwnScratch
    <3>. QED  BY <1>1, <1>2, <3>1 DEF Contents, Buffers, Written
  <2>5. ASSUME NEW d \in Callers
        PROVE  /\ pc'[d] = "write" => Held(writer'[scratch'[d]]) = fed'[d]
               /\ pc'[d] = "copy" => /\ src'[d] = Len(writer'[scratch'[d]].buf)
                                     /\ Padded(writer'[scratch'[d]].buf, fed'[d])
    <3>1. CASE d = c
      BY <1>2, <2>3, <3>1
    <3>2. CASE d # c
      BY <1>2, <2>4, <3>2 DEF Contents, Written
    <3>. QED  BY <3>1, <3>2
  <2>. QED  BY <2>2, <2>5 DEF Written
<1>5. Returned'
  BY <1>2 DEF Contents, Returned
<1>. QED  BY <1>3, <1>4, <1>5 DEF Contents

(* Both kinds of fields.                                                   *)
LEMMA WriteFills ==
  ASSUME Ownership, Contents, NEW c \in Callers, WriteUint(c) \/ WriteRank(c)
  PROVE  Contents'
<1>. DEFINE w == writer[scratch[c]]
<1>1. pc[c] = "write"
  BY DEF WriteUint, WriteRank
<1>2. Sound(w)
  BY <1>1, OwnScratch DEF Contents, Buffers
<1>3. CASE WriteUint(c)
  <2>1. PICK width \in 1 .. MaxWidth :
          \E v \in 0 .. 2^width - 1 : Wrote(c, WriteBits(w, v, width), BitsOf(v, width))
    BY <1>3 DEF WriteUint
  <2>2. PICK v \in 0 .. 2^width - 1 : Wrote(c, WriteBits(w, v, width), BitsOf(v, width))
    BY <2>1
  <2>3. width \in 0 .. MaxWidth /\ width \in Nat /\ v \in Nat
    <3>1. MaxWidth \in Int /\ width \in Nat
      BY BitAssumption DEF MaxWidth
    <3>. QED  BY <3>1, PowerPositive
  <2>4. Adds(WriteBits(w, v, width), w, BitsOf(v, width)) /\ BitsOf(v, width) \in Seq(Bit)
    BY <1>2, <2>3, WriteBitsLaw, BitsTypes DEF Adds
  <2>. QED  BY <1>1, <2>2, <2>4, WroteFills
<1>4. CASE WriteRank(c)
  <2>1. PICK width \in 0 .. MaxBits(c, calls[c]) :
          \E v \in 0 .. 2^width - 1 : Wrote(c, WriteBigIntBits(w, v, width), BitsOf(v, width))
    BY <1>4 DEF WriteRank
  <2>2. PICK v \in 0 .. 2^width - 1 : Wrote(c, WriteBigIntBits(w, v, width), BitsOf(v, width))
    BY <2>1
  <2>3. width \in Nat /\ v \in Nat /\ v < 2^width
    <3>1. width \in Nat
      BY CallerAssumption
    <3>2. 2^width \in Nat
      BY <3>1, PowerPositive
    <3>. QED  BY <3>1, <3>2
  <2>4. Adds(WriteBigIntBits(w, v, width), w, BitsOf(v, width)) /\ BitsOf(v, width) \in Seq(Bit)
    BY <1>2, <2>3, WriteBigIntBitsLaw, BitsTypes
  <2>. QED  BY <1>1, <2>2, <2>4, WroteFills
<1>. QED  BY <1>3, <1>4

(* Bytes() fills up the last byte.                                         *)
LEMMA TakeBytesFills ==
  ASSUME Ownership, Contents, NEW c \in Callers, TakeBytes(c)
  PROVE  Contents'
<1>. DEFINE s == scratch[c]
           w == Flushed(writer[s])
<1>1. pc[c] = "write" /\ s \in Scratches /\ \A d \in Callers \ {c} : scratch[d] # s
  BY OwnScratch DEF TakeBytes
<1>2. /\ writer' = [writer EXCEPT ![s] = w] /\ array' = [array EXCEPT ![s] = Overwritten(@, w.buf)]
      /\ src' = [src EXCEPT ![c] = Len(w.buf)] /\ pc' = [pc EXCEPT ![c] = "copy"]
      /\ UNCHANGED <<calls, scratch, fed, result>>
  BY DEF TakeBytes
<1>3. Sound(writer[s]) /\ Held(writer[s]) = fed[c]
  BY <1>1 DEF Contents, Buffers, Written
<1>4. Sound(w) /\ Padded(w.buf, fed[c])
  BY <1>3, FlushedLaw DEF Padded
<1>. HIDE DEF w
<1>5. Buffers'
  BY <1>1, <1>2, <1>4, BuffersKept DEF Contents
<1>6. Written'
  <2>1. w.buf \in Seq(Bytes)
    BY <1>4 DEF Sound, Writers
  <2>2. calls' \in [Callers -> 0 .. MaxCalls] /\ fed' \in [Callers -> Seq(Bit)] /\ src' \in [Callers -> Nat]
    BY <1>2, <2>1 DEF Contents, Written
  <2>3. pc'[c] = "copy" /\ src'[c] = Len(w.buf) /\ writer'[s] = w
    BY <1>1, <1>2 DEF Ownership, Holding, Contents, Buffers, Written
  <2>4. ASSUME NEW d \in Callers \ {c}, pc[d] # "idle"
        PROVE  writer'[scratch[d]] = writer[scratch[d]]
    <3>1. scratch[d] \in Scratches
      BY <2>4, OwnScratch
    <3>. QED  BY <1>1, <1>2, <3>1 DEF Contents, Buffers
  <2>5. \A d \in Callers \ {c} : pc'[d] = pc[d] /\ src'[d] = src[d]
    BY <1>2 DEF Ownership, Holding, Contents, Written
  <2>6. ASSUME NEW d \in Callers
        PROVE  /\ pc'[d] = "write" => Held(writer'[scratch'[d]]) = fed'[d]
               /\ pc'[d] = "copy" => /\ src'[d] = Len(writer'[scratch'[d]].buf)
                                     /\ Padded(writer'[scratch'[d]].buf, fed'[d])
    <3>1. CASE d = c
      BY <1>2, <1>4, <2>3, <3>1
    <3>2. CASE d # c
      BY <1>2, <2>4, <2>5, <3>2 DEF Contents, Written
    <3>. QED  BY <3>1, <3>2
  <2>. QED  BY <2>2, <2>6 DEF Written
<1>7. Returned'
  BY <1>2 DEF Contents, Returned
<1>. QED  BY <1>5, <1>6, <1>7 DEF Contents

(* What is copied out is what the buffer holds.                            *)
LEMMA CopyOutFills ==
  ASSUME Ownership, Contents, NEW c \in Callers, CopyOut(c)
  PROVE  Contents'
<1>. DEFINE s == scratch[c]
           data == SubSeq(array[s], 1, src[c])
<1>1. pc[c] = "copy" /\ s \in Scratches
  BY OwnScratch DEF CopyOut
<1>2. /\ result' = [result EXCEPT ![c] = [of |-> Unused, data |-> data, bits |-> fed[c]]]
      /\ pc' = [pc EXCEPT ![c] = "put"]
      /\ UNCHANGED <<writer, array, calls, scratch, fed, src>>
  BY DEF CopyOut
<1>3. data = writer[s].buf /\ writer[s].buf \in Seq(Bytes) /\ Padded(writer[s].buf, fed[c]) /\ fed[c] \in Seq(Bit)
  <2>1. Sound(writer[s]) /\ Begins(array[s], writer[s].buf) /\ src[c] = Len(writer[s].buf)
    BY <1>1 DEF Contents, Buffers, Written
  <2>. QED  BY <1>1, <2>1 DEF Begins, Sound, Writers, Contents, Written
<1>. HIDE DEF data
<1>4. Returned'
  <2>1. result'[c] = [of |-> Unused, data |-> data, bits |-> fed[c]]
    BY <1>2 DEF Contents, Returned
  <2>2. \A d \in Callers \ {c} : result'[d] = result[d]
    BY <1>2 DEF Contents, Returned
  <2>3. result' \in [Callers -> [of : {Unused}, data : Seq(Bytes), bits : Seq(Bit)]]
    BY <1>2, <1>3 DEF Contents, Returned
  <2>4. ASSUME NEW d \in Callers PROVE Padded(result'[d].data, result'[d].bits)
    <3>1. CASE d = c
      BY <1>3, <2>1, <3>1
    <3>2. CASE d # c
      BY <2>2, <3>2 DEF Contents, Returned
    <3>. QED  BY <3>1, <3>2
  <2>. QED  BY <2>3, <2>4 DEF Returned
<1>5. Buffers'
  BY <1>2 DEF Contents, Buffers
<1>6. Written'
  <2>1. \A d \in Callers : pc'[d] \in {"write", "copy"} => pc'[d] = pc[d]
    BY <1>2 DEF Ownership, Holding
  <2>. QED  BY <1>2, <2>1 DEF Contents, Written
<1>. QED  BY <1>4, <1>5, <1>6 DEF Contents

(* A call that ends forgets what it wrote and leaves the array as it is.   *)
LEMMA PutFills ==
  ASSUME Ownership, Contents, NEW c \in Callers, Put(c)
  PROVE  Contents'
<1>1. /\ scratch' = [scratch EXCEPT ![c] = Unused] /\ pc' = [pc EXCEPT ![c] = "idle"]
      /\ fed' = [fed EXCEPT ![c] = <<>>] /\ src' = [src EXCEPT ![c] = 0]
      /\ UNCHANGED <<writer, array, calls, result>>
  BY DEF Put
<1>2. Buffers' /\ Returned'
  BY <1>1 DEF Contents, Buffers, Returned
<1>3. Written'
  <2>1. calls' \in [Callers -> 0 .. MaxCalls] /\ fed' \in [Callers -> Seq(Bit)] /\ src' \in [Callers -> Nat]
    BY <1>1 DEF Contents, Written
  <2>2. pc'[c] = "idle"
    BY <1>1 DEF Ownership, Holding
  <2>3. \A d \in Callers \ {c} : /\ pc'[d] = pc[d] /\ scratch'[d] = scratch[d]
                                /\ fed'[d] = fed[d] /\ src'[d] = src[d]
    BY <1>1 DEF Ownership, Holding, Contents, Written
  <2>. QED  BY <1>1, <2>1, <2>2, <2>3 DEF Contents, Written
<1>. QED  BY <1>2, <1>3 DEF Contents

(* The collector touches no buffer, as far as anybody can see.             *)
LEMMA StutterFills ==
  ASSUME Contents, UNCHANGED <<writer, array, pc, calls, scratch, fed, src, result>>
  PROVE  Contents'
BY DEF Contents, Buffers, Written, Returned

(* Every step keeps the invariant.                                         *)
LEMMA Preserved == IInv /\ [Next]_vars => IInv'
<1>. SUFFICES ASSUME IInv, [Next]_vars PROVE IInv'
  OBVIOUS
<1>1. Ownership /\ Contents
  BY DEF IInv
<1>2. ASSUME NEW c \in Callers, Call(c) PROVE IInv'
  <2>1. CASE Get(c)
    BY <1>1, <2>1, GetOwns, GetFills DEF IInv
  <2>2. CASE WriteUint(c) \/ WriteRank(c)
    BY <1>1, <2>2, WorkOwns, WriteFills DEF IInv
  <2>3. CASE TakeBytes(c)
    BY <1>1, <2>3, WorkOwns, TakeBytesFills DEF IInv
  <2>4. CASE CopyOut(c)
    BY <1>1, <2>4, WorkOwns, CopyOutFills DEF IInv
  <2>5. CASE Put(c)
    BY <1>1, <2>5, PutOwns, PutFills DEF IInv
  <2>. QED  BY <1>2, <2>1, <2>2, <2>3, <2>4, <2>5 DEF Call
<1>3. CASE Drop
  <2>1. UNCHANGED <<writer, array, pc, calls, scratch, fed, src, result>>
    BY <1>3 DEF Drop
  <2>. QED  BY <1>1, <1>3, <2>1, DropOwns, StutterFills DEF IInv
<1>4. CASE Finished \/ UNCHANGED vars
  <2>1. UNCHANGED vars
    BY <1>4 DEF Finished
  <2>2. Ownership'
    BY <1>1, <2>1 DEF Ownership, Holding, NotShared, vars
  <2>3. Contents'
    BY <1>1, <2>1, StutterFills DEF vars
  <2>. QED  BY <2>2, <2>3 DEF IInv
<1>. QED  BY <1>2, <1>3, <1>4 DEF Next

-----------------------------------------------------------------------------
(* The invariant holds in every state that process can reach.              *)
THEOREM Invariance == Spec => []IInv
<1>1. Init => IInv
  BY OwnershipInitially, ContentsInitially DEF IInv
<1>2. IInv /\ [Next]_vars => IInv'
  BY Preserved
<1>. QED  BY <1>1, <1>2, PTL DEF Spec

(* compressor.go:168, "safe for concurrent use": no scratch is ever in the *)
(* hands of two calls, or of a call and the pool.                          *)
THEOREM ScratchesNotShared == Spec => []NotShared
<1>1. IInv => NotShared
  BY DEF IInv, Ownership
<1>. QED  BY <1>1, Invariance, PTL

(* Types: between writes a writer has less than a byte pending, and its    *)
(* accumulator holds those bits and nothing else.                          *)
THEOREM TypeCorrect == Spec => []TypeOK
<1>1. IInv => TypeOK
  <2>. SUFFICES ASSUME IInv PROVE TypeOK
    OBVIOUS
  <2>1. pool \subseteq alive /\ alive \subseteq Scratches
    BY DEF IInv, Ownership, Holding
  <2>2. ASSUME NEW s \in Scratches
        PROVE  /\ writer[s].buf \in Seq(Bytes) /\ array[s] \in Seq(Bytes)
               /\ writer[s].nAcc \in 0 .. ByteBits - 1
               /\ writer[s].acc \in 0 .. 2^writer[s].nAcc - 1
    <3>1. Sound(writer[s]) /\ array[s] \in Seq(Bytes)
      BY DEF IInv, Contents, Buffers
    <3>. QED  BY <3>1 DEF Sound, Writers
  <2>3. ASSUME NEW c \in Callers
        PROVE  /\ pc[c] \in {"idle", "write", "copy", "put"} /\ calls[c] \in 0 .. MaxCalls
               /\ scratch[c] \in alive \cup {Unused}
               /\ fed[c] \in Seq({0, 1}) /\ src[c] \in Nat
    BY DEF IInv, Ownership, Holding, Contents, Written, Bit
  <2>. QED  BY <2>1, <2>2, <2>3 DEF TypeOK
<1>. QED  BY <1>1, Invariance, PTL

(* util.go:121: what is in a writer, in its buffer and pending, are the    *)
(* bits of the fields of its call, most significant first and in their     *)
(* order, whatever the widths and whoever used the scratch before.         *)
THEOREM HoldsBitsCorrect == Spec => []HoldsBits
<1>1. IInv => HoldsBits
  BY DEF IInv, Contents, Written, HoldsBits, Held, Joined
<1>. QED  BY <1>1, Invariance, PTL

(* compressor.go: what a call of process returned are the bits it wrote,   *)
(* filled up with zeros, and later calls do not change them.               *)
THEOREM ResultsStayCorrect == Spec => []ResultsStay
<1>1. IInv => ResultsStay
  <2>. SUFFICES ASSUME IInv, NEW c \in Callers
                PROVE  LET r == result[c]  fill == Len(r.data) * ByteBits - Len(r.bits) IN
                       /\ fill \in 0 .. ByteBits - 1
                       /\ Unpacked(Seen(r)) = r.bits \o [b \in 1 .. fill |-> 0]
    BY DEF ResultsStay
  <2>. DEFINE r == result[c]
             fill == ByteBits * Len(r.data) - Len(r.bits)
  <2>1. r.of = Unused /\ Len(r.data) \in Nat /\ Padded(r.data, r.bits)
    BY DEF IInv, Contents, Returned
  <2>2. Len(r.data) * ByteBits - Len(r.bits) = fill /\ Seen(r) = r.data
    BY <2>1, ByteTypes DEF Seen
  <2>3. fill \in 0 .. ByteBits - 1 /\ Unpacked(r.data) = r.bits \o BitsOf(0, fill)
    BY <2>1 DEF Padded, Joined
  <2>. HIDE DEF r, fill
  <2>4. BitsOf(0, fill) = [b \in 1 .. fill |-> 0]
    <3>1. fill \in Nat
      BY <2>3, ByteTypes
    <3>. QED  BY <3>1, ZeroBitsAre
  <2>5. Len(r.data) * ByteBits - Len(r.bits) \in 0 .. ByteBits - 1
    BY <2>2, <2>3
  <2>6. Unpacked(Seen(r)) = r.bits \o [b \in 1 .. Len(r.data) * ByteBits - Len(r.bits) |-> 0]
    BY <2>2, <2>3, <2>4
  <2>. QED  BY <2>5, <2>6 DEF r
<1>. QED  BY <1>1, Invariance, PTL

(* A slice of bits is the same when more bits come after them.             *)
LEMMA SliceBefore ==
  ASSUME NEW bits \in Seq(Bit), NEW more \in Seq(Bit), NEW pos \in Nat, NEW n \in Nat,
         pos + n <= Len(bits)
  PROVE  Slice(Joined(bits, more), pos, n) = SubSeq(bits, pos + 1, pos + n)
<1>1. ASSUME NEW b \in 1 .. n
      PROVE  Joined(bits, more)[pos + b] = bits[pos + b] /\ bits[pos + b] \in Bit
  <2>1. pos + b \in 1 .. Len(bits) /\ pos + b \in 1 .. Len(bits) + Len(more)
    OBVIOUS
  <2>. QED  BY <2>1, JoinedAt
<1>2. Slice(Joined(bits, more), pos, n) = [b \in 1 .. n |-> bits[pos + b]]
  BY <1>1 DEF Slice
<1>3. /\ SubSeq(bits, pos + 1, pos + n) \in Seq(Bit) /\ Len(SubSeq(bits, pos + 1, pos + n)) = n
      /\ \A b \in 1 .. n : SubSeq(bits, pos + 1, pos + n)[b] = bits[pos + b]
  <2>. DEFINE m == pos + 1
              l == pos + n
  <2>1. m \in Nat /\ l \in Nat /\ \A i \in m .. l : i \in 1 .. Len(bits)
    OBVIOUS
  <2>2. l - m + 1 = n /\ \A b \in 1 .. n : m + b - 1 = pos + b
    OBVIOUS
  <2>3. m <= l + 1
    OBVIOUS
  <2>. HIDE DEF m, l
  <2>4. /\ SubSeq(bits, m, l) \in Seq(Bit)
        /\ Len(SubSeq(bits, m, l)) = IF m <= l THEN l - m + 1 ELSE 0
        /\ \A i \in 1 .. l - m + 1 : SubSeq(bits, m, l)[i] = bits[m + i - 1]
    BY <2>1, SubSeqProperties
  <2>5. Len(SubSeq(bits, m, l)) = n
    BY <2>1, <2>2, <2>3, <2>4
  <2>6. \A b \in 1 .. n : SubSeq(bits, m, l)[b] = bits[pos + b]
    BY <2>2, <2>4
  <2>. QED  BY <2>4, <2>5, <2>6 DEF m, l
<1>. DEFINE s == SubSeq(bits, pos + 1, pos + n)
<1>. HIDE DEF s
<1>4. s \in Seq(Bit) /\ Len(s) = n /\ \A b \in 1 .. n : s[b] = bits[pos + b]
  BY <1>3 DEF s
<1>5. s = [b \in 1 .. n |-> bits[pos + b]]
  <2>1. s = [b \in 1 .. n |-> s[b]]
    BY <1>4
  <2>. QED  BY <1>4, <2>1
<1>. QED  BY <1>2, <1>5 DEF s

(* "The inverse of BitWriter": what a call returned, read at any position  *)
(* as a word or as a big integer of any width, gives the number whose bits *)
(* were written there, with no bit of a neighbouring field.                *)
THEOREM ReadsBackCorrect == Spec => []ReadsBack
<1>1. IInv => ReadsBack
  <2>. DEFINE IsThere(v, bits, pos, width) ==
                v \in 0 .. 2^width - 1 /\ BitsOf(v, width) = SubSeq(bits, pos + 1, pos + width)
              Both(data, bits, pos, width) ==
                /\ width <= MaxWidth => IsThere(ReadBits(data, pos, width), bits, pos, width)
                /\ IsThere(ReadBigInt(data, pos, width), bits, pos, width)
  <2>1. ASSUME NEW data \in Seq(Bytes), NEW bits \in Seq(Bit), Padded(data, bits),
               NEW pos \in 0 .. Len(bits), NEW width \in 0 .. Len(bits) - pos
        PROVE  Both(data, bits, pos, width)
    <3>. DEFINE room == ByteBits * Len(data)
                fill == room - Len(bits)
    <3>1. room \in Nat /\ fill \in Nat /\ Len(bits) \in Nat /\ Len(bits) <= room
      <4>1. fill \in 0 .. ByteBits - 1 /\ room \in Nat /\ Len(bits) \in Nat
        BY <2>1, ByteTypes DEF Padded
      <4>. HIDE DEF room
      <4>2. fill \in Nat /\ Len(bits) <= room
        BY <4>1, ByteTypes
      <4>. QED  BY <4>1, <4>2
    <3>2. Unpacked(data) = Joined(bits, BitsOf(0, fill)) /\ BitsOf(0, fill) \in Seq(Bit)
      <4>1. Unpacked(data) = Joined(bits, BitsOf(0, fill))
        BY <2>1 DEF Padded
      <4>. HIDE DEF fill
      <4>. QED  BY <3>1, <4>1, BitsTypes
    <3>3. pos \in Nat /\ width \in Nat /\ pos + width <= Len(bits) /\ pos + width <= room
      <4>. HIDE DEF room, fill
      <4>. QED  BY <3>1
    <3>. HIDE DEF fill
    <3>4. Slice(Unpacked(data), pos, width) = SubSeq(bits, pos + 1, pos + width)
      <4>. DEFINE more == BitsOf(0, fill)
      <4>1. more \in Seq(Bit) /\ Unpacked(data) = Joined(bits, more)
        BY <3>2
      <4>. HIDE DEF more, room
      <4>2. Slice(Joined(bits, more), pos, width) = SubSeq(bits, pos + 1, pos + width)
        BY <3>3, <4>1, SliceBefore
      <4>. QED  BY <4>1, <4>2
    <3>5. data \in Seq(Nat)
      BY ByteTypes
    <3>6. Reads(ReadBigInt(data, pos, width), Unpacked(data), pos, width)
      BY <3>3, <3>5, ReadBigIntLaw
    <3>7. width <= MaxWidth => Reads(ReadBits(data, pos, width), Unpacked(data), pos, width)
      <4>1. ASSUME width <= MaxWidth PROVE width \in 0 .. MaxWidth
        <5>1. MaxWidth \in Int
          BY BitAssumption DEF MaxWidth
        <5>. QED  BY <3>3, <4>1, <5>1
      <4>. QED  BY <3>3, <3>5, <4>1, ReadBitsLaw
    <3>. QED  BY <3>4, <3>6, <3>7 DEF Reads
  <2>2. ASSUME IInv, NEW c \in Callers
        PROVE  result[c].data \in Seq(Bytes) /\ result[c].bits \in Seq(Bit)
               /\ Padded(result[c].data, result[c].bits)
    BY <2>2 DEF IInv, Contents, Returned
  <2>3. ASSUME IInv, NEW c \in Callers, NEW pos \in 0 .. Len(result[c].bits),
               NEW width \in 0 .. Len(result[c].bits) - pos
        PROVE  Both(result[c].data, result[c].bits, pos, width)
    <3>. DEFINE data == result[c].data
                bits == result[c].bits
    <3>1. data \in Seq(Bytes) /\ bits \in Seq(Bit) /\ Padded(data, bits)
      BY <2>2, <2>3
    <3>. HIDE DEF data, bits, Both
    <3>. QED  BY <2>1, <2>3, <3>1 DEF data, bits
  <2>. QED  BY <2>3 DEF ReadsBack
<1>. QED  BY <1>1, Invariance, PTL
=============================================================================
