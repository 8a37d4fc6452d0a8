----------------------------- MODULE ScratchPool -----------------------------
(***************************************************************************)
(* Concurrent calls of compressor.process and the writers they share.      *)
(*                                                                         *)
(* Each call takes a scratch from a sync.Pool, writes its fields with the  *)
(* BitWriter in it, copies the packed bytes out and puts the scratch back. *)
(* The buffer of a writer is a slice of an array that the next user of the *)
(* scratch overwrites from the start.                                      *)
(***************************************************************************)
EXTENDS BitStream, FiniteSets

CONSTANTS Callers,          \* the goroutines that call process
          Scratches,        \* the blockScratch objects there may be at once
          MaxCalls,         \* bound on the calls of one caller
          MaxBits(_, _),    \* bound on the bits one call writes
          Unused            \* no scratch

ASSUME CallerAssumption ==
  /\ IsFiniteSet(Scratches) /\ Cardinality(Scratches) >= Cardinality(Callers)
  /\ MaxCalls \in Nat /\ Unused \notin Scratches
  /\ \A c \in Callers, k \in 1 .. MaxCalls : MaxBits(c, k) \in Nat

VARIABLES
  pool, alive,      \* scratches in the sync.Pool, and all that exist
  writer,           \* bitWriter of each scratch
  array,            \* what the array under its buffer holds, beyond its length too
  pc, calls,        \* of each caller: where it is, calls begun
  scratch,          \* s
  fed,              \* the bits it has written in this call
  src,              \* len(src), src being a slice of the scratch's array
  result            \* what its last call returned: bytes, or a slice of an array

vars == <<pool, alive, writer, array, pc, calls, scratch, fed, src, result>>

Init ==
  /\ pool = {} /\ alive = {}
  /\ writer = [s \in Scratches |-> EmptyWriter]
  /\ array = [s \in Scratches |-> <<>>]
  /\ pc = [c \in Callers |-> "idle"]
  /\ calls = [c \in Callers |-> 0]
  /\ scratch = [c \in Callers |-> Unused]
  /\ fed = [c \in Callers |-> <<>>]
  /\ src = [c \in Callers |-> 0]
  /\ result = [c \in Callers |-> [of |-> Unused, data |-> <<>>, bits |-> <<>>]]

\* the array after w.buf was written over its beginning
Overwritten(old, buf) == buf \o SubSeq(old, Len(buf) + 1, Len(old))

\* the bytes of a result as its receiver sees them now
Seen(r) == IF r.of = Unused THEN r.data ELSE SubSeq(array[r.of], 1, Len(r.data))

-----------------------------------------------------------------------------
\* scratchPool.Get(), which may call New even if the pool is not empty, and Reset
Get(c) ==
  /\ pc[c] = "idle" /\ calls[c] < MaxCalls
  /\ \E s \in pool \cup (IF alive = Scratches THEN {} ELSE {CHOOSE t \in Scratches : t \notin alive}) :
       /\ pool' = pool \ {s} /\ alive' = alive \cup {s}
       /\ scratch' = [scratch EXCEPT ![c] = s]
       /\ writer' = [writer EXCEPT ![s] = EmptyWriter]
  /\ calls' = [calls EXCEPT ![c] = @ + 1]
  /\ fed' = [fed EXCEPT ![c] = <<>>]
  /\ pc' = [pc EXCEPT ![c] = "write"]
  /\ UNCHANGED <<array, src, result>>

\* the caller's writer becomes w, the value's bits having been written
Wrote(c, w, bits) ==
  /\ writer' = [writer EXCEPT ![scratch[c]] = w]
  /\ array' = [array EXCEPT ![scratch[c]] = Overwritten(@, w.buf)]
  /\ fed' = [fed EXCEPT ![c] = @ \o bits]
  /\ UNCHANGED <<pool, alive, pc, calls, scratch, src, result>>

\* a field of so many bits still fits into this call
Room(c, width) == Len(fed[c]) + width <= MaxBits(c, calls[c])

\* a count, a width or a byte: WriteBits
WriteUint(c) ==
  /\ pc[c] = "write"
  /\ \E width \in 1 .. MaxWidth : Room(c, width) /\ \E v \in 0 .. 2^width - 1 :
       Wrote(c, WriteBits(writer[scratch[c]], v, width), BitsOf(v, width))

\* a rank: WriteBigIntBits
WriteRank(c) ==
  /\ pc[c] = "write"
  /\ \E width \in 0 .. MaxBits(c, calls[c]) : Room(c, width) /\ \E v \in 0 .. 2^width - 1 :
       Wrote(c, WriteBigIntBits(writer[scratch[c]], v, width), BitsOf(v, width))

\* bug: the scratch goes back before its bytes were copied
PutTooEarly(c) ==
  /\ pc[c] = "write"
  /\ LET w == Flushed(writer[scratch[c]]) IN
     /\ writer' = [writer EXCEPT ![scratch[c]] = w]
     /\ array' = [array EXCEPT ![scratch[c]] = Overwritten(@, w.buf)]
     /\ src' = [src EXCEPT ![c] = Len(w.buf)]
  /\ pool' = pool \cup {scratch[c]}
  /\ pc' = [pc EXCEPT ![c] = "copy"]
  /\ UNCHANGED <<alive, calls, scratch, fed, result>>

\* src := bitWriter.Bytes()
TakeBytes(c) ==
  /\ pc[c] = "write"
  /\ LET w == Flushed(writer[scratch[c]]) IN
     /\ writer' = [writer EXCEPT ![scratch[c]] = w]
     /\ array' = [array EXCEPT ![scratch[c]] = Overwritten(@, w.buf)]
     /\ src' = [src EXCEPT ![c] = Len(w.buf)]
  /\ pc' = [pc EXCEPT ![c] = "copy"]
  /\ UNCHANGED <<pool, alive, calls, scratch, fed, result>>

\* bug: src itself is returned
ReturnSlice(c) ==
  /\ pc[c] = "copy"
  /\ result' = [result EXCEPT ![c] =
       [of |-> scratch[c], data |-> SubSeq(array[scratch[c]], 1, src[c]), bits |-> fed[c]]]
  /\ pc' = [pc EXCEPT ![c] = "put"]
  /\ UNCHANGED <<pool, alive, writer, array, calls, scratch, fed, src>>

\* the bytes are copied to an array of their own, which is returned
CopyOut(c) ==
  /\ pc[c] = "copy"
  /\ result' = [result EXCEPT ![c] =
       [of |-> Unused, data |-> SubSeq(array[scratch[c]], 1, src[c]), bits |-> fed[c]]]
  /\ pc' = [pc EXCEPT ![c] = "put"]
  /\ UNCHANGED <<pool, alive, writer, array, calls, scratch, fed, src>>

\* the deferred scratchPool.Put(s)
Put(c) ==
  /\ pc[c] = "put"
  /\ pool' = pool \cup {scratch[c]}
  /\ scratch' = [scratch EXCEPT ![c] = Unused]
  /\ fed' = [fed EXCEPT ![c] = <<>>] /\ src' = [src EXCEPT ![c] = 0]
  /\ pc' = [pc EXCEPT ![c] = "idle"]
  /\ UNCHANGED <<alive, writer, array, calls, result>>

\* the garbage collector may empty the pool
Drop ==
  /\ pool # {}
  /\ pool' = {} /\ alive' = alive \ pool
  /\ UNCHANGED <<writer, array, pc, calls, scratch, fed, src, result>>

Finished == (\A c \in Callers : pc[c] = "idle" /\ calls[c] = MaxCalls) /\ UNCHANGED vars

Call(c) == Get(c) \/ WriteUint(c) \/ WriteRank(c) \/ TakeBytes(c) \/ CopyOut(c) \/ Put(c)

Next == (\E c \in Callers : Call(c)) \/ Drop \/ Finished

Spec == Init /\ [][Next]_vars

-----------------------------------------------------------------------------
(* Properties.                                                             *)

(* Types; between writes a writer has less than a byte pending, and its    *)
(* accumulator holds those bits and nothing else.                          *)
TypeOK ==
  /\ pool \subseteq alive /\ alive \subseteq Scratches
  /\ \A s \in Scratches :
       /\ writer[s].buf \in Seq(Bytes) /\ array[s] \in Seq(Bytes)
       /\ writer[s].nAcc \in 0 .. ByteBits - 1
       /\ writer[s].acc \in 0 .. 2^writer[s].nAcc - 1
  /\ \A c \in Callers :
       /\ pc[c] \in {"idle", "write", "copy", "put"} /\ calls[c] \in 0 .. MaxCalls
       /\ scratch[c] \in alive \cup {Unused}
       /\ fed[c] \in Seq({0, 1}) /\ src[c] \in Nat

(* compressor.go:168, "safe for concurrent use": a scratch that a call     *)
(* works with is in no other call's hands and not in the pool.             *)
NotShared ==
  \A c \in Callers : scratch[c] # Unused =>
    /\ scratch[c] \notin pool
    /\ \A d \in Callers \ {c} : scratch[d] # scratch[c]

(* util.go:121: the writer packs the bits of its fields most significant   *)
(* first, whatever was in the scratch before, however the fields lie over  *)
(* byte boundaries and whether they came as words or as big integers.      *)
HoldsBits ==
  \A c \in Callers : pc[c] = "write" =>
    LET w == writer[scratch[c]] IN Unpacked(w.buf) \o BitsOf(w.acc, w.nAcc) = fed[c]

(* What a call returned stays what it wrote, filled up with zeros to whole *)
(* bytes, while later calls use the same scratch.                          *)
ResultsStay ==
  \A c \in Callers :
    LET r == result[c]  fill == Len(r.data) * ByteBits - Len(r.bits) IN
    /\ fill \in 0 .. ByteBits - 1
    /\ Unpacked(Seen(r)) = r.bits \o [b \in 1 .. fill |-> 0]

(* "The inverse of BitWriter": at every position every field that ReadBits *)
(* or ReadBigInt reads has the bits that were written there, and no more.  *)
ReadsBack ==
  \A c \in Callers : pc[c] = "put" =>
    LET r == result[c]
        IsThere(v, pos, width) ==
          v \in 0 .. 2^width - 1 /\ BitsOf(v, width) = SubSeq(r.bits, pos + 1, pos + width)
    IN \A pos \in 0 .. Len(r.bits) : \A width \in 0 .. Len(r.bits) - pos :
         /\ width <= MaxWidth => IsThere(ReadBits(r.data, pos, width), pos, width)
         /\ IsThere(ReadBigInt(r.data, pos, width), pos, width)
=============================================================================
