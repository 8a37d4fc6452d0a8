----------------------------- MODULE OrderedPipe -----------------------------
(***************************************************************************)
(* What a worker pool of this program promises to the code around it, with *)
(* goroutines, channels and batches forgotten: blocks are accepted in file *)
(* order, at most Capacity of them are in flight, each leaves exactly once *)
(* and in the order it was accepted, and the pool ends only when every     *)
(* accepted block has left - unless the process dies first.                *)
(*                                                                         *)
(* CompressPool and DecompressPool implement this specification.           *)
(***************************************************************************)
EXTENDS Naturals, Sequences

CONSTANTS NumBlocks,    \* blocks the header announces
          Capacity,     \* the most blocks in flight
          Item(_)       \* what must leave for the block with a given index

VARIABLES accepted,     \* blocks taken from the input so far
          failed,       \* the input ended early
          out,          \* what has left the pool
          ended,        \* the pool has been joined
          crashed       \* the process died

vars == <<accepted, failed, out, ended, crashed>>

Init == accepted = 0 /\ failed = FALSE /\ out = <<>> /\ ended = FALSE /\ crashed = FALSE

Accept == /\ ~crashed /\ ~failed /\ accepted < NumBlocks
          /\ accepted - Len(out) < Capacity
          /\ accepted' = accepted + 1
          /\ UNCHANGED <<failed, out, ended, crashed>>

Fail == /\ ~crashed /\ ~failed /\ accepted < NumBlocks
        /\ failed' = TRUE
        /\ UNCHANGED <<accepted, out, ended, crashed>>

Emit == /\ ~crashed /\ Len(out) < accepted
        /\ out' = Append(out, Item(Len(out)))
        /\ UNCHANGED <<accepted, failed, ended, crashed>>

End == /\ ~crashed /\ ~ended
       /\ failed \/ accepted = NumBlocks
       /\ Len(out) = accepted
       /\ ended' = TRUE
       /\ UNCHANGED <<accepted, failed, out, crashed>>

Crash == ~crashed /\ ~ended /\ crashed' = TRUE /\ UNCHANGED <<accepted, failed, out, ended>>

Next == Crash \/ Accept \/ Fail \/ Emit \/ End

Spec == Init /\ [][Next]_vars /\ WF_vars(Accept \/ Fail) /\ WF_vars(Emit) /\ WF_vars(End)
=============================================================================
