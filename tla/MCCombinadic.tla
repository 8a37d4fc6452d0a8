---------------------------- MODULE MCCombinadic ----------------------------
(* TLC instance of CombinadicWalk: all subsets of sixteen positions.  With  *)
(* twelve bits the products of the closed-form terms still fit, as they do  *)
(* in 64 bits at the largest block size, and both ways to overflow occur.   *)
EXTENDS CombinadicWalk
=============================================================================
