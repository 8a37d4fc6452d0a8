-------------------------------- MODULE Words --------------------------------
(***************************************************************************)
(* Machine words and the lengths of numbers.  A uint64 is a number below   *)
(* 2^AccBits; a big.Int is a natural number.                               *)
(***************************************************************************)
EXTENDS Integers

CONSTANT AccBits     \* width of a machine word, 64 in the code

\* what rank's accumulator wraps at
Word == 2^AccBits

\* bits.Len, big.Int.BitLen and the cached BitLength: how often v can be halved
\* until nothing is left.  The cached one is a uint16, which InitCache's guard on
\* maxN keeps wide enough.
BitLength(v) ==
  LET Halvings[x \in 0 .. v] == IF x = 0 THEN 0 ELSE 1 + Halvings[x \div 2] IN Halvings[v]
=============================================================================
