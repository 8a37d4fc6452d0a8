-------------------------- MODULE MCDecompressPool --------------------------
(* TLC instances of DecompressPool.                                        *)
EXTENDS DecompressPool

CONSTANTS w1, w2

TwoWorkers == {w1, w2}

\* Nine blocks: only the last one goes into a slot that held another.
Decoding(garbage, panic) ==
  [x \in 0 .. NumBlocks - 1 |->
     IF x \in garbage THEN "garbage" ELSE IF x \in panic THEN "panic" ELSE "own"]
Encrypted(garbage, panic) == [encrypted |-> TRUE, decodes |-> Decoding(garbage, panic)]
Clear(garbage, panic) == [encrypted |-> FALSE, decodes |-> Decoding(garbage, panic)]

SomeArchives ==
  { Encrypted({}, {}),                      \* nothing wrong
    Encrypted({0, 1, 2, 5, 7}, {3, 8}),     \* a wrong key; two blocks happen to decode
    Clear({3}, {5}) }                       \* a damaged clear archive
=============================================================================
