--------------------------- MODULE MCCompressPool ---------------------------
(* TLC instances of CompressPool.                                          *)
EXTENDS CompressPool, TLC

CONSTANTS w1, w2, w3

TwoWorkers == {w1, w2}
ThreeWorkers == {w1, w2, w3}

\* workers are alike: used by the run that checks safety only
Symmetry == Permutations(Workers)
=============================================================================
