---------------------------- MODULE MCScratchPool ----------------------------
(* TLC instance of ScratchPool: bytes of two bits, words of six.            *)
EXTENDS ScratchPool

CONSTANTS c1, c2, s1, s2

TwoCallers == {c1, c2}
TwoScratches == {s1, s2}

\* one call writes fields over several bytes, the others one bit
FewBits(c, k) == IF c = c1 /\ k = 1 THEN 6 ELSE 1
=============================================================================
