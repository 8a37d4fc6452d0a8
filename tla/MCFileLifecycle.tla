--------------------------- MODULE MCFileLifecycle ---------------------------
(* TLC instances of FileLifecycle.                                         *)
EXTENDS FileLifecycle

\* one to three blocks, the last one full or short
SomeLengths == {1, 2, 3, 4, 5}
OnlyEmpty == {0}
LargerThanCount == {10}

EveryFault == AllFaults
FlushFault == {"compressFlush"}
GrowFault == {"grow"}
CreateFault == {"create"}
NoFaults == {}
=============================================================================
