-------------------------------- MODULE MCBlob --------------------------------
\* Instances of Blob for TLC.
EXTENDS Blob, TLC

CONSTANTS p, q, r, m, s, t, i

Symmetric == Permutations(Proxy) \cup Permutations(ShmArea)
===============================================================================
