------------------------------ MODULE MCCleanup ------------------------------
\* Small instances of Cleanup for TLC.
EXTENDS Cleanup, TLC

CONSTANTS k1, k2, k3, r1, r2

\* Keys are interchangeable, and so are requests.
Symmetry == Permutations(Keys) \cup Permutations(Requests)
=============================================================================
