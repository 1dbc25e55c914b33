----------------------------- MODULE MCProviders -----------------------------
\* Small instances of Providers for TLC.
EXTENDS Providers, TLC

CONSTANTS r1, r2, r3, p1, p2, p3

\* Requests are interchangeable, and so are the providers that exist and those that
\* do not yet.
Symmetry ==
  Permutations(Requests) \cup Permutations(Existing) \cup Permutations(Providers \ Existing)
=============================================================================
