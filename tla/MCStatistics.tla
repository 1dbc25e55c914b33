---------------------------- MODULE MCStatistics ----------------------------
(* Statistics on a small instance. *)
EXTENDS Statistics, TLC

Symmetry == Permutations(Calls) \cup Permutations(Providers) \cup Permutations(Urls)

=============================================================================
