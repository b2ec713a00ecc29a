---------------------------- MODULE MCMmpDotNet ----------------------------
(* Two files, two threads; a handle and an address fewer than the calls could use, *)
(* so that both are used again.                                             *)
EXTENDS MmpDotNet

MCSymmetry == Permutations(Threads) \cup Permutations(Files) \cup Permutations(Handles)
              \cup Permutations(Bases) \cup Permutations(Entries)
=============================================================================
