------------------------------ MODULE MCMmpTls ------------------------------
(* Three thread ids, two modules, and enough heap blocks for a copy of each   *)
(* module's data for each thread plus what unloaded modules left behind.      *)
EXTENDS MmpTls, TLC

CONSTANTS m1, m2

MCThreads == 1 .. 3
MCBlocks  == 1 .. 8
MCIndices == {128, 129}
MCModules == {m1, m2}
MCSymmetry == Permutations(MCModules)
=============================================================================
