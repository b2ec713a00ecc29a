---------------------------- MODULE MCGlobalData ----------------------------
(* Two copies of the preview in the repository and two releases, of which the *)
(* older can use the newer's block; every section of 0, 3, 5 and 8 bytes;  *)
(* patterns that can overlap themselves.  Eight bytes hold two tables one  *)
(* of which is in the other's header.                                      *)
EXTENDS GlobalData, TLC

CONSTANTS c1, c2, r1, r2

MCVersion ==
  [c \in {c1, c2, r1, r2} |->
     [major |-> 2, minor |-> IF c = r2 THEN 2 ELSE 1, preview |-> c \in {c1, c2}]]
MCSystems == {V(6, 1, 7601), V(6, 2, 9200), V(10, 0, 22631), V(6, 4, 9841)}
MCSections == UNION { [1 .. n -> {0, 1}] : n \in {0, 3, 5, 8} }
MCRoot == <<1, 1>>
MCEntry == <<1, 0, 1>>
MCSymmetry == Permutations({c1, c2}) \cup Permutations(Addresses)
=============================================================================
