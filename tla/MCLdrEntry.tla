----------------------------- MODULE MCLdrEntry -----------------------------
(* Three entries, so that a target's ring has a head, a tail and a node     *)
(* between them; two targets, so that an owner has more than one dependency. *)
EXTENDS LdrEntry

Seven == 610
MCVersions == {Seven, Eight, Ten}
MCSymmetry == Permutations(Entries) \cup Permutations(Blocks) \cup Permutations(Natives)
=============================================================================
