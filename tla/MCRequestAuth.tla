--------------------------- MODULE MCRequestAuth ----------------------------
(* An instance of RequestAuth for TLC. *)
EXTENDS RequestAuth, TLC

Symmetry == Permutations(Proof) \cup Permutations(Text) \cup Permutations(Scope) \cup Permutations(Instance)
=============================================================================
