--------------------------- MODULE MCPairingCodes ---------------------------
(* An instance of PairingCodes for TLC. *)
EXTENDS PairingCodes, TLC

\* Codes, agents, pairings and clients are interchangeable.
Symmetry == Permutations(Code) \cup Permutations(Agent) \cup Permutations(Pairing)
=============================================================================
