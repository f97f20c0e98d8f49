---------------------------- MODULE MCUsageRunway ----------------------------
(* An instance of UsageRunway for TLC: rates as the relay rounds them. *)
EXTENDS UsageRunway, TLC

CONSTANTS a1, a2, tokens, cost

MCPlaces == [m \in Meter |-> IF m = tokens THEN 100 ELSE 1000000]
Symmetry == Permutations(Agent)
==============================================================================
