---------------------------- MODULE MCCredentials ----------------------------
(***************************************************************************)
(* Instances of Credentials: seconds stand for the code's hours, with the  *)
(* ceiling above the default lifetime.                                     *)
(***************************************************************************)
EXTENDS Credentials, TLC

CONSTANTS k0, k1, k2

\* Keys are generated in any order; jtis, agents and scopes are alike.
Symmetry ==
    Permutations(Key \ {FirstKey}) \cup Permutations(Jti)
        \cup Permutations(Agent) \cup Permutations(Scope)

=============================================================================
