---------------------------- MODULE MCRelayPlan ----------------------------
(***************************************************************************)
(* Instances of RelayPlan: alice and bob found the pairing, carol may join *)
(* through an invite.  alice may attenuate a second credential.            *)
(***************************************************************************)
EXTENDS RelayPlan, TLC

CONSTANTS alice, bob, carol, ca, ca2, cb, cc

Agents == {alice, bob, carol}
FoundingPair == {alice, bob}
AllCreds == {ca, ca2, cb, cc}
RootCreds == {ca, cb, cc}
FoundingCreds == {ca, cb}
MCCredOwner ==
    [c \in Cred |-> IF c = cb THEN bob ELSE IF c = cc THEN carol ELSE alice]
MCRoot ==
    [a \in V3 |-> IF a = bob THEN cb ELSE IF a = carol THEN cc ELSE ca]

\* Texts, sandboxes and request slots are interchangeable.
Symmetry ==
    Permutations(Goal) \cup Permutations(Sandbox) \cup Permutations(Req)

=============================================================================
