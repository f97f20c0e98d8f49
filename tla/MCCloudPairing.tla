--------------------------- MODULE MCCloudPairing ---------------------------
(***************************************************************************)
(* Instances of CloudPairing: alice creates the pairing, bob redeems its   *)
(* code, carol may be invited; all have holder keys and alice may          *)
(* attenuate.  The second item depends on the first; one of the texts      *)
(* gives it to carol.                                                      *)
(***************************************************************************)
EXTENDS CloudPairing, TLC

CONSTANTS alice, bob, carol, dave, ca, ca2, cb, cc, g1, g2, r1, r2

Agents == {alice, bob, carol, dave}
FoundingPair == {alice, bob}
AllCreds == {ca, ca2, cb, cc}
Holders == {alice, bob, carol}
AliceBobCreds == {ca, ca2, cb}
FoundingCreds == {ca, cb}
AliceCreds == {ca, ca2}
OnlyAlice == {alice}
MCCredOwner ==
    [c \in Cred |-> IF c = cb THEN bob ELSE IF c = cc THEN carol ELSE alice]
MCRoot ==
    [a \in V3 |-> IF a = bob THEN cb ELSE IF a = carol THEN cc ELSE ca]
MCChain == [c \in Cred |-> IF c = ca2 THEN {ca} ELSE {}]
MCOwner ==
    [g \in Goal |-> [i \in Item |-> IF i = 1 THEN alice ELSE IF g = g1 THEN bob ELSE carol]]
MCDependsOn == [g \in Goal |-> [i \in Item |-> IF i = 1 THEN {} ELSE {1}]]

Symmetry == Permutations(Req)
\* Neither carol nor dave has a credential or an item in the runs that use this.
RegistrySymmetry == Symmetry \cup Permutations({carol, dave})

=============================================================================
