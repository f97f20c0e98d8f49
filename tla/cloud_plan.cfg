CONSTANTS
    alice = alice
    bob = bob
    carol = carol
    dave = dave
    ca = ca
    ca2 = ca2
    cb = cb
    cc = cc
    g1 = g1
    g2 = g2
    r1 = r1
    r2 = r2
    Agent <- FoundingPair
    Founders <- FoundingPair
    Creator = alice
    CredOwner <- MCCredOwner
    Cred <- FoundingCreds
    V3 <- FoundingPair
    Root <- MCRoot
    Chain <- MCChain
    Goal = {g1}
    NoGoal = NoGoal
    NoCred = NoCred
    Item = {1}
    Owner <- MCOwner
    DependsOn <- MCDependsOn
    Req = {r1, r2}
    MaxMembers = 3
    MaxVersion = 2
    MaxInvites = 0
    MaxCrashes = 0
SPECIFICATION Spec
SYMMETRY Symmetry
INVARIANTS ConsentEvidence AgreementIsInformed WorkIsAgreed
CHECK_DEADLOCK FALSE
