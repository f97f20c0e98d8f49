CONSTANTS
    alice = alice
    bob = bob
    carol = carol
    dave = dave
    ca = ca
    ca2 = ca2
    cb = cb
    cc = cc
    g1 = g1
    g2 = g2
    r1 = r1
    r2 = r2
    Agent <- Agents
    Founders <- FoundingPair
    Creator = alice
    CredOwner <- MCCredOwner
    Cred <- AliceCreds
    V3 <- OnlyAlice
    Root <- MCRoot
    Chain <- MCChain
    Goal = {}
    NoGoal = NoGoal
    NoCred = NoCred
    Item = {}
    Owner <- MCOwner
    DependsOn <- MCDependsOn
    Req = {r1, r2}
    MaxMembers = 3
    MaxVersion = 0
    MaxInvites = 1
    MaxCrashes = 1
SPECIFICATION Spec
SYMMETRY RegistrySymmetry
INVARIANTS TypeOK RevokedIsDead
CHECK_DEADLOCK FALSE
