CONSTANTS
    alice = alice
    bob = bob
    carol = carol
    ca = ca
    ca2 = ca2
    cb = cb
    cc = cc
    Agent <- Agents
    Founders <- FoundingPair
    CredOwner <- MCCredOwner
    Cred <- RootCreds
    V3 <- Agents
    Root <- MCRoot
    MaxMembers = 2
    AgentRunConfigured = TRUE
    Req = {r1, r2}
    Goal = {g1, g2}
    NoGoal = NoGoal
    Sandbox = {s1}
    Simulated = Simulated
    NoHandle = NoHandle
    NoCred = NoCred
    MaxVersion = 1
    MaxRestarts = 1
SPECIFICATION FairSpec
INVARIANTS TypeOK ConsentEvidence AuditTruth
PROPERTIES HandlersReturn
CHECK_DEADLOCK FALSE
