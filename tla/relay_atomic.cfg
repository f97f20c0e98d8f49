CONSTANTS
    alice = alice
    bob = bob
    carol = carol
    ca = ca
    ca2 = ca2
    cb = cb
    cc = cc
    Agent <- Agents
    Founders <- FoundingPair
    CredOwner <- MCCredOwner
    Cred <- AllCreds
    V3 <- Agents
    Root <- MCRoot
    MaxMembers = 3
    AgentRunConfigured = FALSE
    Req = {r1}
    Goal = {g1, g2}
    NoGoal = NoGoal
    Sandbox = {s1}
    Simulated = Simulated
    NoHandle = NoHandle
    NoCred = NoCred
    MaxVersion = 2
    MaxRestarts = 1
SPECIFICATION Spec
SYMMETRY Symmetry
INVARIANTS AgreementIsInformed NoRevokedApproval ConsentIsCurrent
PROPERTIES KeepsThePromise
CHECK_DEADLOCK FALSE
