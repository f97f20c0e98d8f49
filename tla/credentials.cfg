CONSTANTS
    k0 = k0
    k1 = k1
    k2 = k2
    Agent = {a1, a2}
    Jti = {j1, j2, j3}
    NoJti = NoJti
    NoPayload = NoPayload
    Key = {k0, k1}
    FirstKey = k0
    Scope = {s1}
    MaxTtl = 2
    DefaultTtl = 2
    MaxDepth = 2
    RenewWindow = 1
    Hosts = {"node", "cloud"}
    MaxTime = 3
SPECIFICATION Spec
SYMMETRY Symmetry
INVARIANTS TypeOK RotationKeepsLive Narrowing
PROPERTIES OnceDeadStaysDead
CHECK_DEADLOCK FALSE
