CONSTANTS
  Code = {c1, c2, c3}
  Pairing = {p1, p2}
  Agent = {a1, a2, a3, a4}
  Client = {k}
  NoPairing = NoPairing
  Nobody = Nobody
  MaxMembers = 3
  TTL = 1
  MaxFailures = 2
  Window = 2
  MaxTime = 2
  MaxCrashes = 1
SPECIFICATION Spec
SYMMETRY Symmetry
INVARIANT TypeOK
INVARIANT OneShot
INVARIANT JoinIsWhole
INVARIANT GuessesAreBounded
PROPERTY SweepKeepsLive
CHECK_DEADLOCK FALSE
