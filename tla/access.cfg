CONSTANTS
  Proof = {p1}
  Text = {t1, t2}
  Scope = {s1, s2}
  Instance = {i1}
  Never = Never
  Window = 1
  StreamWindow = 0
  MaxSkew = 2
  MaxTime = 3
  MaxRestarts = 1
  MaxHandling = 2
SPECIFICATION Spec
SYMMETRY Symmetry
INVARIANT TypeOK
INVARIANT AdmittedOnce
INVARIANT StrippedIsGone
CHECK_DEADLOCK FALSE
