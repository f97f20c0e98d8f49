CONSTANTS
  Call = {c1, c2}
  CommandsRun = run
  OtherScope = {other}
  MaxIdentities = 2
  MaxChanges = 2
SPECIFICATION FairSpec
INVARIANT TypeOK
INVARIANT GateSawAgreement
PROPERTY CallEnds
CHECK_DEADLOCK FALSE
