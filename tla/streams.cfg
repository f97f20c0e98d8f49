CONSTANTS
  alice = alice
  bob = bob
  shell = shell
  second = second
  watcher = watcher
  Agent = {alice, bob}
  Loop = {shell, watcher}
  Watch = {watcher}
  Viewer <- ViewerOf
  MaxChanges = 2
  MaxDrops = 2
  MaxRevocations = 1
SPECIFICATION FairSpec
INVARIANT TypeOK
INVARIANT InOrder
INVARIANT GapOnlyInWindow
INVARIANT RevokedIsCutOff
PROPERTY PlanForward
PROPERTY Reaches
CHECK_DEADLOCK FALSE
