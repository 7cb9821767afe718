SPECIFICATION FairSpec
CONSTANTS
  Requests = {r1, r2}
  Loop = Loop
  Environments <- SomeEnvironments
CHECK_DEADLOCK FALSE
INVARIANTS
  TypeOK
  LoopEndsFirst
  QuietAfterDrain
PROPERTIES
  ShutdownEnds
  RequestsAnswered
  BacklogScanned
