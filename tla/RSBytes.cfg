SPECIFICATION Spec
CONSTANTS
  Environments <- SomeEnvironments
  Puts <- SomePuts
  Deletes <- SomeDeletes
  CutPoints <- SomeCuts
  NotFound = NotFound
  ReadError = ReadError
  MaxAppends = 3
  MaxKills = 1
  MaxFaults = 2
CHECK_DEADLOCK FALSE
INVARIANTS
  OffsetIsEnd
  ReadsAcknowledged
  KillKeepsPrefix
  StartFailsForCause
  CloseKeepsAll
PROPERTY
  RefusedWritesUnseen
