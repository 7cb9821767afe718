SPECIFICATION Spec
CONSTANTS
  Key = {k1, k2}
  Value = {v1, v2}
  Tombstone = Tombstone
  Garbled = Garbled
  NotFound = NotFound
  ReadError = ReadError
  SizeOf <- LargeRecords
  HeaderSize = 1
  Compactors = {c1}
  MaxSegmentSize = 4
  CompactorSegmentSize = 10
  CompactorBufferSize = 1
  StaleSegmentThreshold = 1
  DeletableKeys = {}
  MaxSegments = 5
  CrashPhases <- AnyPhase
  FaultPhases <- AnyFault
SYMMETRY KeySymmetry
INVARIANT
  CrashLosesNothing
