SPECIFICATION Spec
CONSTANTS
  Key = {k1, k2}
  Value = {v1, v2}
  Tombstone = Tombstone
  Garbled = Garbled
  NotFound = NotFound
  ReadError = ReadError
  SizeOf <- LargeRecords
  HeaderSize = 1
  Compactors = {c1}
  MaxSegmentSize = 4
  CompactorSegmentSize = 4
  CompactorBufferSize = 1
  StaleSegmentThreshold = 1
  DeletableKeys = {k1, k2}
  MaxSegments = 4
  CrashPhases <- AnyPhase
  FaultPhases <- NoFault
SYMMETRY KeySymmetry
INVARIANT
  ReadsLatest
