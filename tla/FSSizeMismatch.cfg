SPECIFICATION Spec
CONSTANTS
  Key = {k1, k2}
  Value = {v1}
  Tombstone = Tombstone
  Garbled = Garbled
  NotFound = NotFound
  ReadError = ReadError
  SizeOf <- SmallRecords
  HeaderSize = 1
  Compactors = {c1}
  MaxSegmentSize = 4
  CompactorSegmentSize = 1
  CompactorBufferSize = 1
  StaleSegmentThreshold = 1
  DeletableKeys = {k1, k2}
  MaxSegments = 4
  CrashPhases <- NoCrash
  FaultPhases <- NoFault
SYMMETRY KeySymmetry
INVARIANT
  ReadsLatest
