SPECIFICATION Spec
CONSTANTS
  Data = {d1, d2}
  HeaderSize = 2
  SizeOf <- EntrySizes
  CutPoints <- AnyCut
  MaxEntries = 4
  MaxKills = 3
  MaxShort = 1
CHECK_DEADLOCK FALSE
INVARIANTS
  TypeOK
  IndexesContiguous
  IntactLogKeepsAcked
  AlignedLocationsHold
PROPERTIES
  AckedNeverReassigned
  AnswersStay
