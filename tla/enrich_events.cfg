SPECIFICATION Spec
CONSTANTS
  Session = {s1, s2}
  Event = {e1, e2}
  Feature = {f1, f2}
  Remote = {e2}
  MaskEvents = 1
  MaxOps = 3
  MaxRefreshes = 1
SYMMETRY Interchangeable
INVARIANTS
  TypeOK
  StoredExposureReadable
  LabelHasRow
  RowsOfOneComputation
PROPERTIES
  KeysLostOnlyByOverlap
  CompleteGenerationStays
CHECK_DEADLOCK FALSE
