CONSTANTS
  p1 = p1
  v0 = v0
  v1 = v1
  NoRow = NoRow
  NoSession = NoSession
  Pk = {p1}
  Value = {v0, v1}
  Default = v0
  Measured = v0
  Estimate = v1
  Estimated = v1
  Session = {s1, s2}
  Seed <- MCSeed
  SeedBucket <- MCSeedBucket
  MaxTouched = 2
  MaxEdits = 3
  MaxLog = 5
SPECIFICATION Spec
SYMMETRY SessionSymmetry
CONSTRAINT OneIsABucket
INVARIANTS
  TypeOK
  Journal
PROPERTIES
  NewestUndoIsExact
  SessionUndoRestores
  SessionUndoSparesOthers
