CONSTANTS
  Supplier = {makro}
  Name = {n1, n2}
  Bucket = {taps, ice}
  Seeded = {taps}
  Absent = Absent
  Worker = {w1, w2}
  MaxRow = 2
  MaxLog = 4
SPECIFICATION Spec
SYMMETRY WorkerSymmetry
INVARIANTS
  TypeOK
  EnforcedReferences
  OrderlyRequestsKeepBuckets
PROPERTIES
  LiveVocabulary
  DeletesSpareUsedSuppliers
CHECK_DEADLOCK FALSE
