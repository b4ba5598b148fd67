CONSTANTS
  Price = {c1, c2, c3}
  Partner = {ann, bo}
  NoRow = NoRow
  NoPrice = NoPrice
  MaxDay = 2
  MaxLog = 4
SPECIFICATION Spec
SYMMETRY PriceSymmetry
INVARIANTS
  TypeOK
  HistoryEndsAtBook
PROPERTIES
  RepricingKeepsThePast
  UndoKeepsThePast
  BackdateAppliesFromReceipt
CHECK_DEADLOCK FALSE
