CONSTANTS
  Price = {c1, c2, c3}
  Partner = {ann, bo}
  NoRow = NoRow
  NoPrice = NoPrice
  MaxDay = 3
  MaxLog = 3
SPECIFICATION Spec
PROPERTY UndoTakesEffectToday
CHECK_DEADLOCK FALSE
