CONSTANTS
  Thread = {t1, t2, t3}
  NoThread = NoThread
  MaxStrokes = 3
  MaxCrashes = 1
SPECIFICATION Spec
INVARIANT TypeOK
PROPERTIES
  LockedStrokesAreAtomic
  StrokesReturn
CHECK_DEADLOCK FALSE
