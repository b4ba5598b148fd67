CONSTANTS
  Thread = {t1, t2, t3}
  NoThread = NoThread
  MaxStrokes = 3
  MaxCrashes = 0
SPECIFICATION Spec
INVARIANT NothingSavedIsLost
CHECK_DEADLOCK FALSE
