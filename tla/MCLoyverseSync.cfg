CONSTANTS
  click1 = click1
  click2 = click2
  nightly = nightly
  old = old
  new = new
  bad = bad
  web = web
  Cron = cron
  Process = {web, cron}
  Worker = {click1, click2, nightly}
  ProcessOf <- MCProcessOf
  Position <- MCPosition
  NoWorker = NoWorker
  NoProcess = NoProcess
  Line = {old, new, bad}
  Old = {old}
  Malformed = {bad}
  Item = {beer}
  Version = {v1}
  Absent = Absent
  MaxEdits = 1
SPECIFICATION Spec
INVARIANTS
  TypeOK
  SalesOnce
  DiffIsFreshInProcess
PROPERTIES
  GoodSyncIsComplete
  SalesArrive
  MenuConverges
CHECK_DEADLOCK FALSE
