CONSTANTS
  click1 = click1
  click2 = click2
  nightly = nightly
  old = old
  new = new
  bad = bad
  web = web
  Cron = cron
  Process = {web, cron}
  Worker = {click1, click2, nightly}
  ProcessOf <- MCProcessOf
  Position <- MCPosition
  NoWorker = NoWorker
  NoProcess = NoProcess
  Line = {new}
  Old = {}
  Malformed = {}
  Item = {beer}
  Version = {v1, v2}
  Absent = Absent
  MaxEdits = 1
SPECIFICATION Spec
INVARIANT MenuHistoryReplays
CHECK_DEADLOCK FALSE
