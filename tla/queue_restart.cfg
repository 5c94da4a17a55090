SPECIFICATION Spec
CONSTANTS
  i1 = i1
  i2 = i2
  w1 = w1
  w2 = w2
  c1 = c1
  c2 = c2
  NoTask = NoTask
  Free = Free
  Tasks = {t1}
  Instances = {i1}
  Workers = {w1}
  Clients = {c1}
  Host <- OneInstance
  Late = {}
  MaxAttempts = 1
  QueueLimit = 1
  SyncTasks = {}
  SlowBeats = {}
  SlowFinish = FALSE
  ListCap = 2
  MaxCrashes = 1
  MaxErrors = 0
INVARIANTS
  RecoveredAtStart
CHECK_DEADLOCK FALSE
