SPECIFICATION SetupSpec
CONSTANTS
  i1 = i1
  i2 = i2
  w1 = w1
  w2 = w2
  c1 = c1
  c2 = c2
  t1 = t1
  t2 = t2
  t3 = t3
  t4 = t4
  NoTask = NoTask
  Free = Free
  Tasks = {t1, t2, t3, t4}
  Instances = {i1, i2}
  Workers = {w1, w2}
  Clients = {c1, c2}
  Host <- TwoInstances
  Late = {i2}
  MaxAttempts = 1
  QueueLimit = 1
  SyncTasks = {t3}
  SlowBeats = {t4}
  SlowFinish = TRUE
  ListCap = 1
  MaxCrashes = 1
  MaxErrors = 1
INVARIANTS
  OneWorkerPerTask
  WithinLimit
CHECK_DEADLOCK FALSE
