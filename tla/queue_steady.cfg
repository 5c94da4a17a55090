SPECIFICATION FairSpec
CONSTANTS
  i1 = i1
  i2 = i2
  w1 = w1
  w2 = w2
  c1 = c1
  c2 = c2
  NoTask = NoTask
  Free = Free
  Tasks = {t1, t2}
  Instances = {i1}
  Workers = {w1, w2}
  Clients = {c1, c2}
  Host <- OneInstance
  Late = {}
  MaxAttempts = 3
  QueueLimit = 2
  SyncTasks = {}
  SlowBeats = {}
  SlowFinish = FALSE
  ListCap = 0
  MaxCrashes = 0
  MaxErrors = 0
INVARIANTS
  TypeOK
  NothingForgotten
  AttemptsBounded
  DeadLettersHaveFailed
  NothingHeldAfterwards
PROPERTIES
  EventuallySettled
CHECK_DEADLOCK FALSE
