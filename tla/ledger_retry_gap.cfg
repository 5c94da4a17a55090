SPECIFICATION Spec
CONSTANTS
  u1 = u1
  t1 = t1
  t2 = t2
  t3 = t3
  k1 = k1
  NoKey = NoKey
  NoTask = NoTask
  NoThread = NoThread
  Users = {u1}
  Keys = {k1}
  Tasks = {t1}
  Threads = {p1}
  ExternalUrls = {}
  Owner <- MCOwner
  Key <- MCNoKey
  ImageCount <- MCTwoImages
  Cost <- MCCostTwo
  InitialCredits <- MCThreeCredits
  Adjustments <- MCNoAdjustments
  CreditCap = 3
PROPERTIES
  EveryImageIsKept
CHECK_DEADLOCK FALSE
