SPECIFICATION Spec
CONSTANTS
  u1 = u1
  t1 = t1
  t2 = t2
  t3 = t3
  k1 = k1
  NoKey = NoKey
  NoTask = NoTask
  NoThread = NoThread
  Users = {u1}
  Keys = {k1}
  Tasks = {t1, t2, t3}
  Threads = {p1, p2}
  ExternalUrls = {}
  Owner <- MCOwner
  Key <- MCRepeated
  ImageCount <- MCOneImage
  Cost <- MCCostTwo
  InitialCredits <- MCThreeCredits
  Adjustments <- MCAdjustments
  CreditCap = 3
SYMMETRY ThreadSymmetry
INVARIANTS
  TypeOK
  SettledExactlyOnce
  CreditsConserved
  OneTaskPerKey
PROPERTIES
  HoldNeverOverdraws
  SettledIsFinal
  ImplementsCreditAccount
