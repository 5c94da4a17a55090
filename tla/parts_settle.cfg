SPECIFICATION FairPartsSpec
CONSTANTS
  Users = {"u1"}
  NoUser = NoUser
  NeverSaved = NeverSaved
  JobCount = 1
  Earlier = {}
  Patience = 2
  Gestures = {"submit"}
  MaxClicks = 2
  MaxErrors = 0
  Live = TRUE
  Parts = {"reloading page", "console", "warnings", "nest tasks", "rules"}
PROPERTIES
  PollingEnds
  CachesCatchUp
  LoadedWarningsDrain
  EveryTaskEnds
CHECK_DEADLOCK FALSE
