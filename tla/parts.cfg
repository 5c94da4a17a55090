SPECIFICATION PartsSpec
CONSTANTS
  Users = {"u1"}
  NoUser = NoUser
  NeverSaved = NeverSaved
  JobCount = 2
  Earlier = {1}
  Patience = 2
  Gestures = {"submit", "select", "history"}
  MaxClicks = 2
  MaxErrors = 0
  Live = FALSE
  Parts = {"page", "failing page", "switching page", "composer", "references", "warnings", "credits", "console", "channels", "users", "gallery", "rules tab", "callsquare", "nest tasks", "nest accounts", "redemptions", "codes tab", "rules", "gateways", "contested gateways", "administrators"}
INVARIANTS
  PartsTypeOK
  OneTimer
  PageKeepsWaiting
  BriefIsTrue
  TrayShowsFiles
  WarningsAreRead
  PagesAreTrue
  TimerIsWanted
  MoneyFollowsStatus
  GrantedOnce
  OnlyRacesLockOut
  OnlyRacesSkip
  GatewaysAreSound
PROPERTIES
  DraftsSurvive
  BulkIsExact
  KeysAreReal
  RedemptionsAreSound
CHECK_DEADLOCK FALSE
