SPECIFICATION Spec
CONSTANTS
  Services <- PairServices
  Ghosts = {"ghost"}
  Modules = {"stateful", "custom"}
  OtherModules = {"other"}
  PartOf <- PairPartOf
  FirstSite = "site"
  Clusters <- PairClusters
  Cmds = {"move", "stop", "active", "return"}
  Selections <- PairSelections
  Restrictions <- PairRestrictions
  InitModes <- PairModes
  MaxMoves = 1
INVARIANTS
  TypeOK
  GraphsRunnable
  StopSurvives
  SwitchoverAgrees
  RestrictionsHold
  EveryServiceAccounted
CHECK_DEADLOCK FALSE
