SPECIFICATION Spec
CONSTANTS
  Services <- TripleServices
  Ghosts = {"ghost"}
  Modules = {"stateful", "custom"}
  OtherModules = {"other"}
  PartOf <- PairPartOf
  FirstSite = "site"
  Clusters <- TripleClusters
  Cmds = {"move", "stop", "active", "return"}
  Selections <- TripleSelections
  Restrictions <- NoRestrictions
  InitModes <- TripleModes
  MaxMoves = 0
INVARIANTS
  EveryDependencyOrders
CHECK_DEADLOCK FALSE
