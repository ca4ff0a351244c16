SPECIFICATION FairSpec
CONSTANTS
  Targets = {"active", "standby"}
  Forces = {FALSE, TRUE}
  AllowedLists = {{"up"}}
  InitModes = {"active", "standby", "disable"}
  InitStatuses = {"done", "failed", "running"}
  InitHealths = {"up", "down"}
  Healths = {"up", "degraded"}
  MaxPolls = 3
  Unnamed = TRUE
  Removable = TRUE
INVARIANTS
  TypeOK
  SuccessIsReal
  DeliveredOnce
PROPERTIES
  PhaseEnds
  RefinesServicePhase
