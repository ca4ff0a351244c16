SPECIFICATION Spec
CONSTANTS
  Targets = {"active"}
  Forces = {FALSE}
  AllowedLists = {{"up"}}
  InitModes = {"standby"}
  InitStatuses = {"done"}
  InitHealths = {"up"}
  Healths = {"up"}
  MaxPolls = 3
  Unnamed = FALSE
  Removable = FALSE
INVARIANTS
  HealthFailureIsReal
