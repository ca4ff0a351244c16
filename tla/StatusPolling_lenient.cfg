SPECIFICATION Spec
CONSTANTS
  Targets = {"standby"}
  Forces = {FALSE}
  AllowedLists = {{"up", "down"}}
  InitModes = {"active"}
  InitStatuses = {"done"}
  InitHealths = {"up", "down"}
  Healths = {"up"}
  MaxPolls = 3
  Unnamed = FALSE
  Removable = FALSE
INVARIANTS
  SuccessIsReal
