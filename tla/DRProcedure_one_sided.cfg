SPECIFICATION Spec
CONSTANTS
  Services <- FlowServices
  Modules <- FlowModules
  ModuleOf <- FlowModuleOf
  After <- FlowAfter
  SequenceOf <- FlowSequence
  Flow <- FlowFlow
  Lenient = {}
  FirstSite = "site"
  Clusters <- OneSidedClusters
  Selected <- FlowServices
  Cmds = {"stop"}
  Forces = {FALSE}
  InitModes <- FlowModes
  Removable <- NoRemovable
  Unnamed = FALSE
INVARIANTS
  ReportedIsApplied
