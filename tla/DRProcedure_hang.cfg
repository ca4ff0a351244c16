SPECIFICATION FairSpec
CONSTANTS
  Services <- GraphServices
  Modules <- GraphModules
  ModuleOf <- GraphModuleOf
  After <- GraphAfter
  SequenceOf <- GraphSequence
  Flow <- GraphFlow
  Lenient = {}
  FirstSite = "site"
  Clusters <- GraphClusters
  Selected <- GraphServices
  Cmds = {"move"}
  Forces = {FALSE}
  InitModes <- GraphModes
  Removable <- NoRemovable
  Unnamed = TRUE
PROPERTIES
  EveryThreadReports
CHECK_DEADLOCK FALSE
