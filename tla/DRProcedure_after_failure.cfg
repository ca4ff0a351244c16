SPECIFICATION Spec
CONSTANTS
  Services <- GraphServices
  Modules <- GraphModules
  ModuleOf <- GraphModuleOf
  After <- GraphAfter
  SequenceOf <- GraphSequence
  Flow <- GraphFlow
  Lenient = {}
  FirstSite = "site"
  Clusters <- GraphClusters
  Selected <- GraphServices
  Cmds = {"move"}
  Forces = {FALSE}
  InitModes <- GraphModes
  Removable <- NoRemovable
  Unnamed = FALSE
PROPERTIES
  NoStartAfterFailure
