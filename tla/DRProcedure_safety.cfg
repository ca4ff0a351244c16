SPECIFICATION FairSpec
CONSTANTS
  Services <- FlowServices
  Modules <- FlowModules
  ModuleOf <- FlowModuleOf
  After <- FlowAfter
  SequenceOf <- FlowSequence
  Flow <- FlowFlow
  Lenient = {"app"}
  FirstSite = "site"
  Clusters <- FlowClusters
  Selected <- FlowServices
  Cmds = {"move", "stop", "active", "standby", "return", "disable"}
  Forces = {FALSE, TRUE}
  InitModes <- FlowModes
  Removable <- FlowRemovable
  Unnamed = TRUE
INVARIANTS
  TypeOK
  DependenciesAreOk
  SkippedHasCause
  FailureStopsFlow
  ResultListsDisjoint
  NeverActiveTwice
  ReportedIsApplied
  EveryServiceReported
  DeadBlocksEnd
PROPERTIES
  SurvivorsReport
  OnlyDeathBlocks
  BlemishesStay
  RefinesOrderedExecution
CHECK_DEADLOCK FALSE
