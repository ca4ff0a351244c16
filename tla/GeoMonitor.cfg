SPECIFICATION FairSpec
CONSTANTS
  Names = {"east", "west"}
  Peers = {"p", "q"}
  Addresses = {"a1", "a2"}
  NoAnswer = "none"
  Other = "other"
  InitialPods <- SomePods
  MaxPeers = 2
  Deployments <- SomeDeployments
  Reports <- SomeReports
  Resources <- SomeResources
  Timeout = 1
  MaxClock = 2
INVARIANTS
  TypeOK
  GaugesAreReal
  TornOnlyInFlux
  BgpShowsList
PROPERTIES
  GaugesFollow
