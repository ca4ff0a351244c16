SPECIFICATION FairSpec
CONSTANTS
  Services = {"a", "b", "c"}
  NoName = "none"
  LegacyLists <- SomeLegacyLists
  NewLists <- SomeNewLists
  MaxRotations = 2
  MaxFailures = 1
INVARIANTS
  TypeOK
  TokenAccepted
  StatusIsClosure
  MissingIsReal
PROPERTIES
  TokenArrives
  StatusEnds
  MovedServiceIsSeen
