SPECIFICATION Spec
CONSTANTS
  Resources <- BothApis
  Full <- FullName
  Short <- ShortName
  Aliases = {"db", "db.b"}
  NoAlias = "none"
  Histories <- SomeHistories
  Clients = {c1, c2}
  MaxEdits = 2
  MaxRestarts = 1
  c1 = c1
  c2 = c2
INVARIANTS
  TypeOK
  TwinsUnseen
PROPERTIES
  StatusIsCurrent
  StatusesSettle
CHECK_DEADLOCK FALSE
