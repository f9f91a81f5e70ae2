SPECIFICATION FairSpec
CONSTANTS
  p1 = p1  p2 = p2  p3 = p3  c1 = c1  NoServer = NoServer
  Servers = {p1, p2, p3}
  NumMigrations = 3
  Build <- Mixed
  Colliding <- First
  Commands = {c1}
  OneAtATime = {TRUE, FALSE}
  MaxDeaths = 2
  MaxStops = 1
CONSTRAINT Scope
INVARIANTS
  AppliedOnce
  InOrder
  SchemaIsThere
  OrphansClosed
PROPERTIES
  OnlyThePastIsClosed
  ComesUp
