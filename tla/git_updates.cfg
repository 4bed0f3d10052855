SPECIFICATION FairSpec
CONSTANTS
  Inst = {i1}
  Commit = {c1, c2}
  Handler = {h1, h2}
  MaxOps = 2
  MaxLapses = 1
  None = None
  Spoiled = Spoiled
CHECK_DEADLOCK FALSE
INVARIANTS
  TypeOK
  EnvIsOneBuild
  RecordedIsBuilt
  RebuildRelaunches
  NothingLingers
PROPERTIES
  ImplementsDeployment
  BuildTurnEnds
  StatusForgotten
