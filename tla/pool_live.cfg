SPECIFICATION FairSpec
CONSTANTS
  Inst = {i1}
  Sess = {r1, r2}
  Warmers = {r1}
  Web = {w1}
  Slots = {s1, s2, s3}
  Entries = {e1}
  PerUserCap = 1
  MaxStrikes = 2
  InitialRows = {"on"}
  WebOps = {"restart","edit"}
  Sandboxed = FALSE
  Reaping = FALSE
  DeepWarm = TRUE
  DbFaults = FALSE
  Contended = FALSE
  MaxEpoch = 1
  NoEntry = NoEntry
  NoSess = NoSess
INVARIANTS
  EditHonoured
PROPERTIES
  ImplementsSupervisor
  RequestAnswered
  EnabledComesBack
