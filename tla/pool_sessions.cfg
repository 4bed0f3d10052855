SPECIFICATION Spec
CONSTANTS
  Inst = {i1}
  Sess = {r1, r2}
  Warmers = {}
  Web = {w1}
  Slots = {s1, s2}
  Entries = {e1}
  PerUserCap = 2
  MaxStrikes = 3
  InitialRows = {"on", "absent"}
  WebOps = {"create", "enable", "disable", "restart", "delete"}
  Sandboxed = TRUE
  Reaping = TRUE
  DeepWarm = FALSE
  DbFaults = TRUE
  Contended = TRUE
  MaxEpoch = 1
  NoEntry = NoEntry
  NoSess = NoSess
SYMMETRY Symmetry
INVARIANTS
  TypeOK
  NoDuplicateBackends
  TrackedBackends
  ConnectingIsReal
  InSnapshotOrAnnounced
  RestartHonoured
  DisableHonoured
