SPECIFICATION Spec
CONSTANTS
  Inst = {i1, i2}
  Sess = {r1}
  Warmers = {}
  Web = {w1}
  Slots = {s1, s2}
  Entries = {e1}
  PerUserCap = 1
  MaxStrikes = 1
  InitialRows = {"on"}
  WebOps = {"disable", "enable"}
  Sandboxed = FALSE
  Reaping = FALSE
  DeepWarm = TRUE
  DbFaults = FALSE
  Contended = FALSE
  MaxEpoch = 0
  NoEntry = NoEntry
  NoSess = NoSess
SYMMETRY Symmetry
INVARIANTS
  WithinUserCap
PROPERTIES
  HeartbeatSparesRespawns
