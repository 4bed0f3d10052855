SPECIFICATION Spec
CONSTANTS
  Inst = {i1}
  Sess = {r1}
  Warmers = {}
  Web = {w1}
  Slots = {s1, s2, s3, s4}
  Entries = {e1}
  PerUserCap = 2
  MaxStrikes = 2
  InitialRows = {"on"}
  WebOps = {"disable", "restart"}
  Sandboxed = FALSE
  Reaping = FALSE
  DeepWarm = FALSE
  DbFaults = FALSE
  Contended = FALSE
  MaxEpoch = 1
  NoEntry = NoEntry
  NoSess = NoSess
SYMMETRY Symmetry
INVARIANTS
  DisabledNotServed
