SPECIFICATION FairSpec
CONSTANTS
  Inst = {i1}
  Sess = {r1}
  Warmers = {r1}
  Web = {w1}
  Slots = {s1, s2, s3, s4}
  Entries = {e1}
  PerUserCap = 1
  MaxStrikes = 2
  InitialRows = {"on"}
  WebOps = {}
  Sandboxed = FALSE
  Reaping = FALSE
  DeepWarm = FALSE
  DbFaults = FALSE
  Contended = FALSE
  MaxEpoch = 1
  NoEntry = NoEntry
  NoSess = NoSess
PROPERTIES
  EnabledComesBack
