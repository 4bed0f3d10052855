SPECIFICATION Spec
CONSTANTS
  Code = {g1, g2}
  Tok = {t1, t2, t3}
  Req = {q1, q2}
  CodeCap = 1
  Retry = TRUE
  Faults = TRUE
  AuthCode = AuthCode
  None = None
SYMMETRY Symmetry
CHECK_DEADLOCK FALSE
INVARIANTS
  OneLivePerFamily
  CutIsFinal
PROPERTIES
  NoRevival
