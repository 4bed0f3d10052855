SPECIFICATION Spec
CONSTANTS
  User = {u1, u2}
  Code = {c1}
  Key = {k1, k2}
  Sess = {s1}
  Flow = {f1, f2}
  CeremonyCap = 1
  MaxSlot = 2
  MaxHalfway = 1
  OpenReg = FALSE
  Faults = TRUE
  None = None
SYMMETRY Symmetry
CHECK_DEADLOCK FALSE
PROPERTIES
  DisabledStaysOut
