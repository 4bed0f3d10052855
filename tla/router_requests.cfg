SPECIFICATION Spec
CONSTANTS
  u1 = u1
  u2 = u2
  i1 = i1
  i2 = i2
  p1 = p1
  User = {u1, u2}
  Inst = {i1, i2}
  Owner <- MCOwner
  Space <- MCSpace
  Tool <- MCTool
  Gid = {g1, g2}
  Pat = {p1}
  Holder <- MCHolder
  Client = {c1}
  Sess = {s1}
  Task = {q1, q2}
  Faults = TRUE
  MaxOps = 2
  None = None
SYMMETRY Symmetry
CHECK_DEADLOCK FALSE
INVARIANTS
  TypeOK
  GrantedDuringRequest
  RoutedAsListed
  StaleListIsTold
  ManagesAsCaller
