\* Four processes: trees of depth four, and siblings that must survive.
SPECIFICATION Spec
CONSTANTS
  p1 = p1
  p2 = p2
  p3 = p3
  p4 = p4
  Proc = {p1, p2, p3, p4}
  NoProc = NoProc
  Devices = {}
  Clock = Clock
  UserSem = {u}
  NoSem = NoSem
  VectorTypes = {}
  MAXSEMS = 4
  MaxSem = 0
  MaxDebt = 2
  MaxStray = 1
SYMMETRY ProcSymmetry
PROPERTY ImplementsTable
