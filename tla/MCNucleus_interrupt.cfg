\* The interrupt of a killed device waiter hits the process that runs.
SPECIFICATION Spec
CONSTANTS
  p1 = p1
  p2 = p2
  p3 = p3
  Proc = {p1, p2, p3}
  NoProc = NoProc
  Devices = {1}
  Clock = Clock
  UserSem = {}
  NoSem = NoSem
  VectorTypes = {}
  MAXSEMS = 3
  MaxSem = 1
  MaxDebt = 2
  MaxStray = 1
SYMMETRY ProcSymmetry
PROPERTY InterruptHarmless
