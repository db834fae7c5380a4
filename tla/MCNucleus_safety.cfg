\* Every invariant of the nucleus, with crash vectors and killed waiters.
SPECIFICATION Spec
CONSTANTS
  p1 = p1
  p2 = p2
  p3 = p3
  Proc = {p1, p2, p3}
  NoProc = NoProc
  Devices = {1}
  Clock = Clock
  UserSem = {u}
  NoSem = NoSem
  VectorTypes = {"PROGTRAP"}
  MAXSEMS = 3
  MaxSem = 1
  MaxDebt = 3
  MaxStray = 1
SYMMETRY ProcSymmetry
INVARIANTS
  TypeOK
  PcbConservation
  ProcCountExact
  TreeInv
  UserSemInv
  ClockInv
  DeviceWakeup
  SoftBlkExact
  IdleInv
  IdleVerdict
  NooseInv
PROPERTY WakeInOrder
