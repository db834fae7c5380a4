\* SYS2 of a process that never blocked.
SPECIFICATION FairSpec
CONSTANTS
  p1 = p1
  p2 = p2
  p3 = p3
  Proc = {p1, p2}
  NoProc = NoProc
  Devices = {}
  Clock = Clock
  UserSem = {}
  NoSem = NoSem
  VectorTypes = {}
  MAXSEMS = 3
  MaxSem = 1
  MaxDebt = 2
  MaxStray = 1
PROPERTY TerminateKills
