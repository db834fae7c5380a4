\* Can GETCPUTIME go back?
SPECIFICATION CSpec
CONSTANTS
  Proc = {1, 2}
  NoProc = NoProc
  Devices = {0}
  Clock = Clock
  UserSem = {}
  NoSem = NoSem
  VectorTypes = {}
  MAXSEMS = 2
  MaxSem = 1
  MaxDebt = 2
  MaxStray = 1
  QUANTUMTIME = 2
  INTERVALTIME = 3
  MAXINT = 9
  HandlerTimes = {1, 2}
  MaxCuts = 0
  W = 8
PROPERTY ReadingsGrow
