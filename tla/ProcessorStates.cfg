\* Two processes with a semaphore and a device, handlers for two exceptions.
SPECIFICATION SSpec
CONSTANTS
  Proc = {p1, p2}
  NoProc = NoProc
  Devices = {0}
  Clock = Clock
  UserSem = {mutex}
  NoSem = NoSem
  VectorTypes = {"PROGTRAP", "SYSTRAP"}
  MAXSEMS = 3
  MaxSem = 1
  MaxDebt = 1
  MaxStray = 1
  Dead = Dead
  MaxPC = 3
  MaxHPC = 1
  Advance = 1
SYMMETRY Symmetry
INVARIANT InSequence
PROPERTY OwnProcessor
