\* Round robin with the timers as the nucleus sets them.
SPECIFICATION TFairSpec
CONSTANTS
  Proc = {1, 2}
  NoProc = NoProc
  Devices = {0}
  Clock = Clock
  UserSem = {}
  NoSem = NoSem
  VectorTypes = {"PROGTRAP"}
  MAXSEMS = 2
  MaxSem = 1
  MaxDebt = 2
  MaxStray = 1
  QUANTUMTIME = 2
  INTERVALTIME = 5
  MAXINT = 6
  HandlerTimes = {1}
  MaxCuts = 2
INVARIANTS
  TimerInv
  QuantumBound
PROPERTIES
  NoStarvation
  ClockReleases
  DeviceReleases
  TerminationCompletes
