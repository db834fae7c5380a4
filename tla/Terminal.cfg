\* Disks, printers and terminals, a terminal reading or writing.
SPECIFICATION Spec
CONSTANTS
  Lines = {3, 6, 7}
  DevNums = {0, 1}
  MAXSEMS = 49
  OneActive = TRUE
INVARIANTS
  WaitersCounted
  AwaitedInPlace
PROPERTIES
  OwnCompletion
  EveryoneReleased
