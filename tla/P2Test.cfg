\* The whole test, the terminal being slower than the way to WAITIO.
SPECIFICATION P2FairSpec
CONSTANTS
  term_mut = term_mut
  testsem = testsem
  startp2 = startp2
  endp2 = endp2
  endp3 = endp3
  blkp4 = blkp4
  synp4 = synp4
  endp4 = endp4
  endp5 = endp5
  endp8 = endp8
  endcreate = endcreate
  blkp8 = blkp8
  s0 = s0
  Terminal = 0
  SlowTerminal = TRUE
  MAXSEM = 20
  MSGLEN = 1
  CLOCKLOOP = 10
  P8LOOP = 4
  Proc = {1, 2, 3, 4, 5, 6, 7, 8, 9}
  NoProc = NoProc
  Devices = {0}
  Clock = Clock
  UserSem = {term_mut, testsem, startp2, endp2, endp3, blkp4, synp4, endp4, endp5, endp8, endcreate, blkp8, s0}
  NoSem = NoSem
  VectorTypes = {"TLBTRAP", "PROGTRAP", "SYSTRAP"}
  MAXSEMS = 14
  MaxSem = 4
  MaxDebt = 4
  MaxStray = 1
INVARIANTS
  TestPasses
  TerminalMutex
  TerminalHeld
  TerminalServed
  P4DeadBeforeV
  KillsAreSafe
PROPERTIES
  PrintersSurvive
  TestHalts
