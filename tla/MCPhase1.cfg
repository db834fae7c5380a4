\* Four PCBs in two queues and a tree; three semaphores, two descriptors.
SPECIFICATION Phase1Spec
CONSTANTS
  MAXPROC = 4
  pcbFree = pcbFree
  Queue = {pcbFree, ready}
  NULL = NULL
  p1 = p1
  p2 = p2
  p3 = p3
  Proc = {p1, p2, p3}
  SemAdd = {1, 2, 3}
  MAXSEMS = 2
  MAXINT = 5
SYMMETRY ProcSymmetry
INVARIANTS
  RingInv
  SiblingInv
  DescriptorInv
PROPERTIES
  ImplementsQueues
  ImplementsForest
  ImplementsBlocked
