------------------------------ MODULE ProcQueues ------------------------------
(***************************************************************************)
(* What the queue operations of phase1/pcb.c promise: process queues are   *)
(* sequences of PCBs, head first; the free list is one of them.  A client  *)
(* inserts a PCB only if it is in no queue, and may ask for any PCB to be  *)
(* taken out of any queue.                                                 *)
(***************************************************************************)
EXTENDS Integers, SequencesExt

CONSTANTS MAXPROC, Queue, pcbFree, NULL

Pcb == 1..MAXPROC

VARIABLES queue,  \* the contents of each queue
          ret     \* what the last operation returned

vars == <<queue, ret>>

\* initPCBs: procTable in order on the free list; the other queues are empty.
Init ==
  /\ queue = [q \in Queue |-> IF q = pcbFree THEN [i \in Pcb |-> i] ELSE <<>>]
  /\ ret = NULL

InsertProcQ(q, p) ==
  /\ \A r \in Queue : p \notin ToSet(queue[r])
  /\ queue' = [queue EXCEPT ![q] = Append(@, p)]
  /\ ret' = NULL

RemoveProcQ(q) ==
  IF queue[q] = <<>>
  THEN ret' = NULL /\ UNCHANGED queue
  ELSE ret' = Head(queue[q]) /\ queue' = [queue EXCEPT ![q] = Tail(@)]

\* "NULL if p does not exist, otherwise return p."
OutProcQ(q, p) ==
  \/ /\ p \notin ToSet(queue[q])
     /\ ret' = NULL
     /\ UNCHANGED queue
  \/ /\ ret' = p
     /\ \E i \in DOMAIN queue[q] :
          queue[q][i] = p /\ queue' = [queue EXCEPT ![q] = RemoveAt(@, i)]

HeadProcQ(q) ==
  /\ ret' = IF queue[q] = <<>> THEN NULL ELSE Head(queue[q])
  /\ UNCHANGED queue

Next ==
  \E q \in Queue :
    \/ RemoveProcQ(q)
    \/ HeadProcQ(q)
    \/ \E p \in Pcb : InsertProcQ(q, p) \/ OutProcQ(q, p)

Spec == Init /\ [][Next]_vars
===============================================================================
