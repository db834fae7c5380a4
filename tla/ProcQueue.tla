------------------------------- MODULE ProcQueue -------------------------------
(***************************************************************************)
(* The process queues and the free list of phase1/pcb.c at the level of    *)
(* pointers: circular doubly linked lists of PCBs, each known by a pointer *)
(* to its tail.  One action per operation.  PCBs that are in no queue keep *)
(* whatever links they had.                                                *)
(***************************************************************************)
EXTENDS Pcbs, Walks, FiniteSets, SequencesExt

CONSTANTS Queue,    \* the tail pointers, pcbFree_h among them
          pcbFree   \* the free list

ASSUME QueueAssumption == pcbFree \in Queue /\ NULL \notin Queue

VARIABLES tp,        \* the tail pointer of each queue
          p_next, p_prev,
          queueRet,  \* what the last operation returned
          place      \* history: the queue a PCB is in, NULL for none

queueVars == <<tp, p_next, p_prev, queueRet, place>>
queueLinks == <<tp, p_next, p_prev>>
-----------------------------------------------------------------------------
\* initPCBs: freePcb of each element of procTable in turn.
QueueInit ==
  /\ tp = [q \in Queue |-> IF q = pcbFree THEN MAXPROC ELSE NULL]
  /\ p_next = [p \in Pcb |-> IF p = MAXPROC THEN 1 ELSE p + 1]
  /\ p_prev = [p \in Pcb |-> IF p = 1 THEN MAXPROC ELSE p - 1]
  /\ queueRet = NULL
  /\ place = [p \in Pcb |-> pcbFree]

\* Mutant of InsertProcQ: the old head is not told of its new predecessor.
InsertOneWay(q, p) ==
  /\ place[p] = NULL
  /\ LET tail == IF tp[q] = NULL THEN p ELSE tp[q]
         head == IF tp[q] = NULL THEN p ELSE p_next[tail]
     IN  /\ p_next' = [p_next EXCEPT ![tail] = p, ![p] = head]
         /\ p_prev' = [p_prev EXCEPT ![p] = tail]
  /\ tp' = [tp EXCEPT ![q] = p]
  /\ place' = [place EXCEPT ![p] = q]
  /\ queueRet' = NULL

InsertProcQ(q, p) ==
  /\ place[p] = NULL
  /\ \/ /\ tp[q] = NULL
        /\ p_next' = [p_next EXCEPT ![p] = p]
        /\ p_prev' = [p_prev EXCEPT ![p] = p]
     \/ /\ tp[q] # NULL
        /\ LET tail == tp[q]
               head == p_next[tail]
           IN  /\ p_next' = [p_next EXCEPT ![p] = head, ![tail] = p]
               /\ p_prev' = [p_prev EXCEPT ![p] = tail, ![head] = p]
  /\ tp' = [tp EXCEPT ![q] = p]
  /\ place' = [place EXCEPT ![p] = q]
  /\ queueRet' = NULL

\* What the removal of the head of a nonempty queue leaves.
HeadOf(q) == p_next[tp[q]]
TailWithoutHead(q) == IF HeadOf(q) = tp[q] THEN NULL ELSE tp[q]
NextWithoutHead(q) ==
  IF HeadOf(q) = tp[q] THEN p_next
  ELSE [p_next EXCEPT ![tp[q]] = p_next[HeadOf(q)]]
PrevWithoutHead(q) ==
  IF HeadOf(q) = tp[q] THEN p_prev
  ELSE [p_prev EXCEPT ![p_next[HeadOf(q)]] = tp[q]]

RemoveProcQ(q) ==
  \/ /\ tp[q] = NULL
     /\ queueRet' = NULL
     /\ UNCHANGED <<queueLinks, place>>
  \/ /\ tp[q] # NULL
     /\ tp' = [tp EXCEPT ![q] = TailWithoutHead(q)]
     /\ p_next' = NextWithoutHead(q)
     /\ p_prev' = PrevWithoutHead(q)
     /\ queueRet' = HeadOf(q)
     /\ place' = [place EXCEPT ![HeadOf(q)] = NULL]

\* The PCBs outProcQ compares with p when it does not find p at the tail: the
\* head and its successors up to the tail.
Visited(q) ==
  {p \in Pcb :
     \A S \in SUBSET Pcb :
       /\ p_next[tp[q]] \in S
       /\ \A m \in S : m # tp[q] => p_next[m] \in S
       => p \in S}

\* The links a removal of p leaves that lies between two others (which may
\* be the same one).
Unlink(p) ==
  /\ p_prev' = [p_prev EXCEPT ![p_next[p]] = p_prev[p]]
  /\ p_next' = [p_next EXCEPT ![p_prev[p]] = p_next[p]]

\* The only PCB of the queue: the queue becomes empty.
OutLast(q, p) ==
  /\ tp[q] = p /\ p_next[p] = p /\ p_prev[p] = p
  /\ tp' = [tp EXCEPT ![q] = NULL]
  /\ queueRet' = p
  /\ UNCHANGED <<p_next, p_prev>>

\* The tail of a longer queue: what is returned is the new tail.
\* Mutant of OutTail: the tail pointer stays.
OutTailKept(q, p) ==
  /\ tp[q] = p /\ ~ (p_next[p] = p /\ p_prev[p] = p)
  /\ Unlink(p)
  /\ queueRet' = p_prev[p]
  /\ UNCHANGED tp
OutTail(q, p) ==
  /\ tp[q] = p /\ ~ (p_next[p] = p /\ p_prev[p] = p)
  /\ Unlink(p)
  /\ tp' = [tp EXCEPT ![q] = p_prev[p]]
  /\ queueRet' = p_prev[p]

OutInner(q, p) ==
  /\ tp[q] \notin {NULL, p} /\ p \in Visited(q)
  /\ Unlink(p)
  /\ queueRet' = p
  /\ UNCHANGED tp

OutMissing(q, p) ==
  /\ tp[q] # NULL => tp[q] # p /\ p \notin Visited(q)
  /\ queueRet' = NULL
  /\ UNCHANGED <<queueLinks, place>>

OutProcQ(q, p) ==
  \/ /\ OutLast(q, p) \/ OutTail(q, p) \/ OutInner(q, p)
     /\ place' = [place EXCEPT ![p] = NULL]
  \/ OutMissing(q, p)

HeadProcQ(q) ==
  /\ queueRet' = IF tp[q] = NULL THEN NULL ELSE HeadOf(q)
  /\ UNCHANGED <<queueLinks, place>>

\* removeProcQ of the free list; then the gift's links are cleared.
AllocPcb ==
  \/ tp[pcbFree] = NULL /\ RemoveProcQ(pcbFree)
  \/ /\ tp[pcbFree] # NULL
     /\ LET gift == HeadOf(pcbFree) IN
          /\ tp' = [tp EXCEPT ![pcbFree] = TailWithoutHead(pcbFree)]
          /\ p_next' = [NextWithoutHead(pcbFree) EXCEPT ![gift] = NULL]
          /\ p_prev' = [PrevWithoutHead(pcbFree) EXCEPT ![gift] = NULL]
          /\ queueRet' = gift
          /\ place' = [place EXCEPT ![gift] = NULL]

FreePcb(p) == InsertProcQ(pcbFree, p)

QueueNext ==
  \/ AllocPcb
  \/ \E p \in Pcb : FreePcb(p)
  \/ \E q \in Queue \ {pcbFree} :
       \/ RemoveProcQ(q)
       \/ HeadProcQ(q)
       \/ \E p \in Pcb : InsertProcQ(q, p) \/ OutProcQ(q, p)

QueueSpec == QueueInit /\ [][QueueNext]_queueVars
-----------------------------------------------------------------------------
(***************************************************************************)
(* Correctness.                                                            *)
(***************************************************************************)

QueueTypeOK ==
  /\ tp \in [Queue -> Ptr]
  /\ p_next \in [Pcb -> Ptr] /\ p_prev \in [Pcb -> Ptr]
  /\ queueRet \in Ptr
  /\ place \in [Pcb -> Queue \cup {NULL}]

Members(q) == {p \in Pcb : place[p] = q}

\* No proper part of a queue is closed under p_next.
OneRing(q) ==
  \A S \in SUBSET Members(q) :
    S # {} /\ (\A p \in S : p_next[p] \in S) => S = Members(q)

\* Every queue is a ring: its links stay within it and the two directions
\* agree, from any of its PCBs all others can be reached, and its tail pointer
\* is NULL exactly when it is empty (pcb.c, 146 to 239).
RingInv ==
  /\ QueueTypeOK
  /\ \A q \in Queue :
       /\ tp[q] = NULL <=> Members(q) = {}
       /\ tp[q] # NULL => tp[q] \in Members(q)
       /\ OneRing(q)
       /\ \A p \in Members(q) :
            /\ p_next[p] \in Members(q) /\ p_prev[p_next[p]] = p
            /\ p_prev[p] \in Members(q) /\ p_next[p_prev[p]] = p

\* A queue from head to tail: from the tail along p_next, once round.
Contents(q) ==
  LET walk == Walk(tp[q], p_next, MAXPROC)
      laps == {i \in Pcb : walk[i] = tp[q]}
  IN  IF tp[q] = NULL \/ laps = {} THEN <<>>
      ELSE LET len == CHOOSE i \in laps : \A j \in laps : i <= j
           IN  [i \in 1..len |-> walk[i]]

queue == [q \in Queue |-> Contents(q)]
Queues == INSTANCE ProcQueues WITH ret <- queueRet

\* Not as promised: outProcQ takes the tail off a longer queue, but answers the
\* new tail (pcb.c, 218).
NewTailAnswered(q, p) ==
  /\ Len(queue[q]) > 1 /\ p = Last(queue[q])
  /\ queue' = [queue EXCEPT ![q] = Front(@)]
  /\ queueRet' = Last(Front(queue[q]))

\* The pointer operations do what the operations on sequences promise: first
\* in, first out, and outProcQ takes out exactly the PCB it is asked for and
\* answers it, or NULL if it is not there.  The only promise they break is that
\* of the answer for a tail.
ImplementsQueues ==
  /\ Queues!Init
  /\ [][Queues!Next \/ \E q \in Queue, p \in Pcb : NewTailAnswered(q, p)]_<<queue, queueRet>>

\* "NULL if p does not exist, otherwise return p" (pcb.c, 203).
OutProcQAnswersP ==
  [][\A q \in Queue \ {pcbFree}, p \in Pcb :
       OutProcQ(q, p) => queueRet' \in {p, NULL}]_queueVars
================================================================================
