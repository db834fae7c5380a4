---------------------------------- MODULE ASL ----------------------------------
(***************************************************************************)
(* The active semaphore list of phase1/asl.c: semaphore descriptors in a   *)
(* singly linked list sorted by address, between a sentinel at 0 and one   *)
(* at MAXINT, and the unused ones on a free list, a stack.  The queue of a *)
(* descriptor is a sequence, which is what module ProcQueue shows the      *)
(* circular lists of pcb.c to be.  One action per operation.               *)
(***************************************************************************)
EXTENDS Pcbs, FiniteSets, SequencesExt

CONSTANTS Proc,     \* the processes, which are only moved about
          SemAdd,   \* the addresses of semaphores
          MAXSEMS,  \* descriptors, not counting the sentinels
          MAXINT    \* the address in the last sentinel

\* NULL as a semaphore address is 0xFFFFFFFF (h/const.h, line 62), above all
\* others; semaphores lie strictly between the sentinels.
NullAdd == MAXINT + 1
ASSUME AddressAssumption ==
  MAXINT \in Nat \ {0} /\ SemAdd \subseteq 1..(MAXINT - 1)

\* Indices of semdTable.
Semd == 0..(MAXSEMS + 1)
semd_h == MAXSEMS
LastSemd == MAXSEMS + 1
ASSUME SemdAssumption == MAXSEMS \in Nat /\ NULL \notin Semd

VARIABLES semdFree_h, s_next, s_semAdd, s_procQ,
          p_semAdd,  \* the semaphore a process last blocked on
          aslRet    \* what the last operation returned, or "trap"

aslLists == <<semdFree_h, s_next, s_semAdd>>
aslVars == <<semdFree_h, s_next, s_semAdd, s_procQ, p_semAdd, aslRet>>
-----------------------------------------------------------------------------
\* initASL: freeSemd of each element but the last two, which are the sentinels.
ASLInit ==
  /\ semdFree_h = IF MAXSEMS = 0 THEN NULL ELSE MAXSEMS - 1
  /\ s_next = [d \in Semd |-> CASE d = semd_h -> LastSemd
                                [] d \in {0, LastSemd} \ {semd_h} -> NULL
                                [] OTHER -> d - 1]
  /\ s_semAdd = [d \in Semd |-> IF d = LastSemd THEN MAXINT ELSE 0]
  /\ s_procQ = [d \in Semd |-> <<>>]
  /\ p_semAdd = [p \in Proc |-> NullAdd]
  /\ aslRet = NULL

\* The descriptors that one comes by from h, going on from n to next[n].
Along(h, next) ==
  LET closed == {S \in SUBSET Semd :
                   /\ h # NULL => h \in S
                   /\ \A n \in S : next[n] # NULL => next[n] \in S}
  IN  {d \in Semd : \A S \in closed : d \in S}

\* Mutant of Predecessor: the search also passes the descriptor of a.
PredecessorOrSelf(a) ==
  LET step == [n \in Semd |->
                 IF s_next[n] # NULL /\ s_semAdd[s_next[n]] <= a
                 THEN s_next[n] ELSE NULL]
  IN  CHOOSE nomad \in Along(semd_h, step) : step[nomad] = NULL
\* searchSemd: from the head, on to the next descriptor as long as its address
\* is below a; where that ends.
Step(a) ==
  [n \in Semd |-> IF s_next[n] # NULL /\ s_semAdd[s_next[n]] < a
                  THEN s_next[n] ELSE NULL]
Predecessor(a) ==
  CHOOSE nomad \in Along(semd_h, Step(a)) : Step(a)[nomad] = NULL

\* Beyond the last descriptor the search loads through NULL.
SearchTraps(a) == s_next[Predecessor(a)] = NULL
Target(a) == s_next[Predecessor(a)]
Found(a) == ~ SearchTraps(a) /\ s_semAdd[Target(a)] = a

NotBlocked(p) == \A d \in Semd : p \notin ToSet(s_procQ[d])

InsertBlocked(a, p) ==
  /\ NotBlocked(p)
  /\ \/ /\ Found(a)
        /\ s_procQ' = [s_procQ EXCEPT ![Target(a)] = Append(@, p)]
        /\ p_semAdd' = [p_semAdd EXCEPT ![p] = a]
        /\ aslRet' = "FALSE"
        /\ UNCHANGED aslLists
     \/ /\ ~ Found(a) /\ semdFree_h # NULL
        /\ semdFree_h' = s_next[semdFree_h]
        /\ s_next' = [s_next EXCEPT ![semdFree_h] = Target(a),
                                    ![Predecessor(a)] = semdFree_h]
        /\ s_semAdd' = [s_semAdd EXCEPT ![semdFree_h] = a]
        /\ s_procQ' = [s_procQ EXCEPT ![semdFree_h] = <<p>>]
        /\ p_semAdd' = [p_semAdd EXCEPT ![p] = a]
        /\ aslRet' = "FALSE"
     \/ /\ ~ Found(a) /\ semdFree_h = NULL
        /\ aslRet' = "TRUE"
        /\ UNCHANGED <<aslLists, s_procQ, p_semAdd>>

\* The queue of a's descriptor becomes rest; if that is empty the descriptor
\* goes from the active list to the free list.
\* Mutant of SetQueue: an empty descriptor leaves the active list, no more.
SetQueueLeak(a, rest) ==
  /\ s_procQ' = [s_procQ EXCEPT ![Target(a)] = rest]
  /\ s_next' = IF rest # <<>> THEN s_next
               ELSE [s_next EXCEPT ![Predecessor(a)] = s_next[Target(a)]]
  /\ UNCHANGED <<semdFree_h, s_semAdd>>
SetQueue(a, rest) ==
  /\ s_procQ' = [s_procQ EXCEPT ![Target(a)] = rest]
  /\ IF rest # <<>> THEN UNCHANGED <<semdFree_h, s_next>>
     ELSE /\ s_next' = [s_next EXCEPT ![Predecessor(a)] = s_next[Target(a)],
                                      ![Target(a)] = semdFree_h]
          /\ semdFree_h' = Target(a)
  /\ UNCHANGED s_semAdd

RemoveBlocked(a) ==
  /\ \/ /\ Found(a)
        /\ aslRet' = Head(s_procQ[Target(a)])
        /\ SetQueue(a, Tail(s_procQ[Target(a)]))
     \/ /\ ~ Found(a)
        /\ aslRet' = NULL
        /\ UNCHANGED <<aslLists, s_procQ>>
  /\ UNCHANGED p_semAdd

HeadBlocked(a) ==
  /\ aslRet' = IF Found(a) THEN Head(s_procQ[Target(a)]) ELSE NULL
  /\ UNCHANGED <<aslLists, s_procQ, p_semAdd>>

\* What outProcQ returns for a process of a queue: the process, or the new
\* tail when the process was the tail of a longer queue.
OutAnswer(q, p) ==
  IF Len(q) > 1 /\ Last(q) = p THEN q[Len(q) - 1] ELSE p

OutBlocked(p) ==
  LET a == p_semAdd[p]
      q == s_procQ[Target(a)]
  IN  /\ UNCHANGED p_semAdd
      /\ \/ /\ SearchTraps(a)
            /\ aslRet' = "trap"
            /\ UNCHANGED <<aslLists, s_procQ>>
         \/ /\ Found(a)
            /\ \E i \in DOMAIN q :
                 q[i] = p /\ SetQueue(a, RemoveAt(q, i))
            /\ aslRet' = OutAnswer(q, p)
         \/ /\ ~ SearchTraps(a) /\ (Found(a) => p \notin ToSet(q))
            /\ aslRet' = NULL
            /\ UNCHANGED <<aslLists, s_procQ>>

\* freePcb and allocPcb: the PCB of a process that is gone is used again.
ReusePcb(p) ==
  /\ NotBlocked(p)
  /\ p_semAdd' = [p_semAdd EXCEPT ![p] = NullAdd]
  /\ aslRet' = NULL
  /\ UNCHANGED <<aslLists, s_procQ>>

ASLNext ==
  \/ \E a \in SemAdd :
       \/ RemoveBlocked(a)
       \/ HeadBlocked(a)
       \/ \E p \in Proc : InsertBlocked(a, p)
  \/ \E p \in Proc : OutBlocked(p) \/ ReusePcb(p)

ASLSpec == ASLInit /\ [][ASLNext]_aslVars
-----------------------------------------------------------------------------
(***************************************************************************)
(* Correctness.                                                            *)
(***************************************************************************)

SemdPtr == Semd \cup {NULL}

ASLTypeOK ==
  /\ semdFree_h \in SemdPtr
  /\ s_next \in [Semd -> SemdPtr]
  /\ s_semAdd \in [Semd -> 0..MAXINT]
  /\ s_procQ \in [Semd -> Seq(Proc)]
  /\ p_semAdd \in [Proc -> SemAdd \cup {NullAdd}]
  /\ aslRet \in Proc \cup {NULL, "TRUE", "FALSE", "trap"}

ActiveList == Along(semd_h, s_next)
FreeList == Along(semdFree_h, s_next)

\* Every descriptor is on exactly one of the two lists, on the active one just
\* when somebody waits at it; the active list ascends from sentinel to
\* sentinel; a waiting process knows its semaphore (asl.c, 88 to 180).
DescriptorInv ==
  /\ ASLTypeOK
  /\ ActiveList \cup FreeList = Semd /\ ActiveList \cap FreeList = {}
  /\ {semd_h, LastSemd} \subseteq ActiveList
  /\ \A d \in Semd \ {semd_h, LastSemd} :
       d \in ActiveList <=> s_procQ[d] # <<>>
  /\ \A d \in ActiveList \ {LastSemd} : s_semAdd[d] < s_semAdd[s_next[d]]
  /\ \A d \in Semd : \A p \in ToSet(s_procQ[d]) : p_semAdd[p] = s_semAdd[d]

\* The queue of the processes blocked on semaphore a.
QueueOf(a) ==
  LET at == {d \in ActiveList \ {semd_h, LastSemd} : s_semAdd[d] = a}
  IN  IF at = {} THEN <<>> ELSE s_procQ[CHOOSE d \in at : TRUE]

queues == [a \in SemAdd |-> QueueOf(a)]

Blocked == INSTANCE BlockedProcs WITH procQ <- queues, ret <- aslRet

\* Not as promised: outBlocked hands on outProcQ's answer for a tail, the new
\* tail, ...
WrongAnswer(p) ==
  LET a == p_semAdd[p] IN
    /\ a \in SemAdd /\ Len(queues[a]) > 1 /\ p = Last(queues[a])
    /\ queues' = [queues EXCEPT ![a] = Front(@)]
    /\ aslRet' = Last(Front(queues[a]))
    /\ UNCHANGED p_semAdd

\* ... and for a process that never blocked it traps.
NeverBlockedTraps(p) ==
  /\ p_semAdd[p] = NullAdd
  /\ aslRet' = "trap"
  /\ UNCHANGED <<queues, p_semAdd>>

\* The sorted list and its free list do what a map from semaphores to queues
\* does, and refuse a process exactly when MAXSEMS semaphores are in use.  The
\* only promises they break are two of outBlocked's.
ImplementsBlocked ==
  /\ Blocked!Init
  /\ [][\/ Blocked!Next
        \/ \E p \in Proc : WrongAnswer(p) \/ NeverBlockedTraps(p)
       ]_<<queues, p_semAdd, aslRet>>
================================================================================
