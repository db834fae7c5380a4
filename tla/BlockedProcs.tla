----------------------------- MODULE BlockedProcs -----------------------------
(***************************************************************************)
(* What the active semaphore list of phase1/asl.c promises: a queue of     *)
(* blocked processes for each semaphore, first in, first out, as long as   *)
(* no more than MAXSEMS semaphores have one.  This is the view that module *)
(* Nucleus has of it.                                                      *)
(***************************************************************************)
EXTENDS Integers, FiniteSets, SequencesExt

CONSTANTS Proc, SemAdd, MAXSEMS, NULL, NullAdd

VARIABLES procQ,     \* the processes blocked on each semaphore
          p_semAdd,  \* the semaphore a process last blocked on
          ret        \* what the last operation returned

vars == <<procQ, p_semAdd, ret>>

Active == {a \in SemAdd : procQ[a] # <<>>}
Blocked(p) == \E a \in SemAdd : p \in ToSet(procQ[a])

Init ==
  /\ procQ = [a \in SemAdd |-> <<>>]
  /\ p_semAdd = [p \in Proc |-> NullAdd]
  /\ ret = NULL

\* TRUE is the answer when there is no room for another semaphore.
InsertBlocked(a, p) ==
  /\ ~ Blocked(p)
  /\ IF a \notin Active /\ Cardinality(Active) = MAXSEMS
     THEN ret' = "TRUE" /\ UNCHANGED <<procQ, p_semAdd>>
     ELSE /\ procQ' = [procQ EXCEPT ![a] = Append(@, p)]
          /\ p_semAdd' = [p_semAdd EXCEPT ![p] = a]
          /\ ret' = "FALSE"

RemoveBlocked(a) ==
  /\ ret' = IF a \in Active THEN Head(procQ[a]) ELSE NULL
  /\ procQ' = [procQ EXCEPT ![a] = IF @ = <<>> THEN @ ELSE Tail(@)]
  /\ UNCHANGED p_semAdd

HeadBlocked(a) ==
  /\ ret' = IF a \in Active THEN Head(procQ[a]) ELSE NULL
  /\ UNCHANGED <<procQ, p_semAdd>>

\* "p if found; otherwise, return NULL".
OutBlocked(p) ==
  /\ UNCHANGED p_semAdd
  /\ \/ /\ ~ Blocked(p)
        /\ ret' = NULL
        /\ UNCHANGED procQ
     \/ /\ Blocked(p)
        /\ ret' = p
        /\ \E i \in DOMAIN procQ[p_semAdd[p]] :
             /\ procQ[p_semAdd[p]][i] = p
             /\ procQ' = [procQ EXCEPT ![p_semAdd[p]] = RemoveAt(@, i)]

\* The PCB is freed and allocated anew.
ReusePcb(p) ==
  /\ ~ Blocked(p)
  /\ p_semAdd' = [p_semAdd EXCEPT ![p] = NullAdd]
  /\ ret' = NULL
  /\ UNCHANGED procQ

Next ==
  \/ \E a \in SemAdd :
       \/ RemoveBlocked(a)
       \/ HeadBlocked(a)
       \/ \E p \in Proc : InsertBlocked(a, p)
  \/ \E p \in Proc : OutBlocked(p) \/ ReusePcb(p)

Spec == Init /\ [][Next]_vars
===============================================================================
