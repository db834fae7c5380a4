------------------------------ MODULE ProcForest ------------------------------
(***************************************************************************)
(* What the process tree operations of phase1/pcb.c promise: each PCB has  *)
(* a sequence of children, the youngest first, and appears in at most one  *)
(* of them.  A client gives a parent only to a PCB that has neither parent *)
(* nor children, as SYS1 does with the PCB it has just allocated.          *)
(***************************************************************************)
EXTENDS Integers, SequencesExt

CONSTANTS Pcb, NULL

VARIABLES children,  \* the children of each PCB
          ret        \* what the last operation returned

vars == <<children, ret>>

Orphan(p) == \A r \in Pcb : p \notin ToSet(children[r])

Init ==
  /\ children = [p \in Pcb |-> <<>>]
  /\ ret = NULL

InsertChild(prnt, p) ==
  /\ p # prnt /\ Orphan(p) /\ children[p] = <<>>
  /\ children' = [children EXCEPT ![prnt] = <<p>> \o @]
  /\ ret' = NULL

OutChild(p) ==
  \/ /\ Orphan(p)
     /\ ret' = NULL
     /\ UNCHANGED children
  \/ /\ ret' = p
     /\ \E r \in Pcb : \E i \in DOMAIN children[r] :
          /\ children[r][i] = p
          /\ children' = [children EXCEPT ![r] = RemoveAt(@, i)]

RemoveChild(prnt) ==
  IF children[prnt] = <<>>
  THEN ret' = NULL /\ UNCHANGED children
  ELSE OutChild(Head(children[prnt]))

Next ==
  \E p \in Pcb :
    \/ RemoveChild(p)
    \/ OutChild(p)
    \/ \E prnt \in Pcb : InsertChild(prnt, p)

Spec == Init /\ [][Next]_vars
===============================================================================
