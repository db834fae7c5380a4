---------------------------- MODULE ProcessTable ----------------------------
(***************************************************************************)
(* What SYS1 and SYS2 promise (phase2/exceptions.c, lines 227 to 271): the *)
(* live processes form a tree, a process is born as a child of a live one, *)
(* and a termination takes a process away with all its progeny, at once,   *)
(* leaving its parent, its siblings and everybody else alone.              *)
(***************************************************************************)
CONSTANTS Proc, NoProc

VARIABLES live, parent

vars == <<live, parent>>

\* The processes of R and their progeny: the least set that holds R and the
\* children of its members.
Progeny(R, prnt) ==
  {p \in Proc :
     \A S \in SUBSET Proc :
       /\ R \subseteq S
       /\ \A q \in Proc : prnt[q] \in S => q \in S
       => p \in S}

Init ==
  /\ \E root \in Proc : live = {root}
  /\ parent = [p \in Proc |-> NoProc]

Create(p, c) ==
  /\ p \in live /\ c \in Proc \ live
  /\ live' = live \cup {c}
  /\ parent' = [parent EXCEPT ![c] = p]

\* (That p is dead afterwards follows; said first, it tells TLC which p.)
Kill(p) ==
  /\ p \in live \ live'
  /\ LET dead == Progeny({p}, parent) IN
       /\ live' = live \ dead
       /\ parent' = [q \in Proc |-> IF q \in dead THEN NoProc ELSE parent[q]]

Next == \E p \in Proc : Kill(p) \/ \E c \in Proc : Create(p, c)

Spec == Init /\ [][Next]_vars
=============================================================================
