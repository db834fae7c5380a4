------------------------------- MODULE MCPhase1 -------------------------------
(***************************************************************************)
(* The data structures of phase 1, with small sizes.  The process queues   *)
(* (p_next, p_prev), the process tree (p_prnt, p_child, p_sib) and the ASL *)
(* have no field in common, so that each behaves the same whatever the     *)
(* others hold: it is enough to look at each with the others at rest.      *)
(***************************************************************************)
EXTENDS ProcQueue, ProcTree, ASL

CONSTANTS p1, p2, p3

\* The ASL is sorted by semaphore, not by process.
ProcSymmetry == Permutations(Proc)

Phase1Init == QueueInit /\ TreeInit /\ ASLInit

Phase1Next ==
  \/ TreeInit /\ ASLInit /\ QueueNext /\ UNCHANGED <<treeVars, aslVars>>
  \/ QueueInit /\ ASLInit /\ TreeNext /\ UNCHANGED <<queueVars, aslVars>>
  \/ QueueInit /\ TreeInit /\ ASLNext /\ UNCHANGED <<queueVars, treeVars>>

Phase1Spec ==
  Phase1Init /\ [][Phase1Next]_<<queueVars, treeVars, aslVars>>
=============================================================================
