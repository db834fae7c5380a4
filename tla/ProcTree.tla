------------------------------- MODULE ProcTree -------------------------------
(***************************************************************************)
(* The process tree of phase1/pcb.c at the level of pointers: a PCB points *)
(* to its parent, to its youngest child, and to its next older and next    *)
(* younger sibling.  One action per operation.                             *)
(***************************************************************************)
EXTENDS Pcbs, Walks, FiniteSets, Sequences

VARIABLES p_prnt, p_child, p_old, p_yng,
          treeRet    \* what the last operation returned

treeVars == <<p_prnt, p_child, p_old, p_yng, treeRet>>
treeLinks == <<p_prnt, p_child, p_old, p_yng>>

\* A link is followed only when it is not NULL.
Set(link, p, q) == IF p = NULL THEN link ELSE [link EXCEPT ![p] = q]
-----------------------------------------------------------------------------
\* allocPcb hands PCBs out with all links NULL.
TreeInit ==
  /\ p_prnt = [p \in Pcb |-> NULL] /\ p_child = [p \in Pcb |-> NULL]
  /\ p_old = [p \in Pcb |-> NULL] /\ p_yng = [p \in Pcb |-> NULL]
  /\ treeRet = NULL

\* p becomes the first child: the former first child, if any, is its next
\* older sibling.
InsertChild(prnt, p) ==
  /\ p # prnt /\ p_prnt[p] = NULL /\ p_child[p] = NULL
  /\ p_prnt' = [p_prnt EXCEPT ![p] = prnt]
  /\ p_old' = [p_old EXCEPT ![p] = p_child[prnt]]
  /\ p_yng' = Set([p_yng EXCEPT ![p] = NULL], p_child[prnt], p)
  /\ p_child' = [p_child EXCEPT ![prnt] = p]
  /\ treeRet' = NULL

\* The first child leaves.
\* Mutant of OutFirst: the next child keeps its link to the one that left.
OutFirstLinked(p) ==
  /\ p_child[p_prnt[p]] = p
  /\ p_child' = [p_child EXCEPT ![p_prnt[p]] = p_old[p]]
  /\ p_yng' = [p_yng EXCEPT ![p] = NULL]
  /\ p_old' = [p_old EXCEPT ![p] = NULL]
OutFirst(p) ==
  /\ p_child[p_prnt[p]] = p
  /\ p_child' = [p_child EXCEPT ![p_prnt[p]] = p_old[p]]
  /\ p_yng' = [Set(p_yng, p_old[p], NULL) EXCEPT ![p] = NULL]
  /\ p_old' = [p_old EXCEPT ![p] = NULL]

\* A child that has a younger sibling leaves.
\* Mutant of OutOther: the younger sibling keeps its link to the one that left.
OutOtherLinked(p) ==
  /\ p_child[p_prnt[p]] # p
  /\ p_yng' = [Set(p_yng, p_old[p], p_yng[p]) EXCEPT ![p] = NULL]
  /\ p_old' = [p_old EXCEPT ![p] = NULL]
  /\ UNCHANGED p_child
OutOther(p) ==
  /\ p_child[p_prnt[p]] # p
  /\ p_yng' = [Set(p_yng, p_old[p], p_yng[p]) EXCEPT ![p] = NULL]
  /\ p_old' = [p_old EXCEPT ![p_yng[p]] = p_old[p], ![p] = NULL]
  /\ UNCHANGED p_child

HasParent(p) == p_prnt[p] # NULL /\ p_child[p_prnt[p]] # NULL

OutChild(p) ==
  \/ /\ ~ HasParent(p)
     /\ treeRet' = NULL
     /\ UNCHANGED treeLinks
  \/ /\ HasParent(p)
     /\ OutFirst(p) \/ OutOther(p)
     /\ p_prnt' = [p_prnt EXCEPT ![p] = NULL]
     /\ treeRet' = p

RemoveChild(prnt) ==
  \/ /\ p_child[prnt] = NULL
     /\ treeRet' = NULL
     /\ UNCHANGED treeLinks
  \/ /\ p_child[prnt] # NULL
     /\ OutChild(p_child[prnt])

TreeNext ==
  \E p \in Pcb :
    \/ RemoveChild(p)
    \/ OutChild(p)
    \/ \E prnt \in Pcb : InsertChild(prnt, p)

TreeSpec == TreeInit /\ [][TreeNext]_treeVars
-----------------------------------------------------------------------------
(***************************************************************************)
(* Correctness.                                                            *)
(***************************************************************************)

TreeTypeOK ==
  /\ {p_prnt, p_child, p_old, p_yng} \subseteq [Pcb -> Ptr]
  /\ treeRet \in Ptr

\* The four kinds of links agree: the youngest child and only it has no
\* younger sibling, siblings have one parent and point to each other, and a
\* PCB without a parent is in nobody's list (pcb.c, 282 to 343).
SiblingInv ==
  /\ TreeTypeOK
  /\ \A p \in Pcb :
       /\ p_child[p] # NULL => p_prnt[p_child[p]] = p
       /\ p_prnt[p] = NULL => p_old[p] = NULL /\ p_yng[p] = NULL
       /\ p_prnt[p] # NULL => (p_child[p_prnt[p]] = p <=> p_yng[p] = NULL)
       /\ p_old[p] # NULL =>
            p_yng[p_old[p]] = p /\ p_prnt[p_old[p]] = p_prnt[p]
       /\ p_yng[p] # NULL =>
            p_old[p_yng[p]] = p /\ p_prnt[p_yng[p]] = p_prnt[p]

\* The children of a PCB: from p_child along p_old, up to NULL.
ChildrenOf(prnt) ==
  LET walk == Walk(p_child[prnt], p_old, Cardinality(Pcb))
      ends == {i \in 0..Cardinality(Pcb) : walk[i] = NULL}
  IN  IF ends = {} THEN <<>>
      ELSE LET len == CHOOSE i \in ends : \A j \in ends : i <= j
           IN  [i \in 1..len |-> walk[i - 1]]

children == [p \in Pcb |-> ChildrenOf(p)]
Forest == INSTANCE ProcForest WITH ret <- treeRet

\* The pointer operations do what the operations on a forest promise: the
\* list of children keeps every other child, in order.
ImplementsForest == Forest!Spec
===============================================================================
