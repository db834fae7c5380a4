--------------------------------- MODULE Pcbs ---------------------------------
(***************************************************************************)
(* The PCBs of procTable, and pointers to them.                            *)
(***************************************************************************)
EXTENDS Integers

CONSTANTS MAXPROC,  \* the size of procTable
          NULL      \* the NULL pointer

Pcb == 1..MAXPROC
Ptr == Pcb \cup {NULL}

ASSUME SizeAssumption == MAXPROC \in Nat \ {0}
ASSUME NullAssumption == NULL \notin Pcb
===============================================================================
