------------------------------- MODULE MCTable -------------------------------
(* A small instance of the refinement of ProcessTable by the nucleus. *)
EXTENDS NucleusTable, TLC

CONSTANTS p1, p2, p3, p4

ProcSymmetry == Permutations(Proc)
=============================================================================
