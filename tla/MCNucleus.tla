------------------------------ MODULE MCNucleus ------------------------------
(* Small instances of the nucleus. *)
EXTENDS Nucleus, TLC

CONSTANTS p1, p2, p3

\* PCBs are interchangeable: the code never compares or orders them.
ProcSymmetry == Permutations(Proc)
=============================================================================
