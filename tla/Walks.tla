-------------------------------- MODULE Walks --------------------------------
(***************************************************************************)
(* Following a pointer field from PCB to PCB: what the refinement mappings *)
(* of ProcQueue and ProcTree read the lists with.                          *)
(***************************************************************************)
EXTENDS Integers

\* Where one gets to from p by next, or stays when there is no way on.
On(p, next) == IF p \in DOMAIN next THEN next[p] ELSE p

\* Where one is i steps from a, for i up to n.
Walk(a, next, n) ==
  LET walk[i \in 0..n] == IF i = 0 THEN a ELSE On(walk[i - 1], next)
  IN  walk
==============================================================================
