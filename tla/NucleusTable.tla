---------------------------- MODULE NucleusTable ----------------------------
(***************************************************************************)
(* The nucleus implements ProcessTable.  A termination takes effect in the *)
(* step that condemns its root: from then on the condemned processes, the  *)
(* activations of avadaKedavra and their progeny, no longer count as live. *)
(***************************************************************************)
EXTENDS Nucleus

Condemned ==
  {p \in Proc :
     \A S \in SUBSET Proc :
       /\ ToSet(noose) \subseteq S
       /\ \A q \in Proc : p_prnt[q] \in S => q \in S
       => p \in S}

live == Proc \ (pcbFree \cup Condemned)
parent ==
  LET alive == live IN [p \in Proc |-> IF p \in alive THEN p_prnt[p] ELSE NoProc]

Table == INSTANCE ProcessTable

\* SYS1, SYS2 and every kill of a trapping process, taken as a whole, are the
\* operations of the process table; nothing else changes who lives.  (It needs
\* programs without PROGTRAP vectors: see the README.)
ImplementsTable == Table!Spec
=============================================================================
