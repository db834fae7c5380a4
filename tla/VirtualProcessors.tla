--------------------------- MODULE VirtualProcessors ---------------------------
(***************************************************************************)
(* What the nucleus promises a program about its processor: every process  *)
(* has one of its own, on which a system call is an instruction with at    *)
(* most a result in v0, interrupts and other processes leave no trace, and *)
(* an exception for which it has vectors (SYS5) moves its state to the old *)
(* area and the new area's to the processor.                               *)
(***************************************************************************)
EXTENDS Integers

CONSTANTS Proc,        \* PCBs
          Dead,        \* the state of a free one
          VectorTypes, \* the exceptions that programs specify vectors for
          Advance      \* how many instructions a handler of SYSTRAP skips

\* A PC is a place in the program or in one of its handlers.
Main == "main"
After(pc) == <<pc[1], pc[2] + 1>>
Answer == -1  \* any result: a time, a device's status, NOCHILD
Birth == [pc |-> <<Main, 0>>, user |-> FALSE, v0 |-> 0]
NewArea(t) == [pc |-> <<t, 0>>, user |-> FALSE, v0 |-> 0]
Blank == [s |-> Birth, cause |-> "none"]

VARIABLES
  vs,       \* the state of each process
  io,       \* does it wait for a device?
  vectors,  \* the exceptions it has vectors for
  oldArea   \* its old areas
vpvars == <<vs, io, vectors, oldArea>>

Become(p, s) == vs' = [vs EXCEPT ![p] = s]
Following(p) == [vs[p] EXCEPT !.pc = After(@)]
Executes(p) == vs[p] # Dead /\ ~io[p]
Calls(p) == Executes(p) /\ ~vs[p].user

\* An instruction of the program's own, which may turn user mode on.
Compute(p) ==
  /\ Executes(p)
  /\ \E u \in {vs[p].user, TRUE} : Become(p, [Following(p) EXCEPT !.user = u])
  /\ UNCHANGED <<io, vectors, oldArea>>

\* P, V and WAITCLOCK return what was in v0, SYS1 refused and SYS6 a result.
Call(p) ==
  /\ Calls(p)
  /\ \E r \in {Answer, vs[p].v0} : Become(p, [Following(p) EXCEPT !.v0 = r])
  /\ UNCHANGED <<io, vectors, oldArea>>
Create(p, child) ==
  /\ Calls(p) /\ vs[child] = Dead
  /\ vs' = [vs EXCEPT ![p] = [Following(p) EXCEPT !.v0 = 0], ![child] = Birth]
  /\ oldArea' = [oldArea EXCEPT ![child] = [t \in VectorTypes |-> Blank]]
  /\ UNCHANGED <<io, vectors>>
SpecVector(p, t) ==
  /\ Calls(p) /\ t \notin vectors[p]
  /\ Become(p, Following(p))
  /\ vectors' = [vectors EXCEPT ![p] = @ \cup {t}]
  /\ UNCHANGED <<io, oldArea>>
WaitIO(p) ==
  /\ Calls(p)
  /\ Become(p, Following(p))
  /\ io' = [io EXCEPT ![p] = TRUE]
  /\ UNCHANGED <<vectors, oldArea>>
Answered(p) ==
  /\ io[p]
  /\ Become(p, [vs[p] EXCEPT !.v0 = Answer])
  /\ io' = [io EXCEPT ![p] = FALSE]
  /\ UNCHANGED <<vectors, oldArea>>

\* The handler finds a fault where it was, but a system call behind it.
PassedUp(p, t, s, cause) ==
  /\ t \in vectors[p]
  /\ oldArea' = [oldArea EXCEPT ![p][t] = [s |-> s, cause |-> cause]]
  /\ Become(p, NewArea(t))
  /\ UNCHANGED <<io, vectors>>
Except(p) ==
  /\ Executes(p)
  /\ \/ \E t \in {"TLBTRAP", "PROGTRAP"} : PassedUp(p, t, vs[p], "fault")
     \/ PassedUp(p, "SYSTRAP", Following(p), "sys")
     \/ vs[p].user /\ PassedUp(p, "PROGTRAP", Following(p), "reserved")

\* LDST of the old area, at the end of a handler.  If it was the nucleus that
\* trapped it traps again there, and the handler begins anew.
Resumed(t, s) ==
  IF t = "SYSTRAP" THEN [s EXCEPT !.pc[2] = @ + Advance] ELSE s
Return(p, t) ==
  /\ Calls(p) /\ vs[p].pc[1] = t
  /\ Become(p, IF oldArea[p][t].cause = "nucleus"
                 THEN NewArea(t)
                 ELSE Resumed(t, oldArea[p][t].s))
  /\ UNCHANGED <<io, vectors, oldArea>>

\* It terminates itself, or an ancestor does.
Die(p) ==
  /\ vs[p] # Dead
  /\ Become(p, Dead)
  /\ io' = [io EXCEPT ![p] = FALSE]
  /\ vectors' = [vectors EXCEPT ![p] = {}]
  /\ UNCHANGED oldArea

\* The exception to the promise: a trap of the nucleus itself is passed up.
NucleusTrap(p) ==
  vs[p] # Dead /\ ~io[p] /\ PassedUp(p, "PROGTRAP", Birth, "nucleus")

Init ==
  /\ \E p \in Proc : vs = [q \in Proc |-> IF q = p THEN Birth ELSE Dead]
  /\ io = [q \in Proc |-> FALSE]
  /\ vectors = [q \in Proc |-> {}]
  /\ oldArea = [q \in Proc |-> [t \in VectorTypes |-> Blank]]

\* Most of what the nucleus does, no program notices.
Next ==
  \/ UNCHANGED vpvars
  \/ \E p \in Proc :
       \/ Compute(p) \/ Call(p) \/ WaitIO(p) \/ Answered(p)
       \/ Except(p) \/ Die(p) \/ NucleusTrap(p)
       \/ \E child \in Proc : Create(p, child)
       \/ \E t \in VectorTypes : SpecVector(p, t) \/ Return(p, t)
Spec == Init /\ [][Next]_vpvars
=============================================================================
