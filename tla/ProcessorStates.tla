---------------------------- MODULE ProcessorStates ----------------------------
(***************************************************************************)
(* The processor states that the nucleus moves about: from the processor   *)
(* to the old area of an exception, where the hardware puts it, from there *)
(* to p_s of the current process and to the old area that its program      *)
(* specified, and back.  A handler being one action, the nucleus's own old *)
(* areas are values.                                                       *)
(*                                                                         *)
(* Of a state there are the PC, counted in instructions of the program or  *)
(* of one of its handlers, the mode and v0.                                *)
(***************************************************************************)
EXTENDS Nucleus

CONSTANTS Dead,    \* the state of a free PCB
          MaxPC,   \* bound: the instructions of a program,
          MaxHPC,  \* and of its handlers
          Advance  \* what the program's handler of SYSTRAP adds to the old
                   \* PC, which is past the system call already

States == [pc : ({"main"} \cup TrapTypes) \X Nat, user : BOOLEAN, v0 : Int]

ASSUME StateAssumption == {MaxPC, MaxHPC, Advance} \subseteq Nat /\ Dead \notin States

VARIABLES
  cpu,   \* the processor's state; of no interest without a current process
  p_s,   \* the saved states
  area,  \* the old areas that the programs specified
  due    \* history: the next instruction of each program

svars == <<vars, cpu, p_s, area, due>>

\* What a process sees: its state, whether it waits for a device, its vectors.
vs == [p \in Proc |-> IF p \in pcbFree THEN Dead
                      ELSE IF p = curProc THEN cpu ELSE p_s[p]]
io == [p \in Proc |-> \E d \in Devices : p \in BlockedOn(d)]
vectors == [p \in Proc |-> IF p \in pcbFree THEN {} ELSE p_exceptionConfig[p]]

VP == INSTANCE VirtualProcessors WITH oldArea <- area
-----------------------------------------------------------------------------
\* What the processor goes on with: s if the current process does, or else
\* what nextVictim finds in p_s.
Load(states, s) ==
  /\ p_s' = states
  /\ cpu' = IF curProc' = NoProc THEN VP!Birth
            ELSE IF curProc' # curProc THEN states[curProc']
            ELSE IF mode' = "run" THEN s ELSE cpu

\* sysCallHandler: the state in SYSOLDAREA once its PC is advanced, and p_s
\* with the re-entry context set.
\* Mutant of OldSys: the PC is not advanced.
OldSysSame == cpu
OldSys == [cpu EXCEPT !.pc = VP!After(@)]
Saved == [p_s EXCEPT ![curProc] = OldSys]

\* The end of a quantum saves the state.
\* Mutant of Interrupted: it does not.
InterruptedNot == p_s
Interrupted == [p_s EXCEPT ![curProc] = cpu]

\* The history: n instructions of a program are behind it.
Behind(n) ==
  due' = IF cpu.pc[1] = VP!Main THEN [due EXCEPT ![curProc] = @ + n] ELSE due
Counted == Behind(1)

Executes ==
  mode = "run" /\ cpu.pc[2] < IF cpu.pc[1] = VP!Main THEN MaxPC ELSE MaxHPC
-----------------------------------------------------------------------------
(***************************************************************************)
(* Programs.                                                               *)
(***************************************************************************)
Compute ==
  /\ Executes
  /\ \/ /\ \E u \in {cpu.user, TRUE} :
             cpu' = [cpu EXCEPT !.pc = VP!After(@), !.user = u]
        /\ UNCHANGED vars
     \/ /\ \E d \in Devices : StartIO(d)
        /\ cpu' = [cpu EXCEPT !.pc = VP!After(@)]
  /\ Counted /\ UNCHANGED <<p_s, area>>

Calls == Executes /\ ~cpu.user /\ Counted /\ UNCHANGED area

SysCall ==
  /\ Calls
  /\ \/ Terminate \/ WaitClock
     \/ \E s \in UserSem : Verhogen(s) \/ Passeren(s)
     \/ \E t \in VectorTypes : SpecTrap(t)
     \/ \E d \in Devices : WaitIO(d)
  /\ Load(Saved, OldSys)

\* SYS1 and SYS6 put their result into SYSOLDAREA.
Result(n) == [OldSys EXCEPT !.v0 = n]
CreateNone == Calls /\ CreateRefused /\ Load(Saved, Result(-1))
GetCPUTime ==
  Calls /\ UNCHANGED vars /\ Load(Saved, Result(VP!Answer))
Create ==
  /\ Executes /\ ~cpu.user
  /\ CreateProcess
  /\ \E child \in pcbFree \ pcbFree' :
       /\ Load([Saved EXCEPT ![child] = VP!Birth], Result(0))
       /\ area' = [area EXCEPT ![child] = [t \in VectorTypes |-> VP!Blank]]
       /\ due' = [due EXCEPT
                    ![curProc] = IF cpu.pc[1] = VP!Main THEN @ + 1 ELSE @,
                    ![child] = 0]

\* innocentOrNoose, with s in the nucleus's old area.
PassUp(t, s, cause) ==
  IF mode' # "run" THEN Load(p_s, cpu) /\ UNCHANGED area
  ELSE /\ area' = [area EXCEPT ![curProc][t] = [s |-> s, cause |-> cause]]
       /\ Load([p_s EXCEPT ![curProc] = VP!NewArea(t)], VP!NewArea(t))

Fault(t) ==
  Executes /\ Exception(t) /\ PassUp(t, cpu, "fault") /\ UNCHANGED due
HighCall ==
  /\ Executes
  /\ Exception("SYSTRAP") /\ PassUp("SYSTRAP", OldSys, "sys")
  /\ Behind(1 + Advance)
PrivilegedCall ==
  /\ Executes /\ cpu.user
  /\ Exception("PROGTRAP") /\ PassUp("PROGTRAP", OldSys, "reserved")
  /\ Counted

\* A handler of the program ends with LDST of its old area.  Where the nucleus
\* has trapped it traps again, and that is passed up again.
Return(t) ==
  /\ Executes /\ ~cpu.user /\ cpu.pc[1] = t
  /\ LET old == area[curProc][t] IN
       IF old.cause = "nucleus"
         THEN /\ cpu' = VP!NewArea(t)
              /\ p_s' = [p_s EXCEPT ![curProc] = VP!NewArea(t)]
         ELSE cpu' = VP!Resumed(t, old.s) /\ UNCHANGED p_s
  /\ UNCHANGED <<vars, area, due>>
-----------------------------------------------------------------------------
(***************************************************************************)
(* The nucleus, which may itself trap (ReapNeverBlocked, an interrupt whose *)
(* waiter is dead), and interrupts.                                        *)
(***************************************************************************)
NucleusTrap == PassUp("PROGTRAP", VP!Birth, "nucleus")

KillStep ==
  /\ Kill
  /\ IF noose # <<>> /\ mode' = "run"
       THEN NucleusTrap
       ELSE Load(p_s, cpu) /\ UNCHANGED area
  /\ UNCHANGED due

QuantumEnd ==
  /\ LocalTimer
  /\ Load(Interrupted, Interrupted[curProc])
  /\ UNCHANGED <<area, due>>
ClockTick == IntervalTimer /\ Load(p_s, cpu) /\ UNCHANGED <<area, due>>

\* p->p_s.s_v0 = status, if p was released.
IOInterrupt(d) ==
  /\ DeviceInterrupt(d)
  /\ \/ /\ procQ' # procQ /\ UNCHANGED area
        /\ Load([p_s EXCEPT ![Head(procQ[d])].v0 = VP!Answer], cpu)
     \/ procQ' = procQ /\ strayV' = strayV /\ Load(p_s, cpu) /\ UNCHANGED area
     \/ strayV' # strayV /\ NucleusTrap
  /\ UNCHANGED due

Outside ==
  /\ (\E d \in Devices : DeviceDone(d)) \/ StayStopped
  /\ UNCHANGED <<cpu, p_s, area, due>>

SInit ==
  /\ Init /\ \A s \in UserSem : sem[s] = MaxSem
  /\ cpu = VP!Birth
  /\ p_s = [p \in Proc |-> VP!Birth]
  /\ area = [p \in Proc |-> [t \in VectorTypes |-> VP!Blank]]
  /\ due = [p \in Proc |-> 0]

SNext ==
  \/ Compute \/ SysCall \/ CreateNone \/ GetCPUTime \/ Create
  \/ Fault("TLBTRAP") \/ Fault("PROGTRAP") \/ HighCall \/ PrivilegedCall
  \/ \E t \in VectorTypes : Return(t)
  \/ KillStep \/ QuantumEnd \/ ClockTick
  \/ \E d \in Devices : IOInterrupt(d)
  \/ Outside

SSpec == SInit /\ [][SNext]_svars

Symmetry == Permutations(Proc)
-----------------------------------------------------------------------------
\* Each process has a processor of its own: see VirtualProcessors.
OwnProcessor == VP!Spec

\* A program executes its instructions in order, each once, whatever comes
\* between: it comes back to those that fault, and leaves out only those that
\* its handler of SYSTRAP skips, `Advance` after each system call passed up
\* (exceptions.c, 97, and p2test.c, 473, both advance the PC).
InSequence ==
  mode = "run" /\ cpu.pc[1] = VP!Main => cpu.pc[2] = due[curProc]
=============================================================================
