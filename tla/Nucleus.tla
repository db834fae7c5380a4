------------------------------- MODULE Nucleus -------------------------------
(***************************************************************************)
(* The Kaya nucleus: the scheduler (phase2/scheduler.c), the exception and *)
(* system-call handlers (phase2/exceptions.c), the interrupt handler       *)
(* (phase2/interrupts.c) and the boot sequence (phase2/initial.c), over    *)
(* the process queues, process tree and active semaphore list of phase1.   *)
(*                                                                         *)
(* A process queue is the sequence of its PCBs, head first; the process    *)
(* tree is the map p_prnt; the active semaphore list is the map procQ, in  *)
(* which a semaphore without a descriptor has the empty queue.  A handler  *)
(* runs with interrupts masked and is one action, with one exception:      *)
(* avadaKedavra is recursive and may trap half way, so its recursion is    *)
(* unfolded, the variable noose being its stack of activations.            *)
(*                                                                         *)
(* User programs are nondeterministic.  They keep the conventions the      *)
(* test programs keep: P and V are applied to semaphores of their own, and *)
(* WAITIO is called once by the process that issued the command.           *)
(***************************************************************************)
EXTENDS Integers, FiniteSets, SequencesExt

CONSTANTS Proc,         \* the PCBs of procTable
          NoProc,       \* the NULL pcb_PTR
          Devices,      \* devices, in order of interrupt priority
          Clock,        \* the pseudo-clock semaphore
          UserSem,      \* semaphores that belong to user programs
          NoSem,        \* the NULL semaphore address
          VectorTypes,  \* exception types programs pass to SYS5
          MAXSEMS,      \* semaphore descriptors of the ASL
          MaxSem,       \* bound: largest value a semaphore may reach
          MaxDebt,      \* bound: the pseudo-clock's P's between two ticks
          MaxStray      \* bound: device interrupts that find no waiter

TrapTypes == {"TLBTRAP", "PROGTRAP", "SYSTRAP"}
DeviceSem == Devices \cup {Clock}
Sem == DeviceSem \cup UserSem

ASSUME ProcAssumption == IsFiniteSet(Proc) /\ Proc # {} /\ NoProc \notin Proc
ASSUME SemAssumption ==
  /\ IsFiniteSet(Sem) /\ NoSem \notin Sem
  /\ Devices \subseteq Nat /\ Clock \notin Devices
  /\ DeviceSem \cap UserSem = {}
\* MAXPROC (20) does not exceed MAXSEMS (49): h/types.h lines 88 and 109.
ASSUME SizeAssumption == MAXSEMS \in Nat /\ Cardinality(Proc) <= MAXSEMS
ASSUME ProgramAssumption == VectorTypes \subseteq TrapTypes
ASSUME BoundAssumption == {MaxSem, MaxDebt, MaxStray} \subseteq Nat

VARIABLES
  pcbFree,            \* the free list (allocPcb clears what it hands out)
  deathRowLine,       \* the ready queue
  curProc,            \* the executing process
  procQ,              \* the queue of each semaphore of the ASL
  p_semAdd,           \* the semaphore a PCB last blocked on
  p_prnt,             \* the parent link of the process tree
  p_exceptionConfig,  \* the trap types for which a PCB has a vector
  sem,                \* the value of each semaphore
  procCount, softBlkCount, waiting,
  mode,               \* what the processor does
  noose,              \* activations of avadaKedavra, the innermost last
  dev,                \* the state of each device's current operation
  issuer,             \* who issued it and has not called WAITIO yet
  strayV              \* history: device V's that found nobody queued

queueVars == <<deathRowLine, procQ, p_semAdd>>
procVars  == <<pcbFree, procCount>>
killVars  == <<p_prnt, noose>>
cpuVars   == <<deathRowLine, curProc, mode, waiting>>
devVars   == <<dev, issuer, strayV>>
vars == <<pcbFree, deathRowLine, curProc, procQ, p_semAdd, p_prnt,
          p_exceptionConfig, sem, procCount, softBlkCount, waiting, mode,
          noose, dev, issuer, strayV>>

Modes == {"run", "wait", "kill", "fallthrough",
          "halt", "panicSched", "panicExcep"}

\* "run": curProc executes.  "wait": WAIT with interrupts on.  "kill": inside
\* sys2_terminateProcess.  "fallthrough": past the end of case 7 of the
\* system-call switch.  The last three are HALT and PANIC.

Children(p) == {c \in Proc : p_prnt[c] = p}
ActiveSems == {s \in Sem : procQ[s] # <<>>}
-----------------------------------------------------------------------------
\* main: the only process is firstP, which nextVictim has dispatched.
Init ==
  /\ curProc \in Proc
  /\ pcbFree = Proc \ {curProc}
  /\ deathRowLine = <<>>
  /\ procQ = [s \in Sem |-> <<>>]
  /\ p_semAdd = [p \in Proc |-> NoSem]
  /\ p_prnt = [p \in Proc |-> NoProc]
  /\ p_exceptionConfig = [p \in Proc |-> {}]
  /\ sem \in [Sem -> 0..MaxSem]
  /\ \A s \in DeviceSem : sem[s] = 0
  /\ procCount = 1
  /\ softBlkCount = 0
  /\ waiting = FALSE
  /\ mode = "run"
  /\ noose = <<>>
  /\ dev = [d \in Devices |-> "idle"]
  /\ issuer = [d \in Devices |-> NoProc]
  /\ strayV = 0
-----------------------------------------------------------------------------
(***************************************************************************)
(* What the handlers share.                                                *)
(***************************************************************************)

\* A V that leaves v at the semaphore has a waiter to release (line 283 of
\* exceptions.c, lines 93 and 127 of interrupts.c).
\* Mutant of Releases: a V up to 0 releases nobody.
ReleasesLate(v) == v < 0
Releases(v) == v <= 0

\* What nextVictim does with the processor, given the ready queue, the
\* number of processes and the number of processes waiting for an event.
\* Mutant of Verdict: softBlkCount is looked at before procCount.
VerdictDeadlockFirst(ready, procs, soft) ==
  CASE ready # <<>> -> "run"
    [] ready = <<>> /\ soft = 0 -> "panicSched"
    [] ready = <<>> /\ soft # 0 /\ procs = 0 -> "halt"
    [] ready = <<>> /\ soft # 0 /\ procs # 0 -> "wait"
Verdict(ready, procs, soft) ==
  CASE ready # <<>> -> "run"
    [] ready = <<>> /\ procs = 0 -> "halt"
    [] ready = <<>> /\ procs # 0 /\ soft = 0 -> "panicSched"
    [] ready = <<>> /\ procs # 0 /\ soft # 0 -> "wait"

\* nextVictim, the flag `waiting` being w when it is called.
NextVictim(ready, procs, soft, w) ==
  /\ mode' = Verdict(ready, procs, soft)
  /\ curProc' = IF ready = <<>> THEN NoProc ELSE Head(ready)
  /\ deathRowLine' = IF ready = <<>> THEN <<>> ELSE Tail(ready)
  /\ waiting' = (w \/ mode' = "wait")

\* insertBlocked finds a descriptor for s, or a free one.
\* Mutant of HasSemd: one descriptor short.
HasSemdOneLess(s) == s \in ActiveSems \/ Cardinality(ActiveSems) < MAXSEMS - 1
HasSemd(s) == s \in ActiveSems \/ Cardinality(ActiveSems) < MAXSEMS

\* blockCurProc: when the ASL has no descriptor left insertBlocked changes
\* nothing and says so, but its answer is not looked at.
BlockCurProc(s, soft) ==
  /\ IF HasSemd(s)
       THEN /\ procQ' = [procQ EXCEPT ![s] = Append(@, curProc)]
            /\ p_semAdd' = [p_semAdd EXCEPT ![curProc] = s]
       ELSE UNCHANGED <<procQ, p_semAdd>>
  /\ NextVictim(deathRowLine, procCount, soft, waiting)

\* sys2_terminateProcess up to the body of avadaKedavra.
\* Mutant of TerminateProcess: no outChild(curProc).
TerminateLinked ==
  /\ noose' = <<curProc>>
  /\ mode' = "kill"
  /\ UNCHANGED p_prnt
TerminateProcess ==
  /\ p_prnt' = [p_prnt EXCEPT ![curProc] = NoProc]
  /\ noose' = <<curProc>>
  /\ mode' = "kill"

\* innocentOrNoose: no current process, no vector for the trap, or a vector,
\* in which case the handler that trapped is abandoned where it stands.
InnocentOrNoose(trap) ==
  \/ /\ curProc = NoProc
     /\ mode' = "panicExcep"
     /\ UNCHANGED killVars
  \/ /\ curProc # NoProc
     /\ trap \notin p_exceptionConfig[curProc]
     /\ TerminateProcess
  \/ /\ curProc # NoProc
     /\ trap \in p_exceptionConfig[curProc]
     /\ mode' = "run"
     /\ noose' = <<>>
     /\ UNCHANGED p_prnt
-----------------------------------------------------------------------------
(***************************************************************************)
(* System calls and traps of the current process.                          *)
(***************************************************************************)

\* SYS1: allocPcb may hand out any free PCB; without one, nothing happens.
CreateProcess ==
  /\ mode = "run"
  /\ \E child \in pcbFree :
       /\ pcbFree' = pcbFree \ {child}
       /\ p_semAdd' = [p_semAdd EXCEPT ![child] = NoSem]
       /\ p_exceptionConfig' = [p_exceptionConfig EXCEPT ![child] = {}]
       /\ p_prnt' = [p_prnt EXCEPT ![child] = curProc]
       /\ deathRowLine' = Append(deathRowLine, child)
       /\ procCount' = procCount + 1
  /\ UNCHANGED <<curProc, procQ, sem, softBlkCount, waiting, mode, noose,
                 devVars>>

CreateRefused ==
  /\ mode = "run"
  /\ pcbFree = {}
  /\ UNCHANGED vars

\* SYS2.
Terminate ==
  /\ mode = "run"
  /\ TerminateProcess
  /\ UNCHANGED <<queueVars, procVars, curProc, p_exceptionConfig, sem,
                 softBlkCount, waiting, devVars>>

\* SYS3.
\* Mutant of Verhogen: the tail of the queue is released.
VerhogenLast(s) ==
  /\ mode = "run"
  /\ sem[s] < MaxSem
  /\ sem' = [sem EXCEPT ![s] = @ + 1]
  /\ IF Releases(sem'[s]) /\ procQ[s] # <<>>
       THEN /\ deathRowLine' = Append(deathRowLine, Last(procQ[s]))
            /\ procQ' = [procQ EXCEPT ![s] = Front(@)]
       ELSE UNCHANGED <<deathRowLine, procQ>>
  /\ UNCHANGED <<procVars, killVars, devVars, curProc, p_semAdd,
                 p_exceptionConfig, softBlkCount, waiting, mode>>
Verhogen(s) ==
  /\ mode = "run"
  /\ sem[s] < MaxSem
  /\ sem' = [sem EXCEPT ![s] = @ + 1]
  /\ IF Releases(sem'[s]) /\ procQ[s] # <<>>
       THEN /\ deathRowLine' = Append(deathRowLine, Head(procQ[s]))
            /\ procQ' = [procQ EXCEPT ![s] = Tail(@)]
       ELSE UNCHANGED <<deathRowLine, procQ>>
  /\ UNCHANGED <<procVars, killVars, devVars, curProc, p_semAdd,
                 p_exceptionConfig, softBlkCount, waiting, mode>>

\* SYS4.
Passeren(s) ==
  /\ mode = "run"
  /\ sem' = [sem EXCEPT ![s] = @ - 1]
  /\ IF sem'[s] < 0
       THEN BlockCurProc(s, softBlkCount)
       ELSE UNCHANGED <<procQ, p_semAdd, cpuVars>>
  /\ UNCHANGED <<procVars, killVars, devVars, p_exceptionConfig,
                 softBlkCount>>

\* SYS5: a second vector for the same trap type is an error.
SpecTrap(trap) ==
  /\ mode = "run"
  /\ \/ /\ trap \in p_exceptionConfig[curProc]
        /\ TerminateProcess
        /\ UNCHANGED p_exceptionConfig
     \/ /\ trap \notin p_exceptionConfig[curProc]
        /\ p_exceptionConfig' = [p_exceptionConfig EXCEPT ![curProc] =
                                   @ \cup {trap}]
        /\ UNCHANGED <<killVars, mode>>
  /\ UNCHANGED <<queueVars, procVars, curProc, sem, softBlkCount, waiting,
                 devVars>>

\* SYS7: the switch falls into case 8 when the P does not block.  A kill
\* does not give back the P of its victim: MaxDebt bounds them.
WaitClock ==
  /\ mode = "run"
  /\ sem[Clock] > -MaxDebt
  /\ sem' = [sem EXCEPT ![Clock] = @ - 1]
  /\ IF sem'[Clock] < 0
       THEN /\ softBlkCount' = softBlkCount + 1
            /\ BlockCurProc(Clock, softBlkCount')
       ELSE /\ mode' = "fallthrough"
            /\ UNCHANGED <<queueVars, curProc, softBlkCount, waiting>>
  /\ UNCHANGED <<procVars, killVars, devVars, p_exceptionConfig>>

\* SYS8, by the process that started the operation: a P that does not block
\* means the interrupt came first, which the nucleus does not handle.
WaitIO(d) ==
  /\ mode = "run"
  /\ issuer[d] = curProc
  /\ issuer' = [issuer EXCEPT ![d] = NoProc]
  /\ sem' = [sem EXCEPT ![d] = @ - 1]
  /\ IF sem'[d] < 0
       THEN /\ softBlkCount' = softBlkCount + 1
            /\ BlockCurProc(d, softBlkCount')
       ELSE /\ mode' = "panicExcep"
            /\ UNCHANGED <<queueVars, curProc, softBlkCount, waiting>>
  /\ UNCHANGED <<procVars, killVars, p_exceptionConfig, dev, strayV>>

\* Any trap of the current process: a program trap, a TLB exception, a
\* system call above 8, or a privileged one in user mode.
Exception(trap) ==
  /\ mode = "run"
  /\ InnocentOrNoose(trap)
  /\ UNCHANGED <<queueVars, procVars, curProc, p_exceptionConfig, sem,
                 softBlkCount, waiting, devVars>>

\* Outside the nucleus: the current process writes a device's command
\* register.  MaxSem and MaxStray bound what unawaited operations leave behind.
StartIO(d) ==
  /\ mode = "run"
  /\ dev[d] = "idle" /\ issuer[d] = NoProc
  /\ sem[d] < MaxSem /\ strayV < MaxStray
  /\ dev' = [dev EXCEPT ![d] = "busy"]
  /\ issuer' = [issuer EXCEPT ![d] = curProc]
  /\ UNCHANGED <<queueVars, procVars, killVars, curProc, p_exceptionConfig,
                 sem, softBlkCount, waiting, mode, strayV>>
-----------------------------------------------------------------------------
(***************************************************************************)
(* avadaKedavra.                                                           *)
(***************************************************************************)
Doomed == Last(noose)

\* while(!emptyChild(p)) avadaKedavra(removeChild(p)).
\* Mutant of KillChild: headChild instead of removeChild.
KillChildLinked ==
  /\ mode = "kill" /\ noose # <<>>
  /\ \E c \in Children(Doomed) : noose' = Append(noose, c)
  /\ UNCHANGED <<queueVars, procVars, cpuVars, devVars, p_exceptionConfig,
                 sem, softBlkCount, p_prnt>>
KillChild ==
  /\ mode = "kill" /\ noose # <<>>
  /\ \E c \in Children(Doomed) :
       /\ p_prnt' = [p_prnt EXCEPT ![c] = NoProc]
       /\ noose' = Append(noose, c)
  /\ UNCHANGED <<queueVars, procVars, cpuVars, devVars, p_exceptionConfig,
                 sem, softBlkCount>>

\* freePcb, procCount-- and the return.  (A dead process awaits no device.)
\* Mutant of Reap: procCount-- in sys2 instead of avadaKedavra.
ReapCountsRoot(p) ==
  /\ pcbFree' = pcbFree \cup {p}
  /\ procCount' = IF p = curProc THEN procCount - 1 ELSE procCount
  /\ noose' = Front(noose)
  /\ issuer' = [d \in Devices |-> IF issuer[d] = p THEN NoProc ELSE issuer[d]]
  /\ UNCHANGED <<p_semAdd, p_prnt, p_exceptionConfig, curProc, waiting, mode,
                 dev, strayV>>
Reap(p) ==
  /\ pcbFree' = pcbFree \cup {p}
  /\ procCount' = procCount - 1
  /\ noose' = Front(noose)
  /\ issuer' = [d \in Devices |-> IF issuer[d] = p THEN NoProc ELSE issuer[d]]
  /\ UNCHANGED <<p_semAdd, p_prnt, p_exceptionConfig, curProc, waiting, mode,
                 dev, strayV>>

\* Mutant of Childless: if instead of while.
ChildlessDropped == mode = "kill" /\ noose # <<>>
Childless == mode = "kill" /\ noose # <<>> /\ Children(Doomed) = {}

\* A PCB that never blocked has p_semAdd = NULL, which is 0xFFFFFFFF: the
\* search for it runs past the MAXINT sentinel of the ASL and dereferences
\* NULL, and the nucleus takes a program trap of its own.
\* Mutant of SearchTraps: the ASL has no tail sentinel.
SearchTrapsAtEnd(p) == p_semAdd[p] = NoSem \/ ActiveSems = {}
SearchTraps(p) == p_semAdd[p] = NoSem

\* Between the first and the last element of semaphores[].
\* Mutant of IsDeviceSem: semEnd short of the pseudo-clock.
IsDeviceSemButLast(s) == s \in Devices
IsDeviceSem(s) == s \in DeviceSem

\* The answers of outProcQ(&deathRowLine, p) and of outBlocked(p).
IsReady == Doomed \in ToSet(deathRowLine)
IsBlocked ==
  /\ ~SearchTraps(Doomed)
  /\ Doomed \in ToSet(procQ[p_semAdd[Doomed]])

ReapReady ==
  /\ Childless
  /\ \E i \in 1..Len(deathRowLine) :
       /\ deathRowLine[i] = Doomed
       /\ deathRowLine' = RemoveAt(deathRowLine, i)
  /\ Reap(Doomed)
  /\ UNCHANGED <<procQ, sem, softBlkCount>>

ReapBlocked ==
  /\ Childless /\ ~IsReady /\ IsBlocked
  /\ LET s == p_semAdd[Doomed] IN
       /\ \E i \in 1..Len(procQ[s]) :
            /\ procQ[s][i] = Doomed
            /\ procQ' = [procQ EXCEPT ![s] = RemoveAt(@, i)]
       /\ \/ /\ IsDeviceSem(s)
             /\ softBlkCount' = softBlkCount - 1
             /\ UNCHANGED sem
          \/ /\ ~IsDeviceSem(s)
             /\ sem' = [sem EXCEPT ![s] = @ + 1]
             /\ UNCHANGED softBlkCount
  /\ Reap(Doomed)
  /\ UNCHANGED deathRowLine

\* Neither ready nor blocked.  With a stale semaphore address outBlocked
\* finds nothing, as it should.
ReapRunning ==
  /\ Childless /\ ~IsReady /\ ~IsBlocked
  /\ ~SearchTraps(Doomed)
  /\ Reap(Doomed)
  /\ UNCHANGED <<deathRowLine, procQ, sem, softBlkCount>>

\* outBlocked traps.
ReapNeverBlocked ==
  /\ Childless /\ ~IsReady
  /\ SearchTraps(Doomed)
  /\ InnocentOrNoose("PROGTRAP")
  /\ UNCHANGED <<queueVars, procVars, curProc, p_exceptionConfig, sem,
                 softBlkCount, waiting, devVars>>

\* The rest of sys2_terminateProcess.
Terminated ==
  /\ mode = "kill" /\ noose = <<>>
  /\ NextVictim(deathRowLine, procCount, softBlkCount, waiting)
  /\ UNCHANGED <<procVars, killVars, devVars, procQ, p_semAdd,
                 p_exceptionConfig, sem, softBlkCount>>
-----------------------------------------------------------------------------
(***************************************************************************)
(* intHandler.  Interrupts are enabled while a process runs and in WAIT.   *)
(***************************************************************************)
Interruptible == mode \in {"run", "wait"}

\* The common epilogue, the ready queue being `ready`.
\* Mutant of ReturnFromInterrupt: `waiting` is not cleared.
ReturnStillWaiting(ready, soft) ==
  IF waiting \/ curProc = NoProc
    THEN NextVictim(ready, procCount, soft, waiting)
    ELSE /\ deathRowLine' = ready
         /\ UNCHANGED <<curProc, mode, waiting>>
ReturnFromInterrupt(ready, soft) ==
  IF waiting \/ curProc = NoProc
    THEN NextVictim(ready, procCount, soft, FALSE)
    ELSE /\ deathRowLine' = ready
         /\ UNCHANGED <<curProc, mode, waiting>>

\* Line 1.  WAIT is entered with the timer at MAXINT: it only ends a quantum.
\* Mutant of LocalTimer: WAIT is entered with the quantum running.
LocalTimerNotParked ==
  /\ Interruptible
  /\ NextVictim(Append(deathRowLine, curProc), procCount, softBlkCount,
                waiting)
  /\ UNCHANGED <<procVars, killVars, devVars, procQ, p_semAdd,
                 p_exceptionConfig, sem, softBlkCount>>
\* Mutant of LocalTimer: curProc goes back to the head.
LocalTimerToFront ==
  /\ mode = "run"
  /\ NextVictim(<<curProc>> \o deathRowLine, procCount, softBlkCount, waiting)
  /\ UNCHANGED <<procVars, killVars, devVars, procQ, p_semAdd,
                 p_exceptionConfig, sem, softBlkCount>>
LocalTimer ==
  /\ mode = "run"
  /\ NextVictim(Append(deathRowLine, curProc), procCount, softBlkCount,
                waiting)
  /\ UNCHANGED <<procVars, killVars, devVars, procQ, p_semAdd,
                 p_exceptionConfig, sem, softBlkCount>>

\* Line 2.
\* Mutant of ClockAfterTick: the pseudo-clock is not reset.
ClockAfterTickKept == sem[Clock] + 1
ClockAfterTick == 0

IntervalTimer ==
  /\ Interruptible
  /\ LET released == IF Releases(sem[Clock] + 1) THEN procQ[Clock] ELSE <<>> IN
       /\ procQ' = [procQ EXCEPT ![Clock] = IF released = <<>> THEN @ ELSE <<>>]
       /\ softBlkCount' = softBlkCount - Len(released)
       /\ ReturnFromInterrupt(deathRowLine \o released, softBlkCount')
  /\ sem' = [sem EXCEPT ![Clock] = ClockAfterTick]
  /\ UNCHANGED <<procVars, killVars, devVars, p_semAdd, p_exceptionConfig>>

\* Mutant of VDevice: an interrupt nobody waits for is dropped.
VDeviceIfAwaited(d) ==
  sem' = [sem EXCEPT ![d] = IF procQ[d] = <<>> THEN @ ELSE @ + 1]
VDevice(d) == sem' = [sem EXCEPT ![d] = @ + 1]

\* Lines 3 to 7: the pending device of the highest priority is acknowledged
\* and its semaphore V'ed.
DeviceInterrupt(d) ==
  /\ Interruptible
  /\ dev[d] = "done"
  /\ \A e \in Devices : dev[e] = "done" => d <= e
  /\ dev' = [dev EXCEPT ![d] = "idle"]
  /\ VDevice(d)
  /\ \/ /\ ~Releases(sem'[d])                  \* nobody has waited yet
        /\ ReturnFromInterrupt(deathRowLine, softBlkCount)
        /\ UNCHANGED <<procQ, softBlkCount, killVars, strayV>>
     \/ /\ Releases(sem'[d]) /\ procQ[d] # <<>>  \* the waiter is released
        /\ procQ' = [procQ EXCEPT ![d] = Tail(@)]
        /\ softBlkCount' = softBlkCount - 1
        /\ ReturnFromInterrupt(Append(deathRowLine, Head(procQ[d])),
                               softBlkCount')
        /\ UNCHANGED <<killVars, strayV>>
     \/ /\ Releases(sem'[d]) /\ procQ[d] = <<>>  \* the waiter was killed:
        /\ softBlkCount' = softBlkCount - 1     \* p is NULL, and storing
        /\ InnocentOrNoose("PROGTRAP")          \* p->p_s.s_v0 traps
        /\ strayV' = strayV + 1
        /\ UNCHANGED <<procQ, deathRowLine, curProc, waiting>>
  /\ UNCHANGED <<procVars, p_semAdd, p_exceptionConfig, issuer>>

\* Outside the nucleus: the device completes its operation.
DeviceDone(d) ==
  /\ dev[d] = "busy"
  /\ dev' = [dev EXCEPT ![d] = "done"]
  /\ UNCHANGED <<queueVars, procVars, killVars, curProc, p_exceptionConfig,
                 sem, softBlkCount, waiting, mode, issuer, strayV>>
-----------------------------------------------------------------------------
Stopped == mode \in {"halt", "panicSched", "panicExcep"}

\* HALT and PANIC do not return.
StayStopped == Stopped /\ UNCHANGED vars

SystemCall ==
  \/ CreateProcess \/ CreateRefused \/ Terminate \/ WaitClock
  \/ \E s \in UserSem : Verhogen(s) \/ Passeren(s)
  \/ \E t \in VectorTypes : SpecTrap(t)
  \/ \E d \in Devices : WaitIO(d)

Kill ==
  \/ KillChild \/ ReapReady \/ ReapBlocked \/ ReapRunning
  \/ ReapNeverBlocked \/ Terminated

Next ==
  \/ SystemCall
  \/ \E t \in TrapTypes : Exception(t)
  \/ Kill
  \/ LocalTimer \/ IntervalTimer
  \/ \E d \in Devices : StartIO(d) \/ DeviceDone(d) \/ DeviceInterrupt(d)
  \/ StayStopped

Spec == Init /\ [][Next]_vars

(***************************************************************************)
(* Fairness.  The nucleus's own code runs on.  A device completes what it  *)
(* was asked to do.  A timer or device interrupt stays pending until it is *)
(* taken, handlers mask interrupts only for their own duration: strong     *)
(* fairness.  Nothing is assumed of user programs.                         *)
(***************************************************************************)
Fairness ==
  /\ WF_vars(Kill)
  /\ SF_vars(LocalTimer) /\ SF_vars(IntervalTimer)
  /\ \A d \in Devices : WF_vars(DeviceDone(d)) /\ SF_vars(DeviceInterrupt(d))

FairSpec == Spec /\ Fairness
-----------------------------------------------------------------------------
(***************************************************************************)
(* Invariants.                                                             *)
(***************************************************************************)

\* The type of the state: pcb_t, the ASL and the globals of initial.c.
TypeOK ==
  /\ pcbFree \subseteq Proc
  /\ deathRowLine \in Seq(Proc)
  /\ curProc \in Proc \cup {NoProc}
  /\ procQ \in [Sem -> Seq(Proc)]
  /\ p_semAdd \in [Proc -> Sem \cup {NoSem}]
  /\ p_prnt \in [Proc -> Proc \cup {NoProc}]
  /\ p_exceptionConfig \in [Proc -> SUBSET TrapTypes]
  /\ sem \in [Sem -> Int]
  /\ procCount \in Int /\ softBlkCount \in Int
  /\ waiting \in BOOLEAN
  /\ mode \in Modes
  /\ noose \in Seq(Proc)
  /\ dev \in [Devices -> {"idle", "busy", "done"}]
  /\ issuer \in [Devices -> Proc \cup {NoProc}]
  /\ strayV \in Nat

BlockedOn(s) == ToSet(procQ[s])
Blocked == UNION {BlockedOn(s) : s \in Sem}
SoftBlocked == UNION {BlockedOn(s) : s \in DeviceSem}
Ready == ToSet(deathRowLine)

\* Between freeing the current process and nextVictim, curProc dangles.
Executing == IF mode = "kill" /\ noose = <<>> THEN {} ELSE {curProc} \ {NoProc}

\* No PCB is lost or in two places, whatever the order of system calls,
\* interrupts and kills: each is free, ready, executing or blocked, once, and
\* a blocked one is in the queue its p_semAdd names, where outBlocked seeks it.
PcbConservation ==
  /\ pcbFree \cup Ready \cup Executing \cup Blocked = Proc
  /\ pcbFree \cap (Ready \cup Executing \cup Blocked) = {}
  /\ Ready \cap (Executing \cup Blocked) = {}
  /\ Executing \cap Blocked = {}
  /\ IsInjective(deathRowLine)
  /\ \A s \in Sem : IsInjective(procQ[s])
  /\ \A s \in Sem : \A p \in BlockedOn(s) : p_semAdd[p] = s

\* procCount is the number of live processes at every step of a kill, so the
\* HALT of nextVictim comes when the last one is gone and not before.
ProcCountExact ==
  /\ procCount = Cardinality(Proc \ pcbFree)
  /\ mode = "halt" => pcbFree = Proc

\* The process tree: free PCBs are not linked and there is no cycle, so that
\* avadaKedavra reaches the whole subtree and comes back.
TreeInv ==
  /\ \A p \in Proc : p_prnt[p] # NoProc => {p, p_prnt[p]} \cap pcbFree = {}
  /\ \A S \in SUBSET Proc : S # {} => \E p \in S : p_prnt[p] \notin S

\* A user semaphore is negative exactly while processes wait in its queue, and
\* then by their number, though kills take waiters out of the middle.
UserSemInv ==
  \A s \in UserSem :
    Len(procQ[s]) = IF sem[s] < 0 THEN -sem[s] ELSE 0

\* The pseudo-clock never rises above 0 between handlers, so WAITCLOCK always
\* blocks, and it counts at least its waiters, so a tick releases them all.
ClockInv ==
  /\ mode # "fallthrough"
  /\ Len(procQ[Clock]) <= -sem[Clock]

\* No lost wakeup: a device has at most one waiter, and while it has one its
\* operation is in flight and the next V of its semaphore is the waiter's.
DeviceWakeup ==
  \A d \in Devices :
    procQ[d] # <<>> =>
      /\ Len(procQ[d]) = 1 /\ sem[d] = -1
      /\ dev[d] # "idle" /\ issuer[d] = NoProc

\* softBlkCount is the number of processes that wait for the clock or for a
\* device, less one for each interrupt whose waiter had been killed: kill and
\* interrupt handler then both take the same process off the count.
SoftBlkExact == softBlkCount = Cardinality(SoftBlocked) - strayV

\* The flag `waiting` is set only while the processor idles; a stale one would
\* make the next interrupt drop the process it interrupted.
IdleInv ==
  /\ waiting => mode \in {"wait", "panicExcep"}
  /\ mode = "wait" => waiting /\ curProc = NoProc /\ deathRowLine = <<>>

\* Until an interrupt has missed its waiter, nextVictim is right: it panics
\* only if nobody waits for an event, and idles only if somebody does.
IdleVerdict ==
  strayV = 0 =>
    /\ mode = "panicSched" => SoftBlocked = {} /\ pcbFree # Proc
    /\ mode = "wait" => SoftBlocked # {}

\* A kill strikes off exactly one stack of activations, rooted at the current
\* process; none of them is dead already or has a parent left.
NooseInv ==
  /\ mode # "kill" => noose = <<>>
  /\ noose # <<>> => Head(noose) = curProc
  /\ IsInjective(noose)
  /\ \A p \in ToSet(noose) : p \notin pcbFree /\ p_prnt[p] = NoProc
-----------------------------------------------------------------------------
(***************************************************************************)
(* Action properties.                                                      *)
(***************************************************************************)

\* The first k processes in the queue of s are made ready, in their order, and
\* one of the ready queue may be dispatched.
Woken(s, k) ==
  /\ procQ'[s] = SubSeq(procQ[s], k + 1, Len(procQ[s]))
  /\ deathRowLine \o SubSeq(procQ[s], 1, k) =
       IF curProc' = curProc THEN deathRowLine'
                             ELSE <<curProc'>> \o deathRowLine'

\* A process leaves the queue of a semaphore for the ready queue, from the head
\* of the one to the tail of the other, or else it dies: no handler wakes a
\* process out of turn or moves it to another semaphore, whoever is killed in
\* the middle of the queue.
InOrder(s) ==
  \/ procQ'[s] = procQ[s]
  \/ \E k \in 0..Len(procQ[s]) : Woken(s, k)
  \/ curProc \in Proc /\ procQ'[s] = Append(procQ[s], curProc)
  \/ \E i \in 1..Len(procQ[s]) :
       /\ procQ[s][i] \in pcbFree' \ pcbFree
       /\ procQ'[s] = RemoveAt(procQ[s], i)

WakeInOrder == [][\A s \in Sem : InOrder(s)]_vars

\* An interrupt returns to the process it interrupted or dispatches another:
\* it neither kills a process nor stops a system that has work to wait for.
InterruptHarmless ==
  [][\A d \in Devices : DeviceInterrupt(d) => mode' \in {"run", "wait"}]_vars
-----------------------------------------------------------------------------
(***************************************************************************)
(* Liveness, of FairSpec.  The system may stop, and it may be caught in    *)
(* the nucleus: a process that never blocked and has no vector for program *)
(* traps terminates, traps in the nucleus, is terminated for it, and so on *)
(* for ever.                                                               *)
(***************************************************************************)
Wedged ==
  /\ mode = "kill" /\ noose = <<curProc>>
  /\ p_semAdd[curProc] = NoSem
  /\ "PROGTRAP" \notin p_exceptionConfig[curProc]
  /\ Children(curProc) = {}

Live == ~Stopped /\ ~Wedged

\* Round robin: a ready process executes, or is killed, in the end.
NoStarvation ==
  \A p \in Proc : p \in Ready ~> (p \notin Ready \/ ~Live)

\* Who waits for the clock is released by the next tick.
ClockReleases ==
  \A p \in Proc : p \in BlockedOn(Clock) ~> (p \notin BlockedOn(Clock) \/ ~Live)

\* Who waits for a device is released when the device completes.
DeviceReleases ==
  \A d \in Devices : procQ[d] # <<>> ~> (procQ[d] = <<>> \/ ~Live)

\* A process that has blocked before terminates for good, with all progeny.
TerminationCompletes ==
  \A p \in Proc :
    mode = "kill" /\ curProc = p /\ p_semAdd[p] # NoSem ~> p \in pcbFree

\* The same for every process without a vector for program traps: SYS2 "kills
\* the executing process and all descendents".
TerminateKills ==
  \A p \in Proc :
    mode = "kill" /\ curProc = p /\ "PROGTRAP" \notin p_exceptionConfig[p]
      ~> p \in pcbFree
=============================================================================
