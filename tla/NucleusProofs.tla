---------------------------- MODULE NucleusProofs ----------------------------
(***************************************************************************)
(* The nucleus, for any number of processes, devices and user semaphores:  *)
(* its types, its structure (where each PCB is, the tree, a termination    *)
(* under way), its counts (semaphores, procCount, softBlkCount), the order *)
(* of its queues, and that it implements ProcessTable.                     *)
(***************************************************************************)
EXTENDS NucleusTable, QueueLemmas
-----------------------------------------------------------------------------
\* Types.

\* While the processor runs a process there is one.
RunInv == mode \in {"run"} => curProc \in Proc

TypeInv == TypeOK /\ RunInv

\* What nextVictim leaves behind.
LEMMA NextVictimType ==
  ASSUME NEW ready \in Seq(Proc), NEW procs, NEW soft, NEW w \in BOOLEAN,
         NextVictim(ready, procs, soft, w)
  PROVE  /\ mode' \in Modes
         /\ curProc' \in Proc \cup {NoProc}
         /\ deathRowLine' \in Seq(Proc)
         /\ waiting' \in BOOLEAN
         /\ RunInv'
<1>1. mode' = "run" <=> ready # <<>>
  BY DEF NextVictim, Verdict
<1>2. mode' \in Modes
  BY DEF NextVictim, Verdict, Modes
<1>3. CASE ready = <<>>
  BY <1>1, <1>2, <1>3 DEF NextVictim, RunInv
<1>4. CASE ready # <<>>
  BY <1>1, <1>2, <1>4, TailQueue DEF NextVictim, RunInv
<1> QED BY <1>3, <1>4

LEMMA BlockCurProcType ==
  ASSUME TypeInv, mode = "run", NEW s \in Sem, NEW soft, BlockCurProc(s, soft)
  PROVE  /\ mode' \in Modes
         /\ curProc' \in Proc \cup {NoProc}
         /\ deathRowLine' \in Seq(Proc)
         /\ waiting' \in BOOLEAN
         /\ RunInv'
         /\ procQ' \in [Sem -> Seq(Proc)]
         /\ p_semAdd' \in [Proc -> Sem \cup {NoSem}]
<1>1. curProc \in Proc
  BY DEF TypeInv, RunInv
<1>2. procQ' \in [Sem -> Seq(Proc)] /\ p_semAdd' \in [Proc -> Sem \cup {NoSem}]
  <2>1. Append(procQ[s], curProc) \in Seq(Proc)
    BY <1>1 DEF TypeInv, TypeOK
  <2> QED BY <1>1, <2>1 DEF BlockCurProc, TypeInv, TypeOK
<1>3. NextVictim(deathRowLine, procCount, soft, waiting)
  BY DEF BlockCurProc
<1>4. deathRowLine \in Seq(Proc) /\ waiting \in BOOLEAN
  BY DEF TypeInv, TypeOK
<1> QED BY <1>2, <1>3, <1>4, NextVictimType

LEMMA InnocentOrNooseType ==
  ASSUME TypeInv, NEW trap \in TrapTypes, InnocentOrNoose(trap)
  PROVE  /\ mode' \in Modes
         /\ p_prnt' \in [Proc -> Proc \cup {NoProc}]
         /\ noose' \in Seq(Proc)
         /\ mode' = "run" => curProc \in Proc
<1>1. CASE curProc = NoProc
  BY <1>1 DEF InnocentOrNoose, TypeInv, TypeOK, Modes, killVars
<1>2. CASE curProc # NoProc
  <2>1. curProc \in Proc
    BY <1>2 DEF TypeInv, TypeOK
  <2>2. CASE trap \notin p_exceptionConfig[curProc]
    <3>1. <<curProc>> \in Seq(Proc)
      BY <2>1
    <3> QED BY <1>2, <2>1, <2>2, <3>1
            DEF InnocentOrNoose, TerminateProcess, TypeInv, TypeOK, Modes
  <2>3. CASE trap \in p_exceptionConfig[curProc]
    <3>1. mode' = "run" /\ noose' = <<>> /\ p_prnt' = p_prnt
      BY <1>2, <2>3 DEF InnocentOrNoose
    <3>2. p_prnt \in [Proc -> Proc \cup {NoProc}] /\ <<>> \in Seq(Proc)
      BY DEF TypeInv, TypeOK
    <3> QED BY <2>1, <3>1, <3>2 DEF Modes
  <2> QED BY <2>2, <2>3
<1> QED BY <1>1, <1>2

LEMMA ReturnFromInterruptType ==
  ASSUME TypeInv, NEW ready \in Seq(Proc), NEW soft,
         ReturnFromInterrupt(ready, soft)
  PROVE  /\ mode' \in Modes
         /\ curProc' \in Proc \cup {NoProc}
         /\ deathRowLine' \in Seq(Proc)
         /\ waiting' \in BOOLEAN
         /\ RunInv'
<1>1. CASE waiting \/ curProc = NoProc
  BY <1>1, NextVictimType DEF ReturnFromInterrupt
<1>2. CASE ~(waiting \/ curProc = NoProc)
  BY <1>2 DEF ReturnFromInterrupt, TypeInv, TypeOK, RunInv
<1> QED BY <1>1, <1>2

LEMMA ReapType ==
  ASSUME TypeInv, NEW p \in Proc, Reap(p), noose # <<>>, mode = "kill"
  PROVE  /\ pcbFree' \subseteq Proc
         /\ procCount' \in Int
         /\ noose' \in Seq(Proc)
         /\ issuer' \in [Devices -> Proc \cup {NoProc}]
         /\ UNCHANGED <<p_semAdd, p_prnt, p_exceptionConfig, curProc, waiting,
                        mode, dev, strayV>>
         /\ RunInv'
<1>1. noose' \in Seq(Proc)
  BY FrontQueue DEF Reap, TypeInv, TypeOK
<1> QED BY <1>1 DEF Reap, TypeInv, TypeOK, RunInv

LEMMA DoomedType ==
  ASSUME TypeOK, noose # <<>>
  PROVE  Doomed \in Proc
BY FrontQueue DEF Doomed, TypeOK

\* The facts about constants that the steps need.
LEMMA SemFacts ==
  /\ Clock \in Sem /\ Clock \notin Devices /\ UserSem \subseteq Sem
  /\ Devices \subseteq Sem /\ Devices \subseteq DeviceSem
  /\ Clock \in DeviceSem /\ DeviceSem \subseteq Sem
  /\ NoSem \notin Sem /\ NoProc \notin Proc
  /\ \A s \in UserSem : s \notin DeviceSem
BY SemAssumption, ProcAssumption DEF Sem, DeviceSem

\* Type correctness is inductive together with RunInv.
LEMMA TypeStep ==
  ASSUME TypeInv, [Next]_vars
  PROVE  TypeInv'
<1> USE DEF TypeInv
<1> USE SemFacts
<1>1. CASE CreateProcess
  <2>1. PICK child \in pcbFree :
          /\ pcbFree' = pcbFree \ {child}
          /\ p_semAdd' = [p_semAdd EXCEPT ![child] = NoSem]
          /\ p_exceptionConfig' = [p_exceptionConfig EXCEPT ![child] = {}]
          /\ p_prnt' = [p_prnt EXCEPT ![child] = curProc]
          /\ deathRowLine' = Append(deathRowLine, child)
          /\ procCount' = procCount + 1
    BY <1>1 DEF CreateProcess
  <2>2. child \in Proc /\ curProc \in Proc
    BY <1>1 DEF CreateProcess, TypeOK, RunInv
  <2>3. deathRowLine' \in Seq(Proc)
    BY <2>1, <2>2 DEF TypeOK
  <2> QED BY <1>1, <2>1, <2>2, <2>3 DEF CreateProcess, TypeOK, RunInv, devVars
<1>2. CASE CreateRefused
  BY <1>2 DEF CreateRefused, TypeOK, RunInv, vars
<1>3. CASE Terminate
  <2>1. curProc \in Proc /\ <<curProc>> \in Seq(Proc)
    BY <1>3 DEF Terminate, RunInv
  <2> QED BY <1>3, <2>1 DEF Terminate, TerminateProcess, TypeOK, RunInv, Modes,
                            queueVars, procVars, devVars
<1>4. CASE WaitClock
  <2>1. sem' \in [Sem -> Int]
    BY <1>4 DEF WaitClock, TypeOK
  <2>2. CASE sem'[Clock] < 0
    <3>1. softBlkCount' \in Int /\ BlockCurProc(Clock, softBlkCount')
      BY <1>4, <2>2 DEF WaitClock, TypeOK
    <3> QED BY <1>4, <2>1, <3>1, BlockCurProcType
            DEF WaitClock, TypeOK, procVars, killVars, devVars
  <2>3. CASE ~(sem'[Clock] < 0)
    BY <1>4, <2>1, <2>3 DEF WaitClock, TypeOK, RunInv, Modes, queueVars,
                            procVars, killVars, devVars
  <2> QED BY <2>2, <2>3
<1>5. ASSUME NEW s \in UserSem, Verhogen(s) PROVE TypeInv'
  <2>1. sem' \in [Sem -> Int]
    BY <1>5 DEF Verhogen, TypeOK
  <2>2. deathRowLine' \in Seq(Proc) /\ procQ' \in [Sem -> Seq(Proc)]
    <3>1. CASE Releases(sem'[s]) /\ procQ[s] # <<>>
      <4>1. procQ[s] \in Seq(Proc)
        BY DEF TypeOK
      <4>2. Head(procQ[s]) \in Proc /\ Tail(procQ[s]) \in Seq(Proc)
        BY <3>1, <4>1, TailQueue
      <4>3. /\ deathRowLine' = Append(deathRowLine, Head(procQ[s]))
            /\ procQ' = [procQ EXCEPT ![s] = Tail(procQ[s])]
        BY <1>5, <3>1 DEF Verhogen
      <4>4. deathRowLine' \in Seq(Proc)
        BY <4>2, <4>3, AppendQueue DEF TypeOK
      <4> QED BY <4>2, <4>3, <4>4 DEF TypeOK
    <3>2. CASE ~(Releases(sem'[s]) /\ procQ[s] # <<>>)
      BY <1>5, <3>2 DEF Verhogen, TypeOK
    <3> QED BY <3>1, <3>2
  <2> QED BY <1>5, <2>1, <2>2 DEF Verhogen, TypeOK, RunInv, procVars, killVars,
                                  devVars
<1>6. ASSUME NEW s \in UserSem, Passeren(s) PROVE TypeInv'
  <2>1. sem' \in [Sem -> Int]
    BY <1>6 DEF Passeren, TypeOK
  <2>2. CASE sem'[s] < 0
    <3>1. BlockCurProc(s, softBlkCount)
      BY <1>6, <2>2 DEF Passeren
    <3> QED BY <1>6, <2>1, <3>1, BlockCurProcType
            DEF Passeren, TypeOK, procVars, killVars, devVars
  <2>3. CASE ~(sem'[s] < 0)
    BY <1>6, <2>1, <2>3 DEF Passeren, TypeOK, RunInv, procVars, killVars,
                            devVars, cpuVars
  <2> QED BY <2>2, <2>3
<1>7. ASSUME NEW t \in VectorTypes, SpecTrap(t) PROVE TypeInv'
  <2>1. curProc \in Proc /\ <<curProc>> \in Seq(Proc) /\ t \in TrapTypes
    BY <1>7, ProgramAssumption DEF SpecTrap, RunInv
  <2>2. CASE t \in p_exceptionConfig[curProc]
    BY <1>7, <2>1, <2>2 DEF SpecTrap, TerminateProcess, TypeOK, RunInv, Modes,
                            queueVars, procVars, devVars
  <2>3. CASE t \notin p_exceptionConfig[curProc]
    BY <1>7, <2>1, <2>3 DEF SpecTrap, TypeOK, RunInv, queueVars, procVars,
                            devVars, killVars
  <2> QED BY <2>2, <2>3
<1>8. ASSUME NEW d \in Devices, WaitIO(d) PROVE TypeInv'
  <2>1. sem' \in [Sem -> Int] /\ issuer' \in [Devices -> Proc \cup {NoProc}]
    BY <1>8 DEF WaitIO, TypeOK
  <2>2. CASE sem'[d] < 0
    <3>1. softBlkCount' \in Int /\ BlockCurProc(d, softBlkCount')
      BY <1>8, <2>2 DEF WaitIO, TypeOK
    <3> QED BY <1>8, <2>1, <3>1, BlockCurProcType
            DEF WaitIO, TypeOK, procVars, killVars
  <2>3. CASE ~(sem'[d] < 0)
    BY <1>8, <2>1, <2>3 DEF WaitIO, TypeOK, RunInv, Modes, queueVars,
                            procVars, killVars
  <2> QED BY <2>2, <2>3
<1>9. ASSUME NEW t \in TrapTypes, Exception(t) PROVE TypeInv'
  BY <1>9, InnocentOrNooseType
  DEF Exception, TypeOK, RunInv, queueVars, procVars, devVars
<1>10. CASE KillChild
  <2>1. PICK c \in Proc : /\ p_prnt' = [p_prnt EXCEPT ![c] = NoProc]
                          /\ noose' = Append(noose, c)
    BY <1>10 DEF KillChild, Children
  <2>2. noose' \in Seq(Proc)
    BY <2>1 DEF TypeOK
  <2> QED BY <1>10, <2>1, <2>2 DEF KillChild, TypeOK, RunInv, queueVars,
                                   procVars, cpuVars, devVars
<1>11. CASE ReapReady
  <2>1. Doomed \in Proc /\ noose # <<>> /\ mode = "kill"
    BY <1>11, DoomedType DEF ReapReady, Childless
  <2>2. PICK i \in 1..Len(deathRowLine) : deathRowLine' = RemoveAt(deathRowLine, i)
    BY <1>11 DEF ReapReady
  <2>3. deathRowLine' \in Seq(Proc)
    BY <2>2, RemoveAtQueue DEF TypeOK
  <2> QED BY <1>11, <2>1, <2>3, ReapType DEF ReapReady, TypeOK
<1>12. CASE ReapBlocked
  <2>1. Doomed \in Proc /\ noose # <<>> /\ mode = "kill"
    BY <1>12, DoomedType DEF ReapBlocked, Childless
  <2>2. PICK s : s = p_semAdd[Doomed]
    OBVIOUS
  <2>3. s \in Sem
    BY <1>12, <2>1, <2>2 DEF ReapBlocked, IsBlocked, SearchTraps, TypeOK
  <2>4. PICK i \in 1..Len(procQ[s]) :
          procQ' = [procQ EXCEPT ![s] = RemoveAt(procQ[s], i)]
    BY <1>12, <2>2 DEF ReapBlocked
  <2>5. procQ' \in [Sem -> Seq(Proc)]
    <3>1. procQ[s] \in Seq(Proc)
      BY <2>3 DEF TypeOK
    <3>2. RemoveAt(procQ[s], i) \in Seq(Proc)
      BY <3>1, RemoveAtQueue
    <3> QED BY <2>3, <2>4, <3>2 DEF TypeOK
  <2>6. sem' \in [Sem -> Int] /\ softBlkCount' \in Int
    <3>1. CASE IsDeviceSem(s)
      BY <1>12, <2>2, <3>1 DEF ReapBlocked, TypeOK
    <3>2. CASE ~IsDeviceSem(s)
      <4>1. sem' = [sem EXCEPT ![s] = sem[s] + 1] /\ softBlkCount' = softBlkCount
        BY <1>12, <2>2, <3>2 DEF ReapBlocked
      <4> QED BY <4>1, <2>3 DEF TypeOK
    <3> QED BY <3>1, <3>2
  <2> QED BY <1>12, <2>1, <2>5, <2>6, ReapType DEF ReapBlocked, TypeOK
<1>13. CASE ReapRunning
  <2>1. Doomed \in Proc /\ noose # <<>> /\ mode = "kill"
    BY <1>13, DoomedType DEF ReapRunning, Childless
  <2> QED BY <1>13, <2>1, ReapType DEF ReapRunning, TypeOK
<1>14. CASE ReapNeverBlocked
  <2>1. "PROGTRAP" \in TrapTypes
    BY DEF TrapTypes
  <2> QED BY <1>14, <2>1, InnocentOrNooseType
          DEF ReapNeverBlocked, TypeOK, RunInv, queueVars, procVars, devVars
<1>15. CASE Terminated
  <2>1. deathRowLine \in Seq(Proc) /\ waiting \in BOOLEAN
    BY DEF TypeOK
  <2> QED BY <1>15, <2>1, NextVictimType
          DEF Terminated, TypeOK, procVars, killVars, devVars
<1>16. CASE LocalTimer
  <2>1. Append(deathRowLine, curProc) \in Seq(Proc) /\ waiting \in BOOLEAN
    BY <1>16 DEF LocalTimer, RunInv, TypeOK
  <2>2. NextVictim(Append(deathRowLine, curProc), procCount, softBlkCount,
                   waiting)
    BY <1>16 DEF LocalTimer
  <2>3. /\ mode' \in Modes /\ curProc' \in Proc \cup {NoProc}
        /\ deathRowLine' \in Seq(Proc) /\ waiting' \in BOOLEAN /\ RunInv'
    BY <2>1, <2>2, NextVictimType
  <2> QED BY <1>16, <2>3 DEF LocalTimer, TypeOK, procVars, killVars, devVars
<1>17. CASE IntervalTimer
  <2> DEFINE released == IF Releases(sem[Clock] + 1) THEN procQ[Clock] ELSE <<>>
  <2>1. /\ procQ' = [procQ EXCEPT ![Clock] =
                       IF released = <<>> THEN procQ[Clock] ELSE <<>>]
        /\ softBlkCount' = softBlkCount - Len(released)
        /\ ReturnFromInterrupt(deathRowLine \o released, softBlkCount')
    BY <1>17 DEF IntervalTimer
  <2>2. released \in Seq(Proc)
    BY DEF TypeOK
  <2>3. deathRowLine \o released \in Seq(Proc) /\ Len(released) \in Int
    BY <2>2 DEF TypeOK
  <2>4. procQ' \in [Sem -> Seq(Proc)] /\ softBlkCount' \in Int
    BY <2>1, <2>2, <2>3 DEF TypeOK
  <2>5. sem' \in [Sem -> Int]
    BY <1>17 DEF IntervalTimer, ClockAfterTick, TypeOK
  <2> HIDE DEF released
  <2> QED BY <1>17, <2>1, <2>3, <2>4, <2>5, ReturnFromInterruptType
          DEF IntervalTimer, TypeOK, procVars, killVars, devVars
<1>18. ASSUME NEW d \in Devices, DeviceInterrupt(d) PROVE TypeInv'
  <2>1. sem' \in [Sem -> Int] /\ dev' \in [Devices -> {"idle", "busy", "done"}]
    BY <1>18 DEF DeviceInterrupt, VDevice, TypeOK
  <2>2. CASE ~Releases(sem'[d])
    <3>1. ReturnFromInterrupt(deathRowLine, softBlkCount) /\ deathRowLine \in Seq(Proc)
      BY <1>18, <2>2 DEF DeviceInterrupt, TypeOK
    <3> QED BY <1>18, <2>1, <2>2, <3>1, ReturnFromInterruptType
            DEF DeviceInterrupt, TypeOK, procVars, killVars
  <2>3. CASE Releases(sem'[d]) /\ procQ[d] # <<>>
    <3>1. procQ[d] \in Seq(Proc)
      BY DEF TypeOK
    <3>2. Head(procQ[d]) \in Proc /\ Tail(procQ[d]) \in Seq(Proc)
      BY <2>3, <3>1, TailQueue
    <3>3. procQ' \in [Sem -> Seq(Proc)] /\ softBlkCount' \in Int
      <4>1. /\ procQ' = [procQ EXCEPT ![d] = Tail(procQ[d])]
            /\ softBlkCount' = softBlkCount - 1
        BY <1>18, <2>3 DEF DeviceInterrupt
      <4> QED BY <4>1, <3>2 DEF TypeOK
    <3>4. Append(deathRowLine, Head(procQ[d])) \in Seq(Proc)
      BY <3>2 DEF TypeOK
    <3>5. ReturnFromInterrupt(Append(deathRowLine, Head(procQ[d])), softBlkCount')
      BY <1>18, <2>3 DEF DeviceInterrupt
    <3> QED BY <1>18, <2>1, <2>3, <3>3, <3>4, <3>5, ReturnFromInterruptType
            DEF DeviceInterrupt, TypeOK, procVars, killVars
  <2>4. CASE Releases(sem'[d]) /\ procQ[d] = <<>>
    <3>1. /\ InnocentOrNoose("PROGTRAP") /\ "PROGTRAP" \in TrapTypes
          /\ softBlkCount' \in Int /\ strayV' \in Nat
          /\ UNCHANGED <<procQ, deathRowLine, curProc, waiting>>
      BY <1>18, <2>4 DEF DeviceInterrupt, TypeOK, TrapTypes
    <3> QED BY <1>18, <2>1, <3>1, InnocentOrNooseType
            DEF DeviceInterrupt, TypeOK, RunInv, procVars
  <2> QED BY <2>2, <2>3, <2>4
<1>19. ASSUME NEW d \in Devices, StartIO(d) PROVE TypeInv'
  BY <1>19 DEF StartIO, TypeOK, RunInv, queueVars, procVars, killVars
<1>20. ASSUME NEW d \in Devices, DeviceDone(d) PROVE TypeInv'
  BY <1>20 DEF DeviceDone, TypeOK, RunInv, queueVars, procVars, killVars
<1>21. CASE StayStopped
  BY <1>21 DEF StayStopped, TypeOK, RunInv, vars
<1>22. CASE UNCHANGED vars
  BY <1>22 DEF TypeOK, RunInv, vars
<1> QED
  BY <1>1, <1>2, <1>3, <1>4, <1>5, <1>6, <1>7, <1>8, <1>9, <1>10, <1>11, <1>12,
     <1>13, <1>14, <1>15, <1>16, <1>17, <1>18, <1>19, <1>20, <1>21, <1>22
  DEF Next, SystemCall, Kill

LEMMA TypeInit == Init => TypeInv
<1> SUFFICES ASSUME Init PROVE TypeInv
  OBVIOUS
<1> USE SemFacts
<1>1. <<>> \in Seq(Proc)
  OBVIOUS
<1>2. sem \in [Sem -> Int]
  <2>1. sem \in [Sem -> 0..MaxSem]
    BY DEF Init
  <2>2. 0..MaxSem \subseteq Int
    OBVIOUS
  <2> QED BY <2>1, <2>2
<1>3. procQ \in [Sem -> Seq(Proc)]
  BY <1>1 DEF Init
<1>4. /\ pcbFree \subseteq Proc /\ curProc \in Proc
      /\ deathRowLine \in Seq(Proc) /\ noose \in Seq(Proc)
  BY <1>1 DEF Init
<1>5. /\ p_semAdd \in [Proc -> Sem \cup {NoSem}]
      /\ p_prnt \in [Proc -> Proc \cup {NoProc}]
      /\ p_exceptionConfig \in [Proc -> SUBSET TrapTypes]
      /\ dev \in [Devices -> {"idle", "busy", "done"}]
      /\ issuer \in [Devices -> Proc \cup {NoProc}]
  BY DEF Init
<1>6. /\ procCount \in Int /\ softBlkCount \in Int /\ waiting \in BOOLEAN
      /\ mode \in Modes /\ strayV \in Nat
  <2>1. procCount = 1 /\ softBlkCount = 0 /\ mode = "run" /\ strayV = 0
    BY DEF Init
  <2>2. waiting \in BOOLEAN
    BY Zenon DEF Init
  <2> QED BY <2>1, <2>2 DEF Modes
<1> QED BY <1>2, <1>3, <1>4, <1>5, <1>6 DEF TypeInv, TypeOK, RunInv

\* Type correctness: no handler puts a NULL process into a queue, or an empty
\* queue's head into curProc, in any interleaving.
THEOREM TypeCorrect == Spec => []TypeOK
<1>1. TypeInv /\ [Next]_vars => TypeInv'
  BY TypeStep
<1>2. TypeInv => TypeOK
  BY DEF TypeInv
<1> QED BY TypeInit, <1>1, <1>2, PTL DEF Spec
-----------------------------------------------------------------------------
(***************************************************************************)
(* Structure: where each PCB is, which processes a termination has under   *)
(* way, and the process tree.                                              *)
(***************************************************************************)
\* A queue is handed to nextVictim: its head executes, the rest is ready.
LEMMA Dispatch ==
  ASSUME NEW ready \in Seq(Proc), IsInjective(ready), NEW n, NEW k, NEW w,
         NextVictim(ready, n, k, w)
  PROVE  /\ mode' # "kill"
         /\ Executing' = {curProc'} \ {NoProc}
         /\ IsInjective(deathRowLine')
         /\ Ready' \cap Executing' = {}
         /\ Ready' \cup Executing' = ToSet(ready)
<1>1. mode' # "kill"
  BY DEF NextVictim, Verdict
<1>2. Executing' = {curProc'} \ {NoProc}
  BY <1>1 DEF Executing
<1>3. CASE ready = <<>>
  <2>1. curProc' = NoProc /\ deathRowLine' = ready
    BY <1>3 DEF NextVictim
  <2>2. ToSet(ready) = {}
    BY <1>3, ToSetDef
  <2> QED BY <1>1, <1>2, <2>1, <2>2 DEF Ready
<1>4. CASE ready # <<>>
  <2>1. curProc' = Head(ready) /\ deathRowLine' = Tail(ready)
    BY <1>4 DEF NextVictim
  <2>2. curProc' # NoProc
    BY <1>4, <2>1, TailQueue, ProcAssumption
  <2> QED BY <1>1, <1>2, <1>4, <2>1, <2>2, TailQueue DEF Ready
<1> QED BY <1>3, <1>4

\* The epilogue of intHandler keeps the interrupted process.
LEMMA Resume ==
  ASSUME TypeInv, IdleInv, Interruptible,
         NEW ready \in Seq(Proc), IsInjective(ready), NEW k,
         ToSet(ready) \cap Executing = {},
         ReturnFromInterrupt(ready, k)
  PROVE  /\ mode' # "kill"
         /\ IsInjective(deathRowLine')
         /\ Ready' \cap Executing' = {}
         /\ Ready' \cup Executing' = ToSet(ready) \cup Executing
<1>1. Executing = {curProc} \ {NoProc} /\ mode # "kill"
  BY DEF Executing, Interruptible
<1>2. CASE waiting \/ curProc = NoProc
  <2>1. curProc = NoProc
    BY <1>2 DEF IdleInv, Interruptible, TypeInv, RunInv
  <2>2. NextVictim(ready, procCount, k, FALSE)
    BY <1>2 DEF ReturnFromInterrupt
  <2> QED BY <1>1, <2>1, <2>2, Dispatch
<1>3. CASE ~(waiting \/ curProc = NoProc)
  <2>1. deathRowLine' = ready /\ curProc' = curProc /\ mode' = mode
    BY <1>3 DEF ReturnFromInterrupt
  <2>2. Executing' = Executing
    BY <1>1, <2>1 DEF Executing
  <2> QED BY <1>1, <2>1, <2>2 DEF Ready
<1> QED BY <1>2, <1>3

-----------------------------------------------------------------------------
\* PcbConservation, PCB by PCB.
Placed ==
  /\ \A p \in Proc :
       \/ p \in pcbFree \/ p \in Ready \/ p \in Executing
       \/ \E s \in Sem : p \in BlockedOn(s)
  /\ \A p \in Proc :
       /\ p \in pcbFree => p \notin Ready /\ p \notin Executing
       /\ p \in Ready => p \notin Executing
       /\ \A s \in Sem :
            p \in BlockedOn(s) =>
              /\ p \notin pcbFree /\ p \notin Ready /\ p \notin Executing
              /\ p_semAdd[p] = s
  /\ IsInjective(deathRowLine)
  /\ \A s \in Sem : IsInjective(procQ[s])

LEMMA PlacesTyped ==
  ASSUME TypeOK
  PROVE  /\ Ready \subseteq Proc /\ Executing \subseteq Proc
         /\ \A s \in Sem : BlockedOn(s) \subseteq Proc
<1>1. Ready \subseteq Proc
  BY ToSetDef DEF TypeOK, Ready
<1>2. Executing \subseteq Proc
  BY DEF TypeOK, Executing
<1>3. ASSUME NEW s \in Sem PROVE BlockedOn(s) \subseteq Proc
  <2>1. procQ[s] \in Seq(Proc)
    BY DEF TypeOK
  <2> QED BY <2>1, ToSetDef DEF BlockedOn
<1> QED BY <1>1, <1>2, <1>3

LEMMA PlacedIff ==
  ASSUME TypeOK
  PROVE  PcbConservation <=> Placed
<1>1. \A p : p \in Blocked <=> \E s \in Sem : p \in BlockedOn(s)
  BY DEF Blocked
<1>2. /\ Ready \subseteq Proc /\ Executing \subseteq Proc /\ pcbFree \subseteq Proc
      /\ \A s \in Sem : BlockedOn(s) \subseteq Proc
  BY PlacesTyped DEF TypeOK
<1>3. Blocked \subseteq Proc
  BY <1>1, <1>2
<1> HIDE DEF Blocked, Ready, Executing
<1>4. ASSUME PcbConservation PROVE Placed
  BY <1>1, <1>2, <1>4 DEF PcbConservation, Placed
<1>5. ASSUME Placed PROVE PcbConservation
  <2>1. pcbFree \cup Ready \cup Executing \cup Blocked = Proc
    BY <1>1, <1>2, <1>3, <1>5 DEF Placed
  <2>2. /\ pcbFree \cap (Ready \cup Executing \cup Blocked) = {}
        /\ Ready \cap (Executing \cup Blocked) = {}
        /\ Executing \cap Blocked = {}
    BY <1>1, <1>2, <1>5 DEF Placed
  <2>3. \A s \in Sem : \A p \in BlockedOn(s) : p_semAdd[p] = s
    BY <1>2, <1>5 DEF Placed
  <2> QED BY <1>5, <2>1, <2>2, <2>3 DEF Placed, PcbConservation
<1> QED BY <1>4, <1>5

\* insertBlocked never runs out of descriptors: each active semaphore has a
\* waiter of its own, and the running process is none of them.
LEMMA DescriptorLeft ==
  ASSUME TypeInv, Placed, mode = "run", NEW s \in Sem
  PROVE  HasSemd(s)
<1> DEFINE others == Proc \ {curProc}
           f == [a \in ActiveSems |-> Head(procQ[a])]
<1>1. curProc \in Proc /\ curProc \in Executing
  BY ProcAssumption DEF TypeInv, RunInv, Executing
<1>2. ASSUME NEW a \in ActiveSems
      PROVE  /\ a \in Sem /\ f[a] \in BlockedOn(a)
             /\ f[a] \in others /\ p_semAdd[f[a]] = a
  <2>1. a \in Sem /\ procQ[a] \in Seq(Proc) /\ procQ[a] # <<>>
    BY DEF ActiveSems, TypeInv, TypeOK
  <2>2. f[a] \in BlockedOn(a) /\ f[a] \in Proc
    BY <2>1, TailQueue DEF BlockedOn
  <2> HIDE DEF f
  <2> QED BY <1>1, <2>1, <2>2 DEF Placed
<1>3. f \in Injection(ActiveSems, others)
  <2>1. f \in [ActiveSems -> others]
    BY <1>2
  <2>2. ASSUME NEW a \in ActiveSems, NEW b \in ActiveSems, f[a] = f[b]
        PROVE  a = b
    BY <1>2, <2>2
  <2> QED BY <2>1, <2>2 DEF Injection, IsInjective
<1>4. IsFiniteSet(others) /\ Cardinality(others) = Cardinality(Proc) - 1
  BY <1>1, ProcAssumption, FS_RemoveElement
<1>5. IsFiniteSet(ActiveSems) /\ Cardinality(ActiveSems) <= Cardinality(others)
  BY <1>3, <1>4, FS_Injection
<1>6. Cardinality(ActiveSems) \in Nat /\ Cardinality(Proc) \in Nat
  BY <1>5, ProcAssumption, FS_CardinalityType
<1> QED BY <1>4, <1>5, <1>6, SizeAssumption DEF HasSemd

\* The flag `waiting` by itself: only nextVictim sets it.
LEMMA IdleStep ==
  ASSUME TypeInv, IdleInv, [Next]_vars
  PROVE  IdleInv'
<1>1. ASSUME NEW ready, NEW n, NEW k, NEW w, NextVictim(ready, n, k, w), w = FALSE
      PROVE  IdleInv'
  BY <1>1 DEF NextVictim, Verdict, IdleInv
<1>2. ASSUME NEW s, NEW k, mode = "run", BlockCurProc(s, k) PROVE IdleInv'
  <2>1. NextVictim(deathRowLine, procCount, k, waiting) /\ waiting = FALSE
    BY <1>2 DEF BlockCurProc, IdleInv, TypeInv, TypeOK
  <2> QED BY <2>1, <1>1
<1>3. ASSUME NEW ready, NEW k, Interruptible, ReturnFromInterrupt(ready, k)
      PROVE  IdleInv'
  <2>1. CASE waiting \/ curProc = NoProc
    BY <1>1, <1>3, <2>1 DEF ReturnFromInterrupt
  <2>2. CASE ~(waiting \/ curProc = NoProc)
    BY <1>3, <2>2 DEF ReturnFromInterrupt, IdleInv, Interruptible
  <2> QED BY <2>1, <2>2
<1>4. ASSUME NEW t, InnocentOrNoose(t), UNCHANGED waiting,
             mode \in {"run", "wait", "kill"}
      PROVE  IdleInv'
  <2>1. mode' \in {"panicExcep", "kill", "run"}
    BY <1>4 DEF InnocentOrNoose, TerminateProcess
  <2>2. mode = "wait" => mode' = "panicExcep"
    BY <1>4 DEF InnocentOrNoose, IdleInv
  <2> QED BY <1>4, <2>1, <2>2 DEF IdleInv
<1>5. CASE SystemCall
  <2>1. CASE CreateProcess
    BY <2>1 DEF CreateProcess, IdleInv
  <2>2. CASE CreateRefused
    BY <2>2 DEF CreateRefused, IdleInv, vars
  <2>3. CASE Terminate
    BY <2>3 DEF Terminate, TerminateProcess, IdleInv, queueVars
  <2>4. CASE WaitClock
    <3>1. CASE sem'[Clock] < 0
      BY <2>4, <3>1, <1>2 DEF WaitClock
    <3>2. CASE ~(sem'[Clock] < 0)
      BY <2>4, <3>2 DEF WaitClock, IdleInv, queueVars
    <3> QED BY <3>1, <3>2
  <2>5. ASSUME NEW s \in UserSem, Verhogen(s) PROVE IdleInv'
    BY <2>5 DEF Verhogen, IdleInv
  <2>6. ASSUME NEW s \in UserSem, Passeren(s) PROVE IdleInv'
    <3>1. CASE sem'[s] < 0
      BY <2>6, <3>1, <1>2 DEF Passeren
    <3>2. CASE ~(sem'[s] < 0)
      BY <2>6, <3>2 DEF Passeren, IdleInv, cpuVars
    <3> QED BY <3>1, <3>2
  <2>7. ASSUME NEW t \in VectorTypes, SpecTrap(t) PROVE IdleInv'
    BY <2>7 DEF SpecTrap, TerminateProcess, IdleInv, queueVars
  <2>8. ASSUME NEW d \in Devices, WaitIO(d) PROVE IdleInv'
    <3>1. CASE sem'[d] < 0
      BY <2>8, <3>1, <1>2 DEF WaitIO
    <3>2. CASE ~(sem'[d] < 0)
      BY <2>8, <3>2 DEF WaitIO, IdleInv, queueVars
    <3> QED BY <3>1, <3>2
  <2> QED BY <1>5, <2>1, <2>2, <2>3, <2>4, <2>5, <2>6, <2>7, <2>8 DEF SystemCall
<1>6. ASSUME NEW t \in TrapTypes, Exception(t) PROVE IdleInv'
  BY <1>4, <1>6 DEF Exception
<1>7. CASE Kill
  <2>1. CASE KillChild
    BY <2>1 DEF KillChild, IdleInv, cpuVars
  <2>2. ASSUME mode = "kill", UNCHANGED <<mode, waiting>> PROVE IdleInv'
    BY <2>2 DEF IdleInv
  <2>3. CASE ReapReady
    BY <2>2, <2>3 DEF ReapReady, Reap, Childless
  <2>4. CASE ReapBlocked
    BY <2>2, <2>4 DEF ReapBlocked, Reap, Childless
  <2>5. CASE ReapRunning
    BY <2>2, <2>5 DEF ReapRunning, Reap, Childless
  <2>6. CASE ReapNeverBlocked
    BY <1>4, <2>6 DEF ReapNeverBlocked, Childless
  <2>7. CASE Terminated
    <3>1. waiting = FALSE
      BY <2>7 DEF Terminated, IdleInv, TypeInv, TypeOK
    <3> QED BY <2>7, <3>1, <1>1 DEF Terminated
  <2> QED BY <1>7, <2>1, <2>3, <2>4, <2>5, <2>6, <2>7 DEF Kill
<1>8. CASE LocalTimer
  <2>1. waiting = FALSE
    BY <1>8 DEF LocalTimer, IdleInv, TypeInv, TypeOK
  <2> QED BY <1>8, <2>1, <1>1 DEF LocalTimer
<1>9. CASE IntervalTimer
  BY <1>3, <1>9 DEF IntervalTimer
<1>10. ASSUME NEW d \in Devices, DeviceInterrupt(d) PROVE IdleInv'
  <2>1. CASE InnocentOrNoose("PROGTRAP") /\ UNCHANGED waiting
    BY <1>4, <1>10, <2>1 DEF DeviceInterrupt, Interruptible
  <2>2. CASE ~(InnocentOrNoose("PROGTRAP") /\ UNCHANGED waiting)
    BY <1>3, <1>10, <2>2 DEF DeviceInterrupt
  <2> QED BY <2>1, <2>2
<1>11. ASSUME NEW d \in Devices, StartIO(d) PROVE IdleInv'
  BY <1>11 DEF StartIO, IdleInv, queueVars
<1>12. ASSUME NEW d \in Devices, DeviceDone(d) PROVE IdleInv'
  BY <1>12 DEF DeviceDone, IdleInv, queueVars
<1>13. CASE StayStopped
  BY <1>13 DEF StayStopped, IdleInv, vars
<1>14. CASE UNCHANGED vars
  BY <1>14 DEF IdleInv, vars
<1> QED BY <1>5, <1>6, <1>7, <1>8, <1>9, <1>10, <1>11, <1>12, <1>13, <1>14 DEF Next

-----------------------------------------------------------------------------
\* The two halves of TreeInv.
LinksLive == \A p \in Proc : p_prnt[p] # NoProc => {p, p_prnt[p]} \cap pcbFree = {}
Acyclic == \A S \in SUBSET Proc : S # {} => \E p \in S : p_prnt[p] \notin S

StructInv ==
  /\ TypeInv
  /\ IdleInv
  /\ PcbConservation
  /\ NooseInv
  /\ TreeInv

\* Cutting links and leaving the free list alone keeps the tree a tree.
LEMMA CutLinks ==
  ASSUME TypeOK, TreeInv,
         \A p \in Proc : p_prnt'[p] \in {p_prnt[p], NoProc},
         pcbFree' = pcbFree
  PROVE  TreeInv'
<1>1. LinksLive'
  BY DEF TreeInv, LinksLive
<1>2. Acyclic'
  <2>1. ASSUME NEW S \in SUBSET Proc, S # {} PROVE \E p \in S : p_prnt'[p] \notin S
    <3>1. PICK p \in S : p_prnt[p] \notin S
      BY <2>1 DEF TreeInv
    <3>2. NoProc \notin S
      BY ProcAssumption
    <3> QED BY <3>1, <3>2
  <2> QED BY <2>1 DEF Acyclic
<1> QED BY <1>1, <1>2 DEF TreeInv, LinksLive, Acyclic

LEMMA NoNoose ==
  ASSUME noose' = <<>>
  PROVE  NooseInv'
<1>1. ToSet(noose') = {} /\ IsInjective(noose')
  BY DEF ToSet, IsInjective
<1> QED BY <1>1 DEF NooseInv

\* A step that moves nobody.
LEMMA StillPlaced ==
  ASSUME Placed, Executing' = Executing,
         UNCHANGED <<pcbFree, deathRowLine, procQ, p_semAdd>>
  PROVE  Placed'
<1>1. /\ Ready' = Ready
      /\ \A s \in Sem : BlockedOn(s)' = BlockedOn(s)
  BY DEF Ready, BlockedOn
<1> HIDE DEF Ready, BlockedOn, Executing
<1> QED BY <1>1 DEF Placed

\* sys2_terminateProcess and innocentOrNoose move nobody; they may condemn
\* the current process.
LEMMA Judge ==
  ASSUME StructInv, NEW trap \in TrapTypes,
         InnocentOrNoose(trap) \/ (mode = "run" /\ TerminateProcess),
         Interruptible \/ (mode = "kill" /\ noose # <<>>),
         UNCHANGED <<pcbFree, curProc>>
  PROVE  Executing' = Executing /\ NooseInv' /\ TreeInv'
<1>0. TypeInv /\ TypeOK /\ TreeInv /\ NooseInv /\ Placed
  BY PlacedIff DEF StructInv, TypeInv
<1>1. Executing = {curProc} \ {NoProc}
  BY DEF Executing, Interruptible
<1>2. CASE InnocentOrNoose(trap) /\ curProc = NoProc
  <2>1. mode' = "panicExcep" /\ UNCHANGED killVars
    BY <1>2 DEF InnocentOrNoose
  <2>2. noose = <<>>
    <3>1. SUFFICES ASSUME noose # <<>> PROVE FALSE
      OBVIOUS
    <3>2. Head(noose) = NoProc /\ Head(noose) \in Proc
      BY <1>0, <1>2, <3>1, TailQueue DEF NooseInv, TypeOK
    <3> QED BY <3>2, ProcAssumption
  <2>3. Executing' = Executing
    BY <1>1, <2>1 DEF Executing
  <2>4. NooseInv' /\ TreeInv'
    BY <1>0, <2>1, <2>2, NoNoose, CutLinks DEF killVars
  <2> QED BY <2>3, <2>4
<1>3. CASE TerminateProcess /\ curProc # NoProc
  <2>1. /\ p_prnt' = [p_prnt EXCEPT ![curProc] = NoProc]
        /\ noose' = <<curProc>> /\ mode' = "kill"
    BY <1>3 DEF TerminateProcess
  <2>2. curProc \in Proc /\ curProc \notin pcbFree
    BY <1>0, <1>1, <1>3 DEF TypeOK, Placed
  <2>3. Executing' = Executing
    BY <1>1, <2>1 DEF Executing
  <2>4. NooseInv'
    <3>1. ToSet(noose') = {curProc} /\ IsInjective(noose') /\ Head(noose') = curProc
      BY <2>1 DEF ToSet, IsInjective
    <3>2. p_prnt'[curProc] = NoProc
      BY <1>0, <2>1, <2>2 DEF TypeOK
    <3> QED BY <2>1, <2>2, <3>1, <3>2 DEF NooseInv
  <2>5. TreeInv'
    <3>1. \A p \in Proc : p_prnt'[p] \in {p_prnt[p], NoProc}
      BY <1>0, <2>1 DEF TypeOK
    <3> QED BY <1>0, <3>1, CutLinks
  <2> QED BY <2>3, <2>4, <2>5
<1>4. CASE /\ InnocentOrNoose(trap) /\ curProc # NoProc
           /\ trap \in p_exceptionConfig[curProc]
  <2>1. mode' = "run" /\ noose' = <<>> /\ p_prnt' = p_prnt
    BY <1>4 DEF InnocentOrNoose
  <2>2. Executing' = Executing
    BY <1>1, <2>1 DEF Executing
  <2>3. NooseInv' /\ TreeInv'
    BY <1>0, <2>1, NoNoose, CutLinks
  <2> QED BY <2>2, <2>3
<1>5. mode = "run" => curProc # NoProc
  BY <1>0, ProcAssumption DEF TypeInv, RunInv
<1> QED BY <1>2, <1>3, <1>4, <1>5 DEF InnocentOrNoose

\* A V or a tick: some of a semaphore's waiters become ready.
LEMMA Wakeup ==
  ASSUME TypeOK, TypeOK', Placed, NEW s \in Sem, NEW q \in Seq(Proc), NEW W,
         procQ' = [procQ EXCEPT ![s] = q],
         BlockedOn(s) = W \cup ToSet(q), W \cap ToSet(q) = {}, IsInjective(q),
         Ready' \cup Executing' = Ready \cup Executing \cup W,
         Ready' \cap Executing' = {},
         IsInjective(deathRowLine'),
         UNCHANGED <<pcbFree, p_semAdd>>
  PROVE  Placed'
<1>1. /\ BlockedOn(s)' = ToSet(q)
      /\ procQ'[s] = q
      /\ \A a \in Sem : a # s => BlockedOn(a)' = BlockedOn(a) /\ procQ'[a] = procQ[a]
  BY DEF BlockedOn, TypeOK
<1>2. \A a \in Sem : IsInjective(procQ'[a])
  BY <1>1 DEF Placed
<1> HIDE DEF Ready, Executing
<1>3. \A p \in Proc :
        \/ p \in pcbFree' \/ p \in Ready' \/ p \in Executing'
        \/ \E a \in Sem : p \in BlockedOn(a)'
  <2>1. SUFFICES ASSUME NEW p \in Proc
                 PROVE  \/ p \in pcbFree' \/ p \in Ready' \/ p \in Executing'
                        \/ \E a \in Sem : p \in BlockedOn(a)'
    OBVIOUS
  <2>2. CASE p \in pcbFree \/ p \in Ready \/ p \in Executing
    BY <2>2
  <2>3. CASE \E a \in Sem : p \in BlockedOn(a)
    <3>1. PICK a \in Sem : p \in BlockedOn(a)
      BY <2>3
    <3> HIDE DEF BlockedOn
    <3>2. CASE a = s
      BY <1>1, <3>1, <3>2
    <3>3. CASE a # s
      BY <1>1, <3>1, <3>3
    <3> QED BY <3>2, <3>3
  <2> QED BY <2>2, <2>3 DEF Placed
<1>4. \A p \in Proc : \A a \in Sem : p \in BlockedOn(a)' => p \in BlockedOn(a)
  <2> HIDE DEF BlockedOn
  <2> QED BY <1>1
<1>5. \A p \in Proc : \A a \in Sem : p \in BlockedOn(a)' => p \notin W
  <2>1. SUFFICES ASSUME NEW p \in Proc, NEW a \in Sem, p \in BlockedOn(a)', p \in W
                 PROVE  FALSE
    OBVIOUS
  <2> HIDE DEF BlockedOn
  <2>2. p \in BlockedOn(a) /\ p \in BlockedOn(s)
    BY <1>4, <2>1
  <2>3. a = s
    BY <2>2 DEF Placed
  <2> QED BY <1>1, <2>1, <2>3
<1>6. \A p \in Proc : p \in W => p \in BlockedOn(s)
  OBVIOUS
<1> HIDE DEF BlockedOn
<1>7. \A p \in Proc :
        /\ p \in pcbFree' => p \notin Ready' /\ p \notin Executing'
        /\ p \in Ready' => p \notin Executing'
    BY <1>6 DEF Placed
<1>8. \A p \in Proc : \A a \in Sem :
        p \in BlockedOn(a)' =>
          /\ p \notin pcbFree' /\ p \notin Ready' /\ p \notin Executing'
          /\ p_semAdd'[p] = a
    BY <1>4, <1>5 DEF Placed
<1> QED BY <1>2, <1>3, <1>7, <1>8 DEF Placed

-----------------------------------------------------------------------------
\* The current process joins the queue of s and another one is dispatched.
LEMMA BlockPlaced ==
  ASSUME TypeInv, Placed, mode = "run", NEW s \in Sem, NEW k,
         BlockCurProc(s, k), pcbFree' = pcbFree
  PROVE  Placed' /\ mode' # "kill"
<1>1. /\ procQ' = [procQ EXCEPT ![s] = Append(procQ[s], curProc)]
      /\ p_semAdd' = [p_semAdd EXCEPT ![curProc] = s]
      /\ NextVictim(deathRowLine, procCount, k, waiting)
  BY DescriptorLeft DEF BlockCurProc
<1>2. curProc \in Proc /\ procQ[s] \in Seq(Proc) /\ Executing = {curProc}
  BY ProcAssumption DEF TypeInv, TypeOK, RunInv, Executing
<1>3. /\ mode' # "kill" /\ IsInjective(deathRowLine')
      /\ Ready' \cap Executing' = {} /\ Ready' \cup Executing' = Ready
  BY <1>1, Dispatch DEF Placed, Ready, TypeInv, TypeOK
<1>4. /\ BlockedOn(s)' = BlockedOn(s) \cup {curProc}
      /\ \A a \in Sem : a # s => BlockedOn(a)' = BlockedOn(a)
      /\ \A a \in Sem : IsInjective(procQ'[a])
  <2>1. curProc \notin BlockedOn(s) /\ IsInjective(procQ[s])
    BY <1>2 DEF Placed
  <2>2. procQ'[s] = Append(procQ[s], curProc) /\ \A a \in Sem : a # s => procQ'[a] = procQ[a]
    BY <1>1 DEF TypeInv, TypeOK
  <2>3. IsInjective(procQ'[s]) /\ ToSet(procQ'[s]) = ToSet(procQ[s]) \cup {curProc}
    BY <1>2, <2>1, <2>2, AppendQueue DEF BlockedOn
  <2> QED BY <2>2, <2>3 DEF BlockedOn, Placed
<1>5. /\ p_semAdd'[curProc] = s
      /\ \A p \in Proc : p # curProc => p_semAdd'[p] = p_semAdd[p]
  BY <1>1, <1>2 DEF TypeInv, TypeOK
<1>6. \A p \in Proc : p \in Ready' \/ p \in Executing' => p \in Ready /\ p # curProc
  BY <1>2, <1>3 DEF Placed
<1>7. \A p \in Proc : \A a \in Sem :
        p \in BlockedOn(a)' => (p = curProc /\ a = s) \/ (p # curProc /\ p \in BlockedOn(a))
  <2>1. \A a \in Sem : curProc \notin BlockedOn(a)
    BY <1>2 DEF Placed
  <2> HIDE DEF BlockedOn
  <2> QED BY <1>4, <2>1
<1> HIDE DEF Ready, Executing, BlockedOn
<1>8. \A p \in Proc :
        \/ p \in pcbFree' \/ p \in Ready' \/ p \in Executing'
        \/ \E a \in Sem : p \in BlockedOn(a)'
  BY <1>2, <1>3, <1>4 DEF Placed
<1>9. \A p \in Proc : /\ p \in pcbFree' => p \notin Ready' /\ p \notin Executing'
                      /\ p \in Ready' => p \notin Executing'
  BY <1>3, <1>6 DEF Placed
<1>10. \A p \in Proc : \A a \in Sem : p \in BlockedOn(a)' =>
         /\ p \notin pcbFree' /\ p \notin Ready' /\ p \notin Executing'
         /\ p_semAdd'[p] = a
  BY <1>2, <1>5, <1>6, <1>7 DEF Placed
<1> QED BY <1>3, <1>4, <1>8, <1>9, <1>10 DEF Placed

\* A process dies: it leaves the place it was in for the free list.
LEMMA DeathPlaced ==
  ASSUME Placed, NEW p \in Proc,
         Ready' = Ready \ {p}, Executing' = Executing \ {p},
         \A s \in Sem : BlockedOn(s)' = BlockedOn(s) \ {p},
         IsInjective(deathRowLine'), \A s \in Sem : IsInjective(procQ'[s]),
         pcbFree' = pcbFree \cup {p}, p_semAdd' = p_semAdd
  PROVE  Placed'
<1> HIDE DEF Ready, Executing, BlockedOn
<1>1. \A q \in Proc :
        \/ q \in pcbFree' \/ q \in Ready' \/ q \in Executing'
        \/ \E s \in Sem : q \in BlockedOn(s)'
  BY DEF Placed
<1>2. \A q \in Proc : /\ q \in pcbFree' => q \notin Ready' /\ q \notin Executing'
                      /\ q \in Ready' => q \notin Executing'
  BY DEF Placed
<1>3. \A q \in Proc : \A s \in Sem : q \in BlockedOn(s)' =>
        /\ q \notin pcbFree' /\ q \notin Ready' /\ q \notin Executing'
        /\ p_semAdd'[q] = s
  BY DEF Placed
<1> QED BY <1>1, <1>2, <1>3 DEF Placed

\* The victim of one activation of avadaKedavra is the current process only in
\* the outermost activation.
LEMMA ReapStruct ==
  ASSUME StructInv, Childless, Reap(Doomed)
  PROVE  /\ Doomed \in Proc /\ Executing' = Executing \ {Doomed}
         /\ NooseInv' /\ TreeInv'
<1>0. TypeOK /\ NooseInv /\ TreeInv /\ Placed
  BY PlacedIff DEF StructInv, TypeInv
<1>1. /\ mode = "kill" /\ noose # <<>> /\ Children(Doomed) = {}
      /\ noose \in Seq(Proc) /\ IsInjective(noose)
      /\ Head(noose) = curProc
  BY <1>0 DEF Childless, NooseInv, TypeOK
<1>2. /\ pcbFree' = pcbFree \cup {Doomed} /\ noose' = Front(noose)
      /\ mode' = "kill" /\ curProc' = curProc /\ p_prnt' = p_prnt
  BY <1>1 DEF Reap
<1>3. /\ Doomed \in Proc /\ Doomed \in ToSet(noose)
      /\ noose' \in Seq(Proc) /\ IsInjective(noose')
      /\ ToSet(noose') = ToSet(noose) \ {Doomed}
      /\ noose' # <<>> => Head(noose') = curProc
  BY <1>1, <1>2, FrontQueue DEF Doomed
<1>4. curProc \in Proc /\ curProc \in ToSet(noose)
  BY <1>1, TailQueue
<1>5. Executing = {curProc}
  BY <1>1, <1>4, ProcAssumption DEF Executing
<1>6. Executing' = Executing \ {Doomed}
  <2>1. CASE noose' = <<>>
    <3>1. ToSet(noose') = {}
      BY <1>3, <2>1, ToSetDef
    <3>2. curProc = Doomed
      BY <1>3, <1>4, <3>1
    <3> QED BY <1>2, <1>5, <2>1, <3>2 DEF Executing
  <2>2. CASE noose' # <<>>
    <3>1. curProc \in ToSet(noose')
      BY <1>3, <2>2, TailQueue
    <3>2. curProc # Doomed
      BY <1>3, <3>1
    <3>3. Executing' = {curProc}
      BY <1>2, <1>4, <2>2, ProcAssumption DEF Executing
    <3> QED BY <1>5, <3>2, <3>3
  <2> QED BY <2>1, <2>2
<1>7. NooseInv'
  BY <1>0, <1>2, <1>3 DEF NooseInv
<1>8. TreeInv'
  <2>1. \A p \in Proc : p_prnt[p] # Doomed
    BY <1>1 DEF Children
  <2>2. p_prnt[Doomed] = NoProc
    BY <1>0, <1>3 DEF NooseInv
  <2>3. LinksLive'
    BY <1>0, <1>2, <2>1, <2>2 DEF TreeInv, LinksLive
  <2>4. Acyclic'
    BY <1>0, <1>2 DEF TreeInv, Acyclic
  <2> QED BY <2>3, <2>4 DEF TreeInv, LinksLive, Acyclic
<1> QED BY <1>3, <1>6, <1>7, <1>8

-----------------------------------------------------------------------------
\* A new process is a leaf: its link closes no cycle.
LEMMA BirthTree ==
  ASSUME TypeOK, TreeInv, NEW child \in pcbFree,
         curProc \in Proc, curProc \notin pcbFree,
         p_prnt' = [p_prnt EXCEPT ![child] = curProc],
         pcbFree' = pcbFree \ {child}
  PROVE  TreeInv'
<1>1. /\ child \in Proc /\ p_prnt'[child] = curProc
      /\ \A p \in Proc : p # child => p_prnt'[p] = p_prnt[p]
  BY DEF TypeOK
<1>2. LinksLive /\ Acyclic
  BY DEF TreeInv, LinksLive, Acyclic
<1>3. LinksLive'
  BY <1>1, <1>2 DEF LinksLive
<1>4. ASSUME NEW S \in SUBSET Proc, S # {}
      PROVE  \E p \in S : p_prnt'[p] \notin S
  <2>1. NoProc \notin S
    BY ProcAssumption
  <2>2. CASE S \ {child} = {}
    <3>1. child \in S /\ curProc \notin S
      BY <1>4, <2>2
    <3> QED BY <1>1, <3>1
  <2>3. CASE S \ {child} # {}
    <3>1. S \ {child} \in SUBSET Proc
      OBVIOUS
    <3>2. PICK p \in S \ {child} : p_prnt[p] \notin S \ {child}
      BY <1>2, <2>3, <3>1 DEF Acyclic
    <3>3. p \in Proc /\ p # child /\ p_prnt[p] # child
      BY <1>1, <1>2, ProcAssumption DEF LinksLive
    <3> QED BY <1>1, <3>2, <3>3
  <2> QED BY <2>2, <2>3
<1>5. Acyclic'
  BY <1>4 DEF Acyclic
<1> QED BY <1>3, <1>5 DEF TreeInv, LinksLive, Acyclic

LEMMA CreateStruct ==
  ASSUME StructInv, CreateProcess
  PROVE  Placed' /\ NooseInv' /\ TreeInv'
<1>0. TypeInv /\ TypeOK /\ NooseInv /\ TreeInv /\ Placed
  BY PlacedIff DEF StructInv, TypeInv
<1>1. PICK child \in pcbFree :
        /\ pcbFree' = pcbFree \ {child}
        /\ p_semAdd' = [p_semAdd EXCEPT ![child] = NoSem]
        /\ p_prnt' = [p_prnt EXCEPT ![child] = curProc]
        /\ deathRowLine' = Append(deathRowLine, child)
  BY DEF CreateProcess
<1>2. mode = "run" /\ UNCHANGED <<curProc, procQ, mode, noose>>
  BY DEF CreateProcess
<1>3. curProc \in Proc /\ child \in Proc
  BY <1>0, <1>2 DEF TypeInv, TypeOK, RunInv
<1>4. Executing = {curProc} /\ Executing' = Executing
  BY <1>2, <1>3, ProcAssumption DEF Executing
<1>5. /\ Ready' = Ready \cup {child} /\ IsInjective(deathRowLine')
      /\ \A s \in Sem : BlockedOn(s)' = BlockedOn(s) /\ procQ'[s] = procQ[s]
  <2>1. child \notin Ready
    BY <1>0, <1>3 DEF Placed
  <2> QED BY <1>0, <1>1, <1>2, <1>3, <2>1, AppendQueue
          DEF Ready, BlockedOn, TypeOK, Placed
<1>6. \A p \in Proc : p # child => p_semAdd'[p] = p_semAdd[p]
  BY <1>0, <1>1 DEF TypeOK
<1>7. curProc \notin pcbFree
  BY <1>0, <1>3, <1>4 DEF Placed
<1>8. Placed'
  <2> HIDE DEF Ready, Executing, BlockedOn
  <2>1. \A p \in Proc :
          \/ p \in pcbFree' \/ p \in Ready' \/ p \in Executing'
          \/ \E s \in Sem : p \in BlockedOn(s)'
    BY <1>0, <1>1, <1>4, <1>5 DEF Placed
  <2>2. \A p \in Proc : /\ p \in pcbFree' => p \notin Ready' /\ p \notin Executing'
                        /\ p \in Ready' => p \notin Executing'
    BY <1>0, <1>1, <1>3, <1>4, <1>5, <1>7 DEF Placed
  <2>3. \A p \in Proc : \A s \in Sem : p \in BlockedOn(s)' =>
          /\ p \notin pcbFree' /\ p \notin Ready' /\ p \notin Executing'
          /\ p_semAdd'[p] = s
    BY <1>0, <1>1, <1>3, <1>4, <1>5, <1>6 DEF Placed
  <2>4. \A s \in Sem : IsInjective(procQ'[s])
    BY <1>0, <1>5 DEF Placed
  <2> QED BY <1>5, <2>1, <2>2, <2>3, <2>4 DEF Placed
<1>9. NooseInv'
  BY <1>0, <1>2, NoNoose DEF NooseInv
<1>10. TreeInv'
  BY <1>0, <1>1, <1>3, <1>7, BirthTree
<1> QED BY <1>8, <1>9, <1>10

LEMMA KillChildStruct ==
  ASSUME StructInv, KillChild
  PROVE  Placed' /\ NooseInv' /\ TreeInv'
<1>0. TypeInv /\ TypeOK /\ NooseInv /\ TreeInv /\ Placed
  BY PlacedIff DEF StructInv, TypeInv
<1>1. PICK c \in Children(Doomed) :
        /\ p_prnt' = [p_prnt EXCEPT ![c] = NoProc]
        /\ noose' = Append(noose, c)
  BY DEF KillChild
<1>2. /\ mode = "kill" /\ noose # <<>>
      /\ UNCHANGED <<pcbFree, deathRowLine, procQ, p_semAdd, curProc, mode>>
  BY DEF KillChild, queueVars, procVars, cpuVars
<1>3. c \in Proc /\ p_prnt[c] = Doomed /\ Doomed \in Proc /\ noose \in Seq(Proc)
  BY <1>0, <1>2, DoomedType DEF Children, TypeOK
<1>4. c \notin ToSet(noose) /\ c \notin pcbFree
  BY <1>0, <1>3, ProcAssumption DEF NooseInv, TreeInv
<1>5. /\ noose' # <<>> /\ Head(noose') = Head(noose)
      /\ ToSet(noose') = ToSet(noose) \cup {c} /\ IsInjective(noose')
  <2>1. noose' # <<>> /\ Head(noose') = Head(noose)
    BY <1>1, <1>2, <1>3
  <2> QED BY <1>0, <1>1, <1>3, <1>4, <2>1, AppendQueue DEF NooseInv
<1>6. Executing' = Executing
  BY <1>2, <1>5 DEF Executing
<1>7. Placed'
  BY <1>0, <1>2, <1>6, StillPlaced
<1>8. NooseInv'
  <2>1. p_prnt'[c] = NoProc /\ \A p \in Proc : p_prnt'[p] \in {p_prnt[p], NoProc}
    BY <1>0, <1>1, <1>3 DEF TypeOK
  <2>2. ToSet(noose) \subseteq Proc
    BY <1>3, ToSetDef
  <2>3. \A p \in ToSet(noose') : p \notin pcbFree' /\ p_prnt'[p] = NoProc
    BY <1>0, <1>2, <1>4, <1>5, <2>1, <2>2 DEF NooseInv
  <2> QED BY <1>0, <1>2, <1>5, <2>3 DEF NooseInv
<1>9. TreeInv'
  <2>1. \A p \in Proc : p_prnt'[p] \in {p_prnt[p], NoProc}
    BY <1>0, <1>1 DEF TypeOK
  <2> QED BY <1>0, <1>2, <2>1, CutLinks
<1> QED BY <1>7, <1>8, <1>9

LEMMA ReapPlaced ==
  ASSUME StructInv, ReapReady \/ ReapBlocked \/ ReapRunning
  PROVE  Placed' /\ NooseInv' /\ TreeInv'
<1>0. TypeInv /\ TypeOK /\ Placed
  BY PlacedIff DEF StructInv, TypeInv
<1>1. Childless /\ Reap(Doomed)
  BY DEF ReapReady, ReapBlocked, ReapRunning
<1>2. Doomed \in Proc /\ Executing' = Executing \ {Doomed} /\ NooseInv' /\ TreeInv'
  BY <1>1, ReapStruct
<1>3. pcbFree' = pcbFree \cup {Doomed} /\ p_semAdd' = p_semAdd
  BY <1>1 DEF Reap
<1>4. CASE ReapReady
  <2>1. PICK i \in 1..Len(deathRowLine) :
          /\ deathRowLine[i] = Doomed
          /\ deathRowLine' = RemoveAt(deathRowLine, i)
    BY <1>4 DEF ReapReady
  <2>2. procQ' = procQ
    BY <1>4 DEF ReapReady
  <2>3. Ready' = Ready \ {Doomed} /\ IsInjective(deathRowLine') /\ Doomed \in Ready
    BY <1>0, <2>1, RemoveAtQueue, ToSetDef DEF Ready, TypeOK, Placed
  <2>4. \A s \in Sem : Doomed \notin BlockedOn(s)
    BY <1>0, <1>2, <2>3 DEF Placed
  <2>5. \A s \in Sem : BlockedOn(s)' = BlockedOn(s) /\ IsInjective(procQ'[s])
    BY <1>0, <2>2 DEF BlockedOn, Placed
  <2>6. \A s \in Sem : BlockedOn(s)' = BlockedOn(s) \ {Doomed}
    BY <2>4, <2>5
  <2> QED BY <1>0, <1>2, <1>3, <2>3, <2>5, <2>6, DeathPlaced
<1>5. CASE ReapBlocked
  <2>1. PICK s : s = p_semAdd[Doomed]
    OBVIOUS
  <2>2. s \in Sem /\ Doomed \notin Ready
    BY <1>0, <1>2, <1>5, <2>1 DEF ReapBlocked, IsBlocked, SearchTraps, TypeOK, IsReady, Ready
  <2>3. PICK i \in 1..Len(procQ[s]) :
          /\ procQ[s][i] = Doomed
          /\ procQ' = [procQ EXCEPT ![s] = RemoveAt(procQ[s], i)]
    BY <1>5, <2>1 DEF ReapBlocked
  <2>4. /\ procQ'[s] = RemoveAt(procQ[s], i) /\ procQ[s] \in Seq(Proc)
        /\ \A a \in Sem : a # s => procQ'[a] = procQ[a]
    BY <1>0, <2>2, <2>3 DEF TypeOK
  <2>5. IsInjective(procQ'[s]) /\ ToSet(procQ'[s]) = ToSet(procQ[s]) \ {Doomed}
    BY <1>0, <2>2, <2>3, <2>4, RemoveAtQueue DEF Placed
  <2>6. \A a \in Sem : a # s => Doomed \notin BlockedOn(a)
    BY <1>0, <1>2, <2>1 DEF Placed
  <2>7. \A a \in Sem : BlockedOn(a)' = BlockedOn(a) \ {Doomed} /\ IsInjective(procQ'[a])
    <3>1. SUFFICES ASSUME NEW a \in Sem
                   PROVE  BlockedOn(a)' = BlockedOn(a) \ {Doomed} /\ IsInjective(procQ'[a])
      OBVIOUS
    <3>2. CASE a = s
      BY <2>5, <3>2 DEF BlockedOn
    <3>3. CASE a # s
      BY <1>0, <2>4, <2>6, <3>3 DEF BlockedOn, Placed
    <3> QED BY <3>2, <3>3
  <2>8. Ready' = Ready \ {Doomed} /\ IsInjective(deathRowLine')
    <3>1. deathRowLine' = deathRowLine
      BY <1>5 DEF ReapBlocked
    <3> QED BY <1>0, <2>2, <3>1 DEF Ready, Placed
  <2> QED BY <1>0, <1>2, <1>3, <2>7, <2>8, DeathPlaced
<1>6. CASE ReapRunning
  <2>1. UNCHANGED <<deathRowLine, procQ>> /\ Doomed \notin Ready
    BY <1>6 DEF ReapRunning, IsReady, Ready
  <2>2. \A s \in Sem : Doomed \notin BlockedOn(s)
    BY <1>0, <1>2, <1>6 DEF ReapRunning, IsBlocked, Placed, BlockedOn
  <2>3. Ready' = Ready /\ \A s \in Sem : BlockedOn(s)' = BlockedOn(s)
    BY <2>1 DEF Ready, BlockedOn
  <2>4. Ready' = Ready \ {Doomed} /\ \A s \in Sem : BlockedOn(s)' = BlockedOn(s) \ {Doomed}
    BY <2>1, <2>2, <2>3
  <2>5. IsInjective(deathRowLine') /\ \A s \in Sem : IsInjective(procQ'[s])
    BY <1>0, <2>1 DEF Placed
  <2> QED BY <1>0, <1>2, <1>3, <2>4, <2>5, DeathPlaced
<1> QED BY <1>2, <1>4, <1>5, <1>6

\* A handler that dispatches or resumes a process kills nobody.
LEMMA NoKill ==
  ASSUME StructInv, mode # "kill" \/ noose = <<>>,
         UNCHANGED <<pcbFree, p_prnt, noose>>
  PROVE  NooseInv' /\ TreeInv'
<1>1. noose' = <<>> /\ NooseInv'
  BY NoNoose DEF StructInv, NooseInv
<1>2. TreeInv'
  BY CutLinks DEF StructInv, TypeInv
<1> QED BY <1>1, <1>2

LEMMA VerhogenPlaced ==
  ASSUME StructInv, TypeOK', NEW s \in UserSem, Verhogen(s)
  PROVE  Placed'
<1>0. TypeOK /\ Placed /\ s \in Sem
  BY PlacedIff, SemFacts DEF StructInv, TypeInv
<1>1. Executing' = Executing
  BY DEF Verhogen, Executing, killVars
<1>2. UNCHANGED <<pcbFree, p_semAdd>>
  BY DEF Verhogen, procVars
<1>3. CASE Releases(sem'[s]) /\ procQ[s] # <<>>
  <2>1. /\ deathRowLine' = Append(deathRowLine, Head(procQ[s]))
        /\ procQ' = [procQ EXCEPT ![s] = Tail(procQ[s])]
    BY <1>3 DEF Verhogen
  <2>2. procQ[s] \in Seq(Proc) /\ IsInjective(procQ[s]) /\ deathRowLine \in Seq(Proc)
    BY <1>0 DEF TypeOK, Placed
  <2>3. /\ Head(procQ[s]) \in Proc /\ Head(procQ[s]) \in BlockedOn(s)
        /\ Tail(procQ[s]) \in Seq(Proc) /\ IsInjective(Tail(procQ[s]))
        /\ BlockedOn(s) = {Head(procQ[s])} \cup ToSet(Tail(procQ[s]))
        /\ {Head(procQ[s])} \cap ToSet(Tail(procQ[s])) = {}
    BY <1>3, <2>2, TailQueue DEF BlockedOn
  <2>4. Head(procQ[s]) \notin Ready /\ Head(procQ[s]) \notin Executing
    BY <1>0, <2>3 DEF Placed
  <2>5. Ready' = Ready \cup {Head(procQ[s])} /\ IsInjective(deathRowLine')
    BY <1>0, <2>1, <2>2, <2>3, <2>4, AppendQueue DEF Ready, Placed
  <2>6. Ready \cap Executing = {}
    BY <1>0, PlacesTyped DEF Placed
  <2>7. /\ Ready' \cup Executing' = Ready \cup Executing \cup {Head(procQ[s])}
        /\ Ready' \cap Executing' = {}
    BY <1>1, <2>4, <2>5, <2>6
  <2> QED BY <1>0, <1>2, <2>1, <2>3, <2>5, <2>7, Wakeup
<1>4. CASE ~(Releases(sem'[s]) /\ procQ[s] # <<>>)
  BY <1>0, <1>1, <1>2, <1>4, StillPlaced DEF Verhogen
<1> QED BY <1>3, <1>4

\* Nobody's place but the ready queue and the processor changes.
LEMMA Rescheduled ==
  ASSUME TypeOK, Placed,
         Ready' \cup Executing' = Ready \cup Executing,
         Ready' \cap Executing' = {}, IsInjective(deathRowLine'),
         UNCHANGED <<pcbFree, procQ, p_semAdd>>
  PROVE  Placed'
<1>1. \A s \in Sem : BlockedOn(s)' = BlockedOn(s) /\ procQ'[s] = procQ[s]
  BY DEF BlockedOn
<1> HIDE DEF Ready, Executing, BlockedOn
<1>2. \A q \in Proc :
        \/ q \in pcbFree' \/ q \in Ready' \/ q \in Executing'
        \/ \E s \in Sem : q \in BlockedOn(s)'
  BY <1>1 DEF Placed
<1>3. \A q \in Proc : /\ q \in pcbFree' => q \notin Ready' /\ q \notin Executing'
                      /\ q \in Ready' => q \notin Executing'
  BY DEF Placed
<1>4. \A q \in Proc : \A s \in Sem : q \in BlockedOn(s)' =>
        /\ q \notin pcbFree' /\ q \notin Ready' /\ q \notin Executing'
        /\ p_semAdd'[q] = s
  BY <1>1 DEF Placed
<1>5. \A s \in Sem : IsInjective(procQ'[s])
  BY <1>1 DEF Placed
<1> QED BY <1>2, <1>3, <1>4, <1>5 DEF Placed

LEMMA LocalTimerPlaced ==
  ASSUME StructInv, LocalTimer
  PROVE  Placed'
<1>0. TypeInv /\ TypeOK /\ Placed
  BY PlacedIff DEF StructInv, TypeInv
<1> DEFINE ready == Append(deathRowLine, curProc)
<1>1. /\ mode = "run" /\ UNCHANGED <<pcbFree, procQ, p_semAdd>>
      /\ NextVictim(ready, procCount, softBlkCount, waiting)
  BY DEF LocalTimer, procVars
<1>2. curProc \in Proc /\ deathRowLine \in Seq(Proc) /\ Executing = {curProc}
  BY <1>0, <1>1, ProcAssumption DEF TypeInv, TypeOK, RunInv, Executing
<1>3. curProc \notin Ready
  BY <1>0, <1>2 DEF Placed
<1>4. /\ ready \in Seq(Proc) /\ IsInjective(ready)
      /\ ToSet(ready) = Ready \cup Executing
  BY <1>0, <1>2, <1>3, AppendQueue DEF Ready, Placed
<1> HIDE DEF ready
<1>5. /\ IsInjective(deathRowLine') /\ Ready' \cap Executing' = {}
      /\ Ready' \cup Executing' = Ready \cup Executing
  BY <1>1, <1>4, Dispatch
<1> QED BY <1>0, <1>1, <1>5, Rescheduled

LEMMA TerminatedPlaced ==
  ASSUME StructInv, Terminated
  PROVE  Placed'
<1>0. TypeOK /\ Placed
  BY PlacedIff DEF StructInv, TypeInv
<1>1. /\ mode = "kill" /\ noose = <<>> /\ UNCHANGED <<pcbFree, procQ, p_semAdd>>
      /\ NextVictim(deathRowLine, procCount, softBlkCount, waiting)
  BY DEF Terminated, procVars
<1>2. Executing = {}
  BY <1>1 DEF Executing
<1>3. /\ IsInjective(deathRowLine') /\ Ready' \cap Executing' = {}
      /\ Ready' \cup Executing' = Ready
  BY <1>0, <1>1, Dispatch DEF Placed, Ready, TypeOK
<1> QED BY <1>0, <1>1, <1>2, <1>3, Rescheduled

LEMMA IntervalPlaced ==
  ASSUME StructInv, TypeOK', IntervalTimer
  PROVE  Placed'
<1>0. TypeInv /\ TypeOK /\ Placed /\ Clock \in Sem /\ IdleInv
  BY PlacedIff, SemFacts DEF StructInv, TypeInv
<1> DEFINE released == IF Releases(sem[Clock] + 1) THEN procQ[Clock] ELSE <<>>
           left == IF released = <<>> THEN procQ[Clock] ELSE <<>>
           ready == deathRowLine \o released
<1>1. /\ Interruptible /\ UNCHANGED <<pcbFree, p_semAdd>>
      /\ procQ' = [procQ EXCEPT ![Clock] = left]
      /\ ReturnFromInterrupt(ready, softBlkCount')
  BY DEF IntervalTimer, procVars
<1>2. /\ procQ[Clock] \in Seq(Proc) /\ IsInjective(procQ[Clock])
      /\ deathRowLine \in Seq(Proc) /\ IsInjective(deathRowLine)
  BY <1>0 DEF TypeOK, Placed
<1>3. IsInjective(<<>>) /\ ToSet(<<>>) = {} /\ <<>> \in Seq(Proc)
  BY DEF IsInjective, ToSet
<1>4. /\ released \in Seq(Proc) /\ IsInjective(released)
      /\ left \in Seq(Proc) /\ IsInjective(left)
      /\ BlockedOn(Clock) = ToSet(released) \cup ToSet(left)
      /\ ToSet(released) \cap ToSet(left) = {}
  <2>1. CASE released = <<>>
    BY <1>2, <1>3, <2>1 DEF BlockedOn
  <2>2. CASE released # <<>>
    BY <1>2, <1>3, <2>2 DEF BlockedOn
  <2> QED BY <2>1, <2>2
<1> HIDE DEF released, left
<1>5. ToSet(released) \subseteq BlockedOn(Clock)
  BY <1>4
<1>6. BlockedOn(Clock) \cap Ready = {} /\ BlockedOn(Clock) \cap Executing = {}
  BY <1>0, PlacesTyped DEF Placed
<1>7. Ready \cap Executing = {}
  BY <1>0, PlacesTyped DEF Placed
<1>8. /\ ready \in Seq(Proc) /\ IsInjective(ready)
      /\ ToSet(ready) = Ready \cup ToSet(released)
  BY <1>2, <1>4, <1>5, <1>6, ConcatQueue DEF Ready
<1> HIDE DEF ready
<1>9. ToSet(ready) \cap Executing = {}
  BY <1>5, <1>6, <1>7, <1>8
<1>10. /\ IsInjective(deathRowLine') /\ Ready' \cap Executing' = {}
       /\ Ready' \cup Executing' = Ready \cup Executing \cup ToSet(released)
  BY <1>0, <1>1, <1>8, <1>9, Resume
<1> QED BY <1>0, <1>1, <1>4, <1>10, Wakeup

LEMMA DeviceStruct ==
  ASSUME StructInv, TypeOK', NEW d \in Devices, DeviceInterrupt(d)
  PROVE  Placed' /\ NooseInv' /\ TreeInv'
<1>0. TypeInv /\ TypeOK /\ Placed /\ d \in Sem /\ IdleInv
  BY PlacedIff, SemFacts DEF StructInv, TypeInv
<1>1. Interruptible /\ UNCHANGED <<pcbFree, p_semAdd, procCount>>
  BY DEF DeviceInterrupt, procVars
<1>2. Ready \cap Executing = {} /\ IsInjective(deathRowLine) /\ deathRowLine \in Seq(Proc)
  BY <1>0, PlacesTyped DEF Placed, TypeOK
<1>3. CASE ~Releases(sem'[d])
  <2>1. ReturnFromInterrupt(deathRowLine, softBlkCount) /\ UNCHANGED <<procQ, p_prnt, noose>>
    BY <1>3 DEF DeviceInterrupt, killVars
  <2>2. /\ IsInjective(deathRowLine') /\ Ready' \cap Executing' = {}
        /\ Ready' \cup Executing' = Ready \cup Executing
    BY <1>0, <1>1, <1>2, <2>1, Resume DEF Ready
  <2>3. Placed'
    BY <1>0, <1>1, <2>1, <2>2, Rescheduled
  <2>4. NooseInv' /\ TreeInv'
    BY <1>1, <2>1, NoKill DEF Interruptible
  <2> QED BY <2>3, <2>4
<1>4. CASE Releases(sem'[d]) /\ procQ[d] # <<>>
  <2> DEFINE p == Head(procQ[d])
             ready == Append(deathRowLine, p)
  <2>1. /\ procQ' = [procQ EXCEPT ![d] = Tail(procQ[d])]
        /\ ReturnFromInterrupt(ready, softBlkCount')
        /\ UNCHANGED <<p_prnt, noose>>
    BY <1>4 DEF DeviceInterrupt, killVars
  <2>2. procQ[d] \in Seq(Proc) /\ IsInjective(procQ[d])
    BY <1>0 DEF TypeOK, Placed
  <2>3. /\ p \in Proc /\ p \in BlockedOn(d)
        /\ Tail(procQ[d]) \in Seq(Proc) /\ IsInjective(Tail(procQ[d]))
        /\ BlockedOn(d) = {p} \cup ToSet(Tail(procQ[d]))
        /\ {p} \cap ToSet(Tail(procQ[d])) = {}
    BY <1>4, <2>2, TailQueue DEF BlockedOn
  <2> HIDE DEF p
  <2>4. p \notin Ready /\ p \notin Executing
    BY <1>0, <2>3 DEF Placed
  <2>5. /\ ready \in Seq(Proc) /\ IsInjective(ready)
        /\ ToSet(ready) = Ready \cup {p} /\ ToSet(ready) \cap Executing = {}
    BY <1>2, <2>3, <2>4, AppendQueue DEF Ready
  <2> HIDE DEF ready
  <2>6. /\ IsInjective(deathRowLine') /\ Ready' \cap Executing' = {}
        /\ Ready' \cup Executing' = Ready \cup Executing \cup {p}
    BY <1>0, <1>1, <2>1, <2>5, Resume
  <2>7. Placed'
    BY <1>0, <1>1, <2>1, <2>3, <2>6, Wakeup
  <2>8. NooseInv' /\ TreeInv'
    BY <1>1, <2>1, NoKill DEF Interruptible
  <2> QED BY <2>7, <2>8
<1>5. CASE Releases(sem'[d]) /\ procQ[d] = <<>>
  <2>1. /\ InnocentOrNoose("PROGTRAP") /\ "PROGTRAP" \in TrapTypes
        /\ UNCHANGED <<procQ, deathRowLine, curProc>>
    BY <1>5 DEF DeviceInterrupt, TrapTypes
  <2>2. Executing' = Executing /\ NooseInv' /\ TreeInv'
    BY <1>1, <2>1, Judge
  <2> QED BY <1>0, <1>1, <2>1, <2>2, StillPlaced
<1> QED BY <1>3, <1>4, <1>5

-----------------------------------------------------------------------------
\* One step, action by action.
LEMMA PlaceStep ==
  ASSUME StructInv, TypeOK', [Next]_vars
  PROVE  Placed' /\ NooseInv' /\ TreeInv'
<1>0. TypeInv /\ TypeOK /\ Placed /\ IdleInv /\ NooseInv
  BY PlacedIff DEF StructInv, TypeInv
<1> DEFINE Goal == Placed' /\ NooseInv' /\ TreeInv'
<1>2. CASE SystemCall
  <2>1. CASE CreateProcess
    BY <2>1, CreateStruct
  <2>2. CASE CreateRefused
    <3>1. UNCHANGED vars /\ mode = "run"
      BY <2>2 DEF CreateRefused
    <3> QED BY <1>0, <3>1, StillPlaced, NoKill DEF vars, Executing
  <2>3. CASE Terminate
    <3>1. /\ mode = "run" /\ TerminateProcess
          /\ UNCHANGED <<pcbFree, curProc, deathRowLine, procQ, p_semAdd>>
      BY <2>3 DEF Terminate, queueVars, procVars
    <3>2. Executing' = Executing /\ NooseInv' /\ TreeInv'
      BY <3>1, Judge DEF Interruptible, TrapTypes
    <3> QED BY <1>0, <3>1, <3>2, StillPlaced
  <2>4. CASE WaitClock
    <3>1. mode = "run" /\ UNCHANGED <<pcbFree, p_prnt, noose>>
      BY <2>4 DEF WaitClock, procVars, killVars
    <3>2. NooseInv' /\ TreeInv'
      BY <3>1, NoKill
    <3>3. CASE sem'[Clock] < 0
      BY <1>0, <2>4, <3>1, <3>2, <3>3, BlockPlaced, SemFacts DEF WaitClock
    <3>4. CASE ~(sem'[Clock] < 0)
      <4>1. mode' = "fallthrough" /\ UNCHANGED <<curProc, deathRowLine, procQ, p_semAdd>>
        BY <2>4, <3>4 DEF WaitClock, queueVars
      <4> QED BY <1>0, <3>1, <3>2, <4>1, StillPlaced DEF Executing
    <3> QED BY <3>3, <3>4
  <2>5. ASSUME NEW s \in UserSem, Verhogen(s) PROVE Goal
    <3>1. mode = "run" /\ UNCHANGED <<pcbFree, p_prnt, noose>>
      BY <2>5 DEF Verhogen, procVars, killVars
    <3> QED BY <2>5, <3>1, VerhogenPlaced, NoKill
  <2>6. ASSUME NEW s \in UserSem, Passeren(s) PROVE Goal
    <3>1. mode = "run" /\ UNCHANGED <<pcbFree, p_prnt, noose>>
      BY <2>6 DEF Passeren, procVars, killVars
    <3>2. NooseInv' /\ TreeInv'
      BY <3>1, NoKill
    <3>3. CASE sem'[s] < 0
      BY <1>0, <2>6, <3>1, <3>2, <3>3, BlockPlaced, SemFacts DEF Passeren
    <3>4. CASE ~(sem'[s] < 0)
      <4>1. UNCHANGED <<mode, curProc, deathRowLine, procQ, p_semAdd>>
        BY <2>6, <3>4 DEF Passeren, cpuVars
      <4> QED BY <1>0, <3>1, <3>2, <4>1, StillPlaced DEF Executing
    <3> QED BY <3>3, <3>4
  <2>7. ASSUME NEW t \in VectorTypes, SpecTrap(t) PROVE Goal
    <3>1. mode = "run" /\ UNCHANGED <<pcbFree, curProc, deathRowLine, procQ, p_semAdd>>
      BY <2>7 DEF SpecTrap, queueVars, procVars
    <3>2. CASE TerminateProcess
      <4>1. Executing' = Executing /\ NooseInv' /\ TreeInv'
        BY <3>1, <3>2, Judge DEF Interruptible, TrapTypes
      <4> QED BY <1>0, <3>1, <4>1, StillPlaced
    <3>3. CASE ~TerminateProcess
      <4>1. UNCHANGED <<p_prnt, noose, mode>>
        BY <2>7, <3>3 DEF SpecTrap, killVars
      <4> QED BY <1>0, <3>1, <4>1, StillPlaced, NoKill DEF Executing
    <3> QED BY <3>2, <3>3
  <2>8. ASSUME NEW d \in Devices, WaitIO(d) PROVE Goal
    <3>1. mode = "run" /\ UNCHANGED <<pcbFree, p_prnt, noose>>
      BY <2>8 DEF WaitIO, procVars, killVars
    <3>2. NooseInv' /\ TreeInv'
      BY <3>1, NoKill
    <3>3. CASE sem'[d] < 0
      BY <1>0, <2>8, <3>1, <3>2, <3>3, BlockPlaced, SemFacts DEF WaitIO
    <3>4. CASE ~(sem'[d] < 0)
      <4>1. mode' = "panicExcep" /\ UNCHANGED <<curProc, deathRowLine, procQ, p_semAdd>>
        BY <2>8, <3>4 DEF WaitIO, queueVars
      <4> QED BY <1>0, <3>1, <3>2, <4>1, StillPlaced DEF Executing
    <3> QED BY <3>3, <3>4
  <2> QED BY <1>2, <2>1, <2>2, <2>3, <2>4, <2>5, <2>6, <2>7, <2>8 DEF SystemCall
<1>3. ASSUME NEW t \in TrapTypes, Exception(t) PROVE Goal
  <2>1. /\ mode = "run" /\ InnocentOrNoose(t)
        /\ UNCHANGED <<pcbFree, curProc, deathRowLine, procQ, p_semAdd>>
    BY <1>3 DEF Exception, queueVars, procVars
  <2>2. Executing' = Executing /\ NooseInv' /\ TreeInv'
    BY <2>1, Judge DEF Interruptible
  <2> QED BY <1>0, <2>1, <2>2, StillPlaced
<1>4. CASE Kill
  <2>1. CASE KillChild
    BY <2>1, KillChildStruct
  <2>2. CASE ReapReady \/ ReapBlocked \/ ReapRunning
    BY <2>2, ReapPlaced
  <2>3. CASE ReapNeverBlocked
    <3>1. /\ mode = "kill" /\ noose # <<>> /\ InnocentOrNoose("PROGTRAP")
          /\ "PROGTRAP" \in TrapTypes
          /\ UNCHANGED <<pcbFree, curProc, deathRowLine, procQ, p_semAdd>>
      BY <2>3 DEF ReapNeverBlocked, Childless, queueVars, procVars, TrapTypes
    <3>2. Executing' = Executing /\ NooseInv' /\ TreeInv'
      BY <3>1, Judge
    <3> QED BY <1>0, <3>1, <3>2, StillPlaced
  <2>4. CASE Terminated
    <3>1. noose = <<>> /\ UNCHANGED <<pcbFree, p_prnt, noose>>
      BY <2>4 DEF Terminated, procVars, killVars
    <3> QED BY <2>4, <3>1, TerminatedPlaced, NoKill
  <2> QED BY <1>4, <2>1, <2>2, <2>3, <2>4 DEF Kill
<1>5. CASE LocalTimer
  <2>1. mode = "run" /\ UNCHANGED <<pcbFree, p_prnt, noose>>
    BY <1>5 DEF LocalTimer, procVars, killVars
  <2> QED BY <1>5, <2>1, LocalTimerPlaced, NoKill
<1>6. CASE IntervalTimer
  <2>1. mode # "kill" /\ UNCHANGED <<pcbFree, p_prnt, noose>>
    BY <1>6 DEF IntervalTimer, Interruptible, procVars, killVars
  <2> QED BY <1>6, <2>1, IntervalPlaced, NoKill
<1>7. ASSUME NEW d \in Devices, DeviceInterrupt(d) PROVE Goal
  BY <1>7, DeviceStruct
<1>8. CASE \/ UNCHANGED vars \/ StayStopped
           \/ \E d \in Devices : StartIO(d) \/ DeviceDone(d)
  <2>1. UNCHANGED <<pcbFree, deathRowLine, curProc, procQ, p_semAdd, p_prnt, mode, noose>>
    BY <1>8 DEF vars, StayStopped, StartIO, DeviceDone, queueVars, procVars, killVars
  <2>2. Executing' = Executing
    BY <2>1 DEF Executing
  <2>3. NooseInv' /\ TreeInv'
    BY <1>0, <2>1, CutLinks DEF NooseInv, StructInv
  <2> QED BY <1>0, <2>1, <2>2, <2>3, StillPlaced
<1> QED BY <1>2, <1>3, <1>4, <1>5, <1>6, <1>7, <1>8 DEF Next

\* The structural invariant is inductive.
LEMMA StructStep ==
  ASSUME StructInv, [Next]_vars
  PROVE  StructInv'
<1>1. TypeInv' /\ TypeOK' /\ IdleInv'
  <2>1. TypeInv'
    BY TypeStep DEF StructInv
  <2>2. IdleInv'
    BY IdleStep DEF StructInv
  <2> QED BY <2>1, <2>2 DEF TypeInv
<1>2. Placed' /\ NooseInv' /\ TreeInv'
  BY <1>1, PlaceStep
<1>3. PcbConservation'
  <2>1. TypeOK' => (PcbConservation' <=> Placed')
    BY PlacedIff, PTL
  <2> QED BY <1>1, <1>2, <2>1
<1> QED BY <1>1, <1>2, <1>3 DEF StructInv

LEMMA StructInit == Init => StructInv
<1> SUFFICES ASSUME Init PROVE StructInv
  OBVIOUS
<1>1. TypeInv /\ TypeOK
  BY TypeInit DEF TypeInv
<1>2. /\ curProc \in Proc /\ pcbFree = Proc \ {curProc} /\ deathRowLine = <<>>
      /\ procQ = [s \in Sem |-> <<>>] /\ p_prnt = [p \in Proc |-> NoProc]
      /\ waiting = FALSE /\ mode = "run" /\ noose = <<>>
  BY DEF Init
<1>3. ToSet(<<>>) = {} /\ IsInjective(<<>>)
  BY DEF ToSet, IsInjective
<1>4. IdleInv /\ NooseInv
  BY <1>2, <1>3 DEF IdleInv, NooseInv
<1>5. TreeInv
  <2>1. LinksLive
    BY <1>2 DEF LinksLive
  <2>2. ASSUME NEW S \in SUBSET Proc, S # {} PROVE \E p \in S : p_prnt[p] \notin S
    BY <1>2, <2>2, ProcAssumption
  <2> QED BY <2>1, <2>2 DEF TreeInv, LinksLive
<1>6. PcbConservation
  <2>1. Executing = {curProc} /\ Ready = {}
    BY <1>2, <1>3, ProcAssumption DEF Executing, Ready
  <2>2. \A s \in Sem : BlockedOn(s) = {} /\ IsInjective(procQ[s])
    BY <1>2, <1>3 DEF BlockedOn
  <2>3. Placed
    BY <1>2, <1>3, <2>1, <2>2 DEF Placed
  <2> QED BY <1>1, <2>3, PlacedIff
<1> QED BY <1>1, <1>4, <1>5, <1>6 DEF StructInv

LEMMA StructCorrect == Spec => []StructInv
<1>1. StructInv /\ [Next]_vars => StructInv'
  BY StructStep
<1> QED BY StructInit, <1>1, PTL DEF Spec

\* However system calls, interrupts and kills are interleaved, each PCB is in
\* one place, and a blocked one is where its p_semAdd says.
THEOREM PcbsConserved == Spec => []PcbConservation
<1>1. StructInv => PcbConservation
  BY DEF StructInv
<1> QED BY StructCorrect, <1>1, PTL

\* The process tree stays a forest of live processes.
THEOREM TreeSound == Spec => []TreeInv
<1>1. StructInv => TreeInv
  BY DEF StructInv
<1> QED BY StructCorrect, <1>1, PTL

\* avadaKedavra never visits a PCB twice, nor one already freed.
THEOREM NooseSound == Spec => []NooseInv
<1>1. StructInv => NooseInv
  BY DEF StructInv
<1> QED BY StructCorrect, <1>1, PTL

\* The flag `waiting` is never stale: no interrupt takes a running process for
\* an idle processor.
THEOREM IdleSound == Spec => []IdleInv
<1>1. StructInv => IdleInv
  BY DEF StructInv
<1> QED BY StructCorrect, <1>1, PTL
-----------------------------------------------------------------------------
(***************************************************************************)
(* Counts: what the semaphores, procCount and softBlkCount say of the      *)
(* queues, and what nextVictim concludes.                                  *)
(***************************************************************************)
\* The steps that touch no semaphore.
Quiet == UNCHANGED <<procQ, sem, softBlkCount, strayV>>

LEMMA NextSplit ==
  ASSUME [Next]_vars
  PROVE  \/ Quiet
         \/ WaitClock \/ ReapBlocked \/ IntervalTimer
         \/ \E s \in UserSem : Verhogen(s) \/ Passeren(s)
         \/ \E d \in Devices : WaitIO(d) \/ DeviceInterrupt(d)
<1>1. CASE CreateProcess \/ CreateRefused \/ Terminate
  BY <1>1 DEF CreateProcess, CreateRefused, Terminate, Quiet, vars, queueVars, devVars
<1>2. ASSUME NEW t \in VectorTypes, SpecTrap(t) PROVE Quiet
  BY <1>2 DEF SpecTrap, Quiet, queueVars, devVars
<1>3. ASSUME NEW t \in TrapTypes, Exception(t) PROVE Quiet
  BY <1>3 DEF Exception, Quiet, queueVars, devVars
<1>4. CASE KillChild \/ ReapReady \/ ReapRunning \/ ReapNeverBlocked \/ Terminated
  BY <1>4 DEF KillChild, ReapReady, ReapRunning, ReapNeverBlocked, Terminated, Reap,
              Quiet, queueVars, devVars
<1>5. CASE LocalTimer \/ StayStopped \/ UNCHANGED vars
  BY <1>5 DEF LocalTimer, StayStopped, Quiet, vars, devVars
<1>6. ASSUME NEW d \in Devices, StartIO(d) \/ DeviceDone(d) PROVE Quiet
  BY <1>6 DEF StartIO, DeviceDone, Quiet, queueVars
<1> QED BY <1>1, <1>2, <1>3, <1>4, <1>5, <1>6 DEF Next, SystemCall, Kill

-----------------------------------------------------------------------------
(***************************************************************************)
(* What each of the other steps does to the queues.                        *)
(***************************************************************************)

\* p joins the queue of s.
Joins(s, p) ==
  /\ procQ' = [procQ EXCEPT ![s] = Append(procQ[s], p)]
  /\ Len(procQ'[s]) = Len(procQ[s]) + 1
  /\ BlockedOn(s)' = BlockedOn(s) \cup {p}
  /\ p \in Proc /\ \A a \in Sem : p \notin BlockedOn(a)

\* p, which is in the queue of s, leaves it.
Leaves(s, p) ==
  /\ \E q \in Seq(Proc) : procQ' = [procQ EXCEPT ![s] = q]
  /\ Len(procQ'[s]) = Len(procQ[s]) - 1
  /\ BlockedOn(s)' = BlockedOn(s) \ {p}
  /\ p \in BlockedOn(s)

LEMMA BlockJoins ==
  ASSUME StructInv, mode = "run", NEW s \in Sem, NEW k, BlockCurProc(s, k)
  PROVE  Joins(s, curProc)
<1>0. TypeInv /\ TypeOK /\ Placed
  BY PlacedIff DEF StructInv, TypeInv
<1>1. procQ' = [procQ EXCEPT ![s] = Append(procQ[s], curProc)]
  BY <1>0, DescriptorLeft DEF BlockCurProc
<1>2. curProc \in Proc /\ procQ[s] \in Seq(Proc) /\ curProc \in Executing
  BY <1>0, ProcAssumption DEF TypeInv, TypeOK, RunInv, Executing
<1>3. procQ'[s] = Append(procQ[s], curProc)
  BY <1>0, <1>1 DEF TypeOK
<1>4. \A a \in Sem : curProc \notin BlockedOn(a)
  BY <1>0, <1>2 DEF Placed
<1> QED BY <1>1, <1>2, <1>3, <1>4, AppendQueue DEF Joins, BlockedOn

LEMMA TailLeaves ==
  ASSUME StructInv, NEW s \in Sem, procQ[s] # <<>>,
         procQ' = [procQ EXCEPT ![s] = Tail(procQ[s])]
  PROVE  Leaves(s, Head(procQ[s]))
<1>1. TypeOK /\ Placed
  BY PlacedIff DEF StructInv, TypeInv
<1>2. procQ[s] \in Seq(Proc) /\ IsInjective(procQ[s]) /\ procQ'[s] = Tail(procQ[s])
  BY <1>1 DEF TypeOK, Placed
<1>3. /\ Tail(procQ[s]) \in Seq(Proc) /\ Len(Tail(procQ[s])) = Len(procQ[s]) - 1
      /\ Head(procQ[s]) \in ToSet(procQ[s])
      /\ ToSet(procQ[s]) = {Head(procQ[s])} \cup ToSet(Tail(procQ[s]))
      /\ Head(procQ[s]) \notin ToSet(Tail(procQ[s]))
  BY <1>2, TailQueue
<1> QED BY <1>2, <1>3 DEF Leaves, BlockedOn

LEMMA ReapLeaves ==
  ASSUME StructInv, ReapBlocked
  PROVE  \E s \in Sem : s = p_semAdd[Doomed] /\ Leaves(s, Doomed)
<1>1. TypeOK /\ Placed /\ Doomed \in Proc
  BY PlacedIff, DoomedType DEF StructInv, TypeInv, ReapBlocked, Childless
<1>2. PICK s : s = p_semAdd[Doomed]
  OBVIOUS
<1>3. s \in Sem
  BY <1>1, <1>2 DEF ReapBlocked, IsBlocked, SearchTraps, TypeOK
<1>4. PICK i \in 1..Len(procQ[s]) :
        /\ procQ[s][i] = Doomed
        /\ procQ' = [procQ EXCEPT ![s] = RemoveAt(procQ[s], i)]
  BY <1>2 DEF ReapBlocked
<1>5. /\ procQ'[s] = RemoveAt(procQ[s], i) /\ procQ[s] \in Seq(Proc)
      /\ IsInjective(procQ[s])
  BY <1>1, <1>3, <1>4 DEF TypeOK, Placed
<1>6. /\ RemoveAt(procQ[s], i) \in Seq(Proc)
      /\ Len(RemoveAt(procQ[s], i)) = Len(procQ[s]) - 1
      /\ ToSet(RemoveAt(procQ[s], i)) = ToSet(procQ[s]) \ {Doomed}
  BY <1>4, <1>5, RemoveAtQueue
<1>7. Doomed \in ToSet(procQ[s])
  BY <1>4, <1>5, ToSetDef
<1> QED BY <1>2, <1>3, <1>4, <1>5, <1>6, <1>7 DEF Leaves, BlockedOn

LEMMA QueueLengths ==
  ASSUME TypeOK
  PROVE  \A s \in Sem : /\ Len(procQ[s]) \in Nat /\ sem[s] \in Int
                        /\ procQ[s] = <<>> <=> Len(procQ[s]) = 0
BY DEF TypeOK

\* Another queue than s keeps its length.
LEMMA OtherQueues ==
  ASSUME TypeOK, NEW s \in Sem, NEW q, procQ' = [procQ EXCEPT ![s] = q]
  PROVE  \A a \in Sem : a # s => procQ'[a] = procQ[a] /\ BlockedOn(a)' = BlockedOn(a)
BY DEF TypeOK, BlockedOn

-----------------------------------------------------------------------------
(***************************************************************************)
(* The user semaphores.                                                    *)
(***************************************************************************)
SemCount(s) == Len(procQ[s]) = IF sem[s] < 0 THEN -sem[s] ELSE 0

LEMMA UserSemStep ==
  ASSUME StructInv, UserSemInv, [Next]_vars
  PROVE  UserSemInv'
<1>0. /\ TypeOK /\ \A s \in UserSem : s \in Sem /\ SemCount(s)
      /\ \A s \in Sem : Len(procQ[s]) \in Nat /\ sem[s] \in Int
  BY SemFacts, QueueLengths DEF StructInv, TypeInv, UserSemInv, SemCount
<1>1. ASSUME NEW a \in Sem, NEW q, NEW v,
             procQ' = [procQ EXCEPT ![a] = q] \/ procQ' = procQ,
             sem' = [sem EXCEPT ![a] = v] \/ sem' = sem,
             a \in UserSem => SemCount(a)'
      PROVE  UserSemInv'
  <2>1. ASSUME NEW s \in UserSem PROVE SemCount(s)'
    <3>1. CASE s = a
      BY <1>1, <3>1
    <3>2. CASE s # a
      BY <1>0, <1>1, <3>2 DEF SemCount, TypeOK
    <3> QED BY <3>1, <3>2
  <2> QED BY <2>1 DEF UserSemInv, SemCount
<1>2. CASE Quiet
  BY <1>2 DEF Quiet, UserSemInv
<1>3. CASE WaitClock
  <2>1. sem' = [sem EXCEPT ![Clock] = sem[Clock] - 1] /\ mode = "run"
    BY <1>3 DEF WaitClock
  <2>2. procQ' = procQ \/ \E q : procQ' = [procQ EXCEPT ![Clock] = q]
    BY <1>3 DEF WaitClock, BlockCurProc, queueVars
  <2> QED BY <2>1, <2>2, <1>1, SemFacts
<1>4. CASE ReapBlocked
  <2>1. PICK s \in Sem : s = p_semAdd[Doomed] /\ Leaves(s, Doomed)
    BY <1>4, ReapLeaves
  <2>2. PICK q : procQ' = [procQ EXCEPT ![s] = q]
    BY <2>1 DEF Leaves
  <2>3. CASE IsDeviceSem(s)
    <3>1. sem' = sem /\ s \notin UserSem
      BY <1>4, <2>1, <2>3, SemFacts DEF ReapBlocked, IsDeviceSem
    <3> QED BY <2>1, <2>2, <3>1, <1>1
  <2>4. CASE ~IsDeviceSem(s)
    <3>1. sem' = [sem EXCEPT ![s] = sem[s] + 1]
      BY <1>4, <2>1, <2>4 DEF ReapBlocked
    <3>2. Len(procQ'[s]) = Len(procQ[s]) - 1 /\ sem'[s] = sem[s] + 1
      BY <1>0, <2>1, <3>1 DEF Leaves, TypeOK
    <3>3. Len(procQ'[s]) \in Nat
      <4>1. TypeOK'
        BY TypeStep DEF StructInv, TypeInv
      <4> QED BY <4>1, <2>1 DEF TypeOK
    <3>4. s \in UserSem => SemCount(s)'
      BY <1>0, <2>1, <3>2, <3>3 DEF SemCount
    <3> QED BY <2>1, <2>2, <3>1, <3>4, <1>1
  <2> QED BY <2>3, <2>4
<1>5. CASE IntervalTimer
  <2>1. /\ sem' = [sem EXCEPT ![Clock] = ClockAfterTick]
        /\ \E q : procQ' = [procQ EXCEPT ![Clock] = q]
    BY <1>5 DEF IntervalTimer
  <2> QED BY <2>1, <1>1, SemFacts
<1>6. ASSUME NEW s \in UserSem, Verhogen(s) PROVE UserSemInv'
  <2>1. sem' = [sem EXCEPT ![s] = sem[s] + 1] /\ sem'[s] = sem[s] + 1
    BY <1>0, <1>6 DEF Verhogen, TypeOK
  <2>2. CASE Releases(sem'[s]) /\ procQ[s] # <<>>
    <3>1. procQ' = [procQ EXCEPT ![s] = Tail(procQ[s])]
      BY <1>6, <2>2 DEF Verhogen
    <3>2. Len(procQ'[s]) = Len(procQ[s]) - 1
      BY <1>0, <2>2, <3>1, TailLeaves DEF Leaves
    <3>3. SemCount(s)'
      BY <1>0, <2>1, <2>2, <3>2 DEF SemCount, Releases
    <3> QED BY <1>0, <1>1, <2>1, <3>1, <3>3
  <2>3. CASE ~(Releases(sem'[s]) /\ procQ[s] # <<>>)
    <3>1. procQ' = procQ
      BY <1>6, <2>3 DEF Verhogen
    <3>2. SemCount(s)'
      BY <1>0, <2>1, <2>3, <3>1, QueueLengths DEF SemCount, Releases
    <3> QED BY <1>0, <1>1, <2>1, <3>1, <3>2
  <2> QED BY <2>2, <2>3
<1>7. ASSUME NEW s \in UserSem, Passeren(s) PROVE UserSemInv'
  <2>1. mode = "run" /\ sem' = [sem EXCEPT ![s] = sem[s] - 1] /\ sem'[s] = sem[s] - 1
    BY <1>0, <1>7 DEF Passeren, TypeOK
  <2>2. CASE sem'[s] < 0
    <3>1. Joins(s, curProc)
      BY <1>0, <1>7, <2>1, <2>2, BlockJoins DEF Passeren
    <3>2. /\ procQ' = [procQ EXCEPT ![s] = Append(procQ[s], curProc)]
          /\ Len(procQ'[s]) = Len(procQ[s]) + 1
      BY <3>1 DEF Joins
    <3>3. SemCount(s)'
      BY <1>0, <2>1, <2>2, <3>2 DEF SemCount
    <3> QED BY <1>0, <1>1, <2>1, <3>2, <3>3
  <2>3. CASE ~(sem'[s] < 0)
    <3>1. procQ' = procQ
      BY <1>7, <2>3 DEF Passeren
    <3>2. SemCount(s)'
      BY <1>0, <2>1, <2>3, <3>1 DEF SemCount
    <3> QED BY <1>0, <1>1, <2>1, <3>1, <3>2
  <2> QED BY <2>2, <2>3
<1>8. ASSUME NEW d \in Devices, WaitIO(d) \/ DeviceInterrupt(d) PROVE UserSemInv'
  <2>1. \E v : sem' = [sem EXCEPT ![d] = v]
    BY <1>8 DEF WaitIO, DeviceInterrupt, VDevice
  <2>2. procQ' = procQ \/ \E q : procQ' = [procQ EXCEPT ![d] = q]
    BY <1>8 DEF WaitIO, DeviceInterrupt, BlockCurProc, queueVars
  <2> QED BY <2>1, <2>2, <1>1, SemFacts
<1> QED BY <1>2, <1>3, <1>4, <1>5, <1>6, <1>7, <1>8, NextSplit

-----------------------------------------------------------------------------
(***************************************************************************)
(* The pseudo-clock.                                                       *)
(***************************************************************************)
LEMMA ClockStep ==
  ASSUME StructInv, ClockInv, [Next]_vars
  PROVE  ClockInv'
<1>0. /\ TypeOK /\ Clock \in Sem /\ Len(procQ[Clock]) <= -sem[Clock]
      /\ Len(procQ[Clock]) \in Nat /\ sem[Clock] \in Int
      /\ procQ[Clock] = <<>> <=> Len(procQ[Clock]) = 0
      /\ mode # "fallthrough"
  BY SemFacts, QueueLengths DEF StructInv, TypeInv, ClockInv
<1>1. ASSUME NEW r, NEW n, NEW k, NEW w, NextVictim(r, n, k, w)
      PROVE  mode' # "fallthrough"
  BY <1>1 DEF NextVictim, Verdict
<1>2. CASE WaitClock
  <2>1. mode = "run" /\ sem'[Clock] = sem[Clock] - 1
    BY <1>0, <1>2 DEF WaitClock, TypeOK
  <2>2. sem'[Clock] < 0
    BY <1>0, <2>1
  <2>3. BlockCurProc(Clock, softBlkCount')
    BY <1>2, <2>2 DEF WaitClock
  <2>4. Len(procQ'[Clock]) = Len(procQ[Clock]) + 1
    BY <1>0, <2>1, <2>3, BlockJoins DEF Joins
  <2>5. mode' # "fallthrough"
    BY <1>1, <2>3 DEF BlockCurProc
  <2> QED BY <1>0, <2>1, <2>4, <2>5 DEF ClockInv
<1>3. CASE ~WaitClock
  <2>1. mode' # "fallthrough"
    <3>1. ASSUME NEW r, NEW k, ReturnFromInterrupt(r, k) PROVE mode' # "fallthrough"
      BY <1>0, <1>1, <3>1 DEF ReturnFromInterrupt
    <3>2. ASSUME NEW t, InnocentOrNoose(t) PROVE mode' # "fallthrough"
      BY <3>2 DEF InnocentOrNoose, TerminateProcess
    <3>3. ASSUME NEW s, NEW k, BlockCurProc(s, k) PROVE mode' # "fallthrough"
      BY <1>1, <3>3 DEF BlockCurProc
    <3>4. CASE CreateProcess \/ CreateRefused \/ Terminate
      BY <1>0, <3>4 DEF CreateProcess, CreateRefused, Terminate, TerminateProcess, vars
    <3>5. ASSUME NEW s \in UserSem, Verhogen(s) \/ Passeren(s) PROVE mode' # "fallthrough"
      BY <1>0, <3>3, <3>5 DEF Verhogen, Passeren, cpuVars
    <3>6. ASSUME NEW t \in VectorTypes, SpecTrap(t) PROVE mode' # "fallthrough"
      BY <1>0, <3>6 DEF SpecTrap, TerminateProcess
    <3>7. ASSUME NEW d \in Devices, WaitIO(d) PROVE mode' # "fallthrough"
      BY <3>3, <3>7 DEF WaitIO
    <3>8. ASSUME NEW t \in TrapTypes, Exception(t) PROVE mode' # "fallthrough"
      BY <3>2, <3>8 DEF Exception
    <3>9. CASE Kill
      <4>1. CASE KillChild \/ ReapReady \/ ReapBlocked \/ ReapRunning
        BY <1>0, <4>1 DEF KillChild, ReapReady, ReapBlocked, ReapRunning, Reap, cpuVars
      <4>2. CASE ReapNeverBlocked \/ Terminated
        BY <1>1, <3>2, <4>2 DEF ReapNeverBlocked, Terminated
      <4> QED BY <3>9, <4>1, <4>2 DEF Kill
    <3>10. CASE LocalTimer \/ IntervalTimer
      BY <1>1, <3>1, <3>10 DEF LocalTimer, IntervalTimer
    <3>11. ASSUME NEW d \in Devices, DeviceInterrupt(d) PROVE mode' # "fallthrough"
      BY <3>1, <3>2, <3>11 DEF DeviceInterrupt
    <3>12. ASSUME NEW d \in Devices, StartIO(d) \/ DeviceDone(d) PROVE mode' # "fallthrough"
      BY <1>0, <3>12 DEF StartIO, DeviceDone
    <3>13. CASE StayStopped \/ UNCHANGED vars
      BY <1>0, <3>13 DEF StayStopped, vars
    <3> QED BY <1>3, <3>4, <3>5, <3>6, <3>7, <3>8, <3>9, <3>10, <3>11, <3>12, <3>13
            DEF Next, SystemCall
  <2>2. CASE Quiet
    BY <1>0, <2>1, <2>2 DEF Quiet, ClockInv
  <2>3. CASE ReapBlocked
    <3>1. PICK s \in Sem : s = p_semAdd[Doomed] /\ Leaves(s, Doomed)
      BY <2>3, ReapLeaves
    <3>2. CASE s = Clock
      <4>1. sem' = sem
        BY <2>3, <3>1, <3>2, SemFacts DEF ReapBlocked, IsDeviceSem
      <4> QED BY <1>0, <2>1, <3>1, <3>2, <4>1 DEF Leaves, ClockInv
    <3>3. CASE s # Clock
      <4>1. procQ'[Clock] = procQ[Clock]
        BY <1>0, <3>1, <3>3 DEF Leaves, TypeOK
      <4>2. sem'[Clock] = sem[Clock]
        BY <1>0, <2>3, <3>1, <3>3 DEF ReapBlocked, TypeOK
      <4> QED BY <1>0, <2>1, <4>1, <4>2 DEF ClockInv
    <3> QED BY <3>2, <3>3
  <2>4. CASE IntervalTimer
    <3>1. /\ procQ'[Clock] = <<>> \/ (procQ'[Clock] = procQ[Clock] /\ ~Releases(sem[Clock] + 1))
          /\ sem'[Clock] = 0
      BY <1>0, <2>4 DEF IntervalTimer, ClockAfterTick, TypeOK
    <3>2. procQ'[Clock] = <<>>
      BY <1>0, <3>1 DEF Releases
    <3> QED BY <2>1, <3>1, <3>2 DEF ClockInv
  <2>5. ASSUME NEW s \in Sem, s # Clock,
               sem'[Clock] = sem[Clock],
               procQ' = procQ \/ \E q : procQ' = [procQ EXCEPT ![s] = q]
        PROVE  ClockInv'
    <3>1. procQ'[Clock] = procQ[Clock]
      BY <1>0, <2>5 DEF TypeOK
    <3> QED BY <1>0, <2>1, <2>5, <3>1 DEF ClockInv
  <2>6. ASSUME NEW s \in UserSem, Verhogen(s) \/ Passeren(s) PROVE ClockInv'
    <3>1. s \in Sem /\ s # Clock
      BY SemFacts
    <3>2. sem'[Clock] = sem[Clock]
      BY <1>0, <2>6, <3>1 DEF Verhogen, Passeren, TypeOK
    <3>3. procQ' = procQ \/ \E q : procQ' = [procQ EXCEPT ![s] = q]
      BY <2>6 DEF Verhogen, Passeren, BlockCurProc
    <3> QED BY <2>5, <3>1, <3>2, <3>3
  <2>7. ASSUME NEW d \in Devices, WaitIO(d) \/ DeviceInterrupt(d) PROVE ClockInv'
    <3>1. d \in Sem /\ d # Clock
      BY SemFacts
    <3>2. sem'[Clock] = sem[Clock]
      BY <1>0, <2>7, <3>1 DEF WaitIO, DeviceInterrupt, VDevice, TypeOK
    <3>3. procQ' = procQ \/ \E q : procQ' = [procQ EXCEPT ![d] = q]
      BY <2>7 DEF WaitIO, DeviceInterrupt, BlockCurProc, queueVars
    <3> QED BY <2>5, <3>1, <3>2, <3>3
  <2> QED BY <1>3, <2>2, <2>3, <2>4, <2>6, <2>7, NextSplit
<1> QED BY <1>2, <1>3

-----------------------------------------------------------------------------
(***************************************************************************)
(* The devices.  One process issues an operation and awaits it, so the     *)
(* device semaphore is -1 only while an awaited operation is in flight.    *)
(***************************************************************************)
DevSem(d) ==
  /\ sem[d] >= -1
  /\ sem[d] = -1 => dev[d] # "idle" /\ issuer[d] = NoProc
  /\ issuer[d] # NoProc /\ dev[d] = "idle" => sem[d] >= 1
  /\ procQ[d] # <<>> => Len(procQ[d]) = 1 /\ sem[d] = -1

DevInv == \A d \in Devices : DevSem(d)

LEMMA DevStep ==
  ASSUME StructInv, DevInv, [Next]_vars
  PROVE  DevInv'
<1>0. /\ TypeOK /\ RunInv
      /\ \A d \in Devices : d \in Sem /\ DevSem(d)
      /\ \A s \in Sem : Len(procQ[s]) \in Nat /\ sem[s] \in Int
  BY SemFacts, QueueLengths DEF StructInv, TypeInv, DevInv
<1>1. ASSUME NEW d \in Devices, procQ'[d] = procQ[d], sem'[d] = sem[d],
             dev' = dev, issuer'[d] \in {issuer[d], NoProc}
      PROVE  DevSem(d)'
  BY <1>0, <1>1 DEF DevSem
<1>2. CASE Quiet /\ dev' = dev /\ \A d \in Devices : issuer'[d] \in {issuer[d], NoProc}
  BY <1>1, <1>2 DEF Quiet, DevInv
<1>3. ASSUME NEW e \in Devices, StartIO(e) PROVE DevInv'
  <2>1. /\ procQ' = procQ /\ sem' = sem
        /\ dev[e] = "idle" /\ dev'[e] = "busy"
        /\ \A d \in Devices : d # e => dev'[d] = dev[d] /\ issuer'[d] = issuer[d]
    BY <1>0, <1>3 DEF StartIO, queueVars, TypeOK
  <2>2. DevSem(e)'
    BY <1>0, <2>1 DEF DevSem
  <2>3. \A d \in Devices : d # e => DevSem(d)'
    BY <1>0, <2>1 DEF DevSem
  <2> QED BY <2>2, <2>3 DEF DevInv
<1>4. ASSUME NEW e \in Devices, DeviceDone(e) PROVE DevInv'
  <2>1. /\ procQ' = procQ /\ sem' = sem /\ issuer' = issuer
        /\ dev[e] = "busy" /\ dev'[e] = "done"
        /\ \A d \in Devices : d # e => dev'[d] = dev[d]
    BY <1>0, <1>4 DEF DeviceDone, queueVars, TypeOK
  <2> QED BY <1>0, <2>1 DEF DevInv, DevSem
<1>5. ASSUME NEW e \in Devices, DeviceInterrupt(e) PROVE DevInv'
  <2>1. /\ issuer' = issuer /\ sem'[e] = sem[e] + 1 /\ dev'[e] = "idle" /\ dev[e] = "done"
        /\ \A d \in Devices : d # e => dev'[d] = dev[d] /\ sem'[d] = sem[d]
    BY <1>0, <1>5 DEF DeviceInterrupt, VDevice, TypeOK
  <2>2. \/ procQ' = procQ /\ (procQ[e] = <<>> \/ sem'[e] > 0)
        \/ procQ' = [procQ EXCEPT ![e] = Tail(procQ[e])] /\ procQ[e] # <<>>
    BY <1>0, <1>5, <2>1 DEF DeviceInterrupt, Releases
  <2>3. procQ'[e] = <<>>
    <3>1. CASE procQ' = procQ /\ (procQ[e] = <<>> \/ sem'[e] > 0)
      BY <1>0, <2>1, <3>1 DEF DevSem
    <3>2. CASE procQ' = [procQ EXCEPT ![e] = Tail(procQ[e])] /\ procQ[e] # <<>>
      <4>1. procQ[e] \in Seq(Proc) /\ procQ'[e] = Tail(procQ[e]) /\ Len(procQ[e]) = 1
        BY <1>0, <3>2 DEF TypeOK, DevSem
      <4>2. Tail(procQ[e]) \in Seq(Proc) /\ Len(Tail(procQ[e])) = 0
        BY <3>2, <4>1, TailQueue
      <4>3. Tail(procQ[e]) = <<>>
        BY <4>2, EmptySeq
      <4> QED BY <4>1, <4>3
    <3> QED BY <2>2, <3>1, <3>2
  <2>4. DevSem(e)'
    BY <1>0, <2>1, <2>3 DEF DevSem
  <2>5. \A d \in Devices : d # e => DevSem(d)'
    <3>1. \A d \in Devices : d # e => procQ'[d] = procQ[d]
      BY <1>0, <2>2 DEF TypeOK
    <3> QED BY <1>0, <2>1, <3>1 DEF DevSem
  <2> QED BY <2>4, <2>5 DEF DevInv
<1>6. ASSUME NEW e \in Devices, WaitIO(e) PROVE DevInv'
  <2>1. /\ mode = "run" /\ dev' = dev /\ sem'[e] = sem[e] - 1
        /\ issuer[e] = curProc /\ curProc # NoProc /\ issuer'[e] = NoProc
        /\ \A d \in Devices : d # e => issuer'[d] = issuer[d] /\ sem'[d] = sem[d]
    BY <1>0, <1>6, ProcAssumption DEF WaitIO, TypeOK, RunInv
  <2>2. sem[e] >= 0 /\ (sem[e] = 0 => dev[e] # "idle") /\ procQ[e] = <<>>
    BY <1>0, <2>1 DEF DevSem
  <2>3. CASE sem'[e] < 0
    <3>1. Joins(e, curProc)
      BY <1>0, <1>6, <2>1, <2>3, BlockJoins DEF WaitIO
    <3>2. Len(procQ'[e]) = 1 /\ \A d \in Devices : d # e => procQ'[d] = procQ[d]
      BY <1>0, <2>2, <3>1 DEF Joins, TypeOK
    <3>3. DevSem(e)'
      BY <1>0, <2>1, <2>2, <2>3, <3>2 DEF DevSem
    <3> QED BY <1>1, <2>1, <3>2, <3>3 DEF DevInv
  <2>4. CASE ~(sem'[e] < 0)
    <3>1. procQ' = procQ
      BY <1>6, <2>4 DEF WaitIO, queueVars
    <3>2. DevSem(e)'
      BY <1>0, <2>1, <2>2, <2>4, <3>1 DEF DevSem
    <3> QED BY <1>1, <2>1, <3>1, <3>2 DEF DevInv
  <2> QED BY <2>3, <2>4
<1>7. CASE ReapBlocked
  <2>1. PICK s \in Sem : s = p_semAdd[Doomed] /\ Leaves(s, Doomed)
    BY <1>7, ReapLeaves
  <2>2. dev' = dev /\ \A d \in Devices : issuer'[d] \in {issuer[d], NoProc}
    BY <1>7 DEF ReapBlocked, Reap
  <2>3. \A d \in Devices : sem'[d] = sem[d]
    <3>1. CASE IsDeviceSem(s)
      BY <1>7, <2>1, <3>1 DEF ReapBlocked
    <3>2. CASE ~IsDeviceSem(s)
      BY <1>0, <1>7, <2>1, <3>2 DEF ReapBlocked, TypeOK, IsDeviceSem, DeviceSem
    <3> QED BY <3>1, <3>2
  <2>4. \A d \in Devices : d # s => procQ'[d] = procQ[d]
    BY <1>0, <2>1 DEF Leaves, TypeOK
  <2>5. s \in Devices => DevSem(s)'
    <3>1. SUFFICES ASSUME s \in Devices PROVE DevSem(s)'
      OBVIOUS
    <3>2. procQ[s] # <<>>
      BY <1>0, <2>1, ToSetDef DEF Leaves, BlockedOn, TypeOK
    <3>3. Len(procQ'[s]) = 0
      <4>1. Len(procQ'[s]) = Len(procQ[s]) - 1
        BY <2>1 DEF Leaves
      <4>2. Len(procQ[s]) = 1
        BY <1>0, <3>1, <3>2 DEF DevSem
      <4> QED BY <4>1, <4>2
    <3>4. procQ'[s] = <<>>
      <4>1. TypeOK'
        BY TypeStep DEF StructInv, TypeInv
      <4> QED BY <3>3, <4>1 DEF TypeOK
    <3> QED BY <1>0, <2>2, <2>3, <3>1, <3>4 DEF DevSem
  <2> QED BY <1>1, <2>2, <2>3, <2>4, <2>5 DEF DevInv
<1>8. ASSUME NEW s \in Sem, s \notin Devices, dev' = dev, issuer' = issuer,
             procQ' = procQ \/ \E q : procQ' = [procQ EXCEPT ![s] = q],
             \E v : sem' = [sem EXCEPT ![s] = v]
      PROVE  DevInv'
  <2>1. \A d \in Devices : procQ'[d] = procQ[d] /\ sem'[d] = sem[d]
    BY <1>0, <1>8 DEF TypeOK
  <2> QED BY <1>1, <1>8, <2>1 DEF DevInv
<1>9. CASE WaitClock
  BY <1>8, <1>9, SemFacts DEF WaitClock, BlockCurProc, queueVars, devVars
<1>10. CASE IntervalTimer
  BY <1>8, <1>10, SemFacts DEF IntervalTimer, devVars
<1>11. ASSUME NEW s \in UserSem, Verhogen(s) \/ Passeren(s) PROVE DevInv'
  <2>1. s \in Sem /\ s \notin Devices
    BY SemFacts
  <2>2. dev' = dev /\ issuer' = issuer /\ \E v : sem' = [sem EXCEPT ![s] = v]
    BY <1>11 DEF Verhogen, Passeren, devVars
  <2>3. procQ' = procQ \/ \E q : procQ' = [procQ EXCEPT ![s] = q]
    BY <1>11 DEF Verhogen, Passeren, BlockCurProc
  <2> QED BY <1>8, <2>1, <2>2, <2>3
<1>12. \/ UNCHANGED <<dev, issuer>>
       \/ ReapReady \/ ReapBlocked \/ ReapRunning
       \/ \E d \in Devices : StartIO(d) \/ DeviceDone(d) \/ WaitIO(d) \/ DeviceInterrupt(d)
  <2>1. CASE CreateProcess \/ CreateRefused \/ Terminate \/ WaitClock
    BY <2>1 DEF CreateProcess, CreateRefused, Terminate, WaitClock, vars, devVars
  <2>2. ASSUME NEW s \in UserSem, Verhogen(s) \/ Passeren(s) PROVE UNCHANGED <<dev, issuer>>
    BY <2>2 DEF Verhogen, Passeren, devVars
  <2>3. ASSUME NEW t \in VectorTypes, SpecTrap(t) PROVE UNCHANGED <<dev, issuer>>
    BY <2>3 DEF SpecTrap, devVars
  <2>4. ASSUME NEW t \in TrapTypes, Exception(t) PROVE UNCHANGED <<dev, issuer>>
    BY <2>4 DEF Exception, devVars
  <2>5. CASE KillChild \/ ReapNeverBlocked \/ Terminated \/ LocalTimer \/ IntervalTimer
    BY <2>5 DEF KillChild, ReapNeverBlocked, Terminated, LocalTimer, IntervalTimer, devVars
  <2>6. CASE StayStopped \/ UNCHANGED vars
    BY <2>6 DEF StayStopped, vars
  <2> QED BY <2>1, <2>2, <2>3, <2>4, <2>5, <2>6 DEF Next, SystemCall, Kill
<1>13. CASE ReapReady \/ ReapRunning
  <2>1. Quiet /\ dev' = dev /\ \A d \in Devices : issuer'[d] \in {issuer[d], NoProc}
    BY <1>13 DEF ReapReady, ReapRunning, Reap, Quiet
  <2> QED BY <2>1, <1>2
<1> QED BY <1>2, <1>3, <1>4, <1>5, <1>6, <1>7, <1>9, <1>10, <1>11, <1>12, <1>13, NextSplit

-----------------------------------------------------------------------------
(***************************************************************************)
(* softBlkCount.                                                           *)
(***************************************************************************)
LEMMA SoftBlockedDef ==
  ASSUME TypeOK
  PROVE  /\ \A p : p \in SoftBlocked <=> \E s \in DeviceSem : p \in BlockedOn(s)
         /\ SoftBlocked \subseteq Proc /\ IsFiniteSet(SoftBlocked)
         /\ Cardinality(SoftBlocked) \in Nat
<1>1. \A p : p \in SoftBlocked <=> \E s \in DeviceSem : p \in BlockedOn(s)
  BY DEF SoftBlocked
<1>2. SoftBlocked \subseteq Proc
  BY <1>1, PlacesTyped, SemFacts
<1> QED BY <1>1, <1>2, ProcAssumption, FS_Subset, FS_CardinalityType

\* The same after the step.
LEMMA SoftBlockedNext ==
  TypeOK' => \A p : p \in SoftBlocked' <=> \E s \in DeviceSem : p \in BlockedOn(s)'
BY SemFacts DEF SoftBlocked

\* One process starts to wait for a device or for the clock.
LEMMA SoftJoins ==
  ASSUME TypeOK, TypeOK', NEW s \in DeviceSem, NEW p, Joins(s, p)
  PROVE  Cardinality(SoftBlocked') = Cardinality(SoftBlocked) + 1
<1>1. s \in Sem /\ \A a \in DeviceSem : a # s => BlockedOn(a)' = BlockedOn(a)
  BY SemFacts, OtherQueues DEF Joins
<1>2. BlockedOn(s)' = BlockedOn(s) \cup {p}
  BY DEF Joins
<1>3. p \notin SoftBlocked
  BY SoftBlockedDef, SemFacts DEF Joins
<1>4. \A q : q \in SoftBlocked <=> \E a \in DeviceSem : q \in BlockedOn(a)
  BY SoftBlockedDef
<1>5. \A q : q \in SoftBlocked' <=> \E a \in DeviceSem : q \in BlockedOn(a)'
  BY SoftBlockedNext
<1> HIDE DEF SoftBlocked, BlockedOn
<1>6. \A q : q \in SoftBlocked' <=> q \in SoftBlocked \/ q = p
  BY <1>1, <1>2, <1>4, <1>5
<1>7. SoftBlocked' = SoftBlocked \cup {p}
  BY <1>6
<1> QED BY <1>3, <1>7, SoftBlockedDef, FS_AddElement

\* Some of a semaphore's waiters, W, stop waiting.
LEMMA SoftLeaves ==
  ASSUME TypeOK, TypeOK', Placed, NEW s \in DeviceSem, NEW q, NEW W,
         procQ' = [procQ EXCEPT ![s] = q],
         W \subseteq BlockedOn(s), BlockedOn(s)' = BlockedOn(s) \ W
  PROVE  Cardinality(SoftBlocked') = Cardinality(SoftBlocked) - Cardinality(W)
<1>1. s \in Sem /\ \A a \in DeviceSem : a # s => BlockedOn(a)' = BlockedOn(a)
  BY SemFacts, OtherQueues
<1>2. \A r : r \in SoftBlocked <=> \E a \in DeviceSem : r \in BlockedOn(a)
  BY SoftBlockedDef
<1>3. \A r : r \in SoftBlocked' <=> \E a \in DeviceSem : r \in BlockedOn(a)'
  BY SoftBlockedNext
<1>4. \A a \in DeviceSem : a # s => BlockedOn(a) \cap W = {}
  <2>1. ASSUME NEW a \in DeviceSem, a # s, NEW p \in BlockedOn(a), p \in W PROVE FALSE
    <3>1. p \in Proc /\ a \in Sem /\ p \in BlockedOn(s)
      BY <1>1, <2>1, PlacesTyped, SemFacts
    <3>2. p_semAdd[p] = a /\ p_semAdd[p] = s
      BY <1>1, <2>1, <3>1 DEF Placed
    <3> QED BY <2>1, <3>2
  <2> QED BY <2>1
<1> HIDE DEF SoftBlocked, BlockedOn
<1>5. \A r : r \in SoftBlocked' <=> r \in SoftBlocked /\ r \notin W
  BY <1>1, <1>2, <1>3, <1>4
<1>6. W \subseteq SoftBlocked /\ SoftBlocked' = SoftBlocked \ W
  BY <1>2, <1>5
<1>7. IsFiniteSet(SoftBlocked) /\ SoftBlocked \cap W = W
  BY <1>6, SoftBlockedDef
<1>8. Cardinality(SoftBlocked \ W) = Cardinality(SoftBlocked) - Cardinality(SoftBlocked \cap W)
  BY <1>7, FS_Difference
<1> QED BY <1>6, <1>7, <1>8

LEMMA SoftSame ==
  ASSUME TypeOK, NEW s \in Sem, s \notin DeviceSem,
         procQ' = procQ \/ \E q : procQ' = [procQ EXCEPT ![s] = q]
  PROVE  SoftBlocked' = SoftBlocked
<1>1. \A a \in DeviceSem : BlockedOn(a)' = BlockedOn(a)
  BY OtherQueues, SemFacts DEF BlockedOn, TypeOK
<1> QED BY <1>1 DEF SoftBlocked

LEMMA SoftStep ==
  ASSUME StructInv, SoftBlkExact, [Next]_vars
  PROVE  SoftBlkExact'
<1>0. /\ TypeOK /\ Placed /\ Cardinality(SoftBlocked) \in Nat
      /\ softBlkCount = Cardinality(SoftBlocked) - strayV
      /\ softBlkCount \in Int /\ strayV \in Nat
  BY PlacedIff, SoftBlockedDef DEF StructInv, TypeInv, SoftBlkExact, TypeOK
<1>1. TypeOK'
  BY TypeStep DEF StructInv, TypeInv
<1>2. CASE Quiet
  <2>1. SoftBlocked' = SoftBlocked
    BY <1>2 DEF Quiet, SoftBlocked, BlockedOn
  <2> QED BY <1>2, <2>1 DEF Quiet, SoftBlkExact
<1>3. ASSUME NEW s \in DeviceSem, Joins(s, curProc),
             softBlkCount' = softBlkCount + 1, strayV' = strayV
      PROVE  SoftBlkExact'
  <2>1. Cardinality(SoftBlocked') = Cardinality(SoftBlocked) + 1
    BY <1>0, <1>1, <1>3, SoftJoins
  <2> QED BY <1>0, <1>3, <2>1 DEF SoftBlkExact
<1>4. ASSUME NEW s \in DeviceSem, NEW p, Leaves(s, p),
             softBlkCount' = softBlkCount - 1, strayV' = strayV
      PROVE  SoftBlkExact'
  <2>1. {p} \subseteq BlockedOn(s) /\ BlockedOn(s)' = BlockedOn(s) \ {p}
    BY <1>4 DEF Leaves
  <2>2. PICK q : procQ' = [procQ EXCEPT ![s] = q]
    BY <1>4 DEF Leaves
  <2>3. Cardinality(SoftBlocked') = Cardinality(SoftBlocked) - Cardinality({p})
    BY <1>0, <1>1, <2>1, <2>2, SoftLeaves
  <2>4. Cardinality({p}) = 1
    BY FS_Singleton
  <2> QED BY <1>0, <1>4, <2>3, <2>4 DEF SoftBlkExact
<1>5. CASE WaitClock
  <2>1. mode = "run" /\ strayV' = strayV
    BY <1>5 DEF WaitClock, devVars
  <2>2. CASE sem'[Clock] < 0
    <3>1. softBlkCount' = softBlkCount + 1 /\ BlockCurProc(Clock, softBlkCount')
      BY <1>5, <2>2 DEF WaitClock
    <3> QED BY <1>3, <2>1, <3>1, BlockJoins, SemFacts
  <2>3. CASE ~(sem'[Clock] < 0)
    <3>1. procQ' = procQ /\ softBlkCount' = softBlkCount
      BY <1>5, <2>3 DEF WaitClock, queueVars
    <3>2. SoftBlocked' = SoftBlocked
      BY <3>1 DEF SoftBlocked, BlockedOn
    <3> QED BY <2>1, <3>1, <3>2 DEF SoftBlkExact
  <2> QED BY <2>2, <2>3
<1>6. ASSUME NEW d \in Devices, WaitIO(d) PROVE SoftBlkExact'
  <2>1. mode = "run" /\ strayV' = strayV
    BY <1>6 DEF WaitIO
  <2>2. CASE sem'[d] < 0
    <3>1. softBlkCount' = softBlkCount + 1 /\ BlockCurProc(d, softBlkCount')
      BY <1>6, <2>2 DEF WaitIO
    <3> QED BY <1>3, <2>1, <3>1, BlockJoins, SemFacts
  <2>3. CASE ~(sem'[d] < 0)
    <3>1. procQ' = procQ /\ softBlkCount' = softBlkCount
      BY <1>6, <2>3 DEF WaitIO, queueVars
    <3>2. SoftBlocked' = SoftBlocked
      BY <3>1 DEF SoftBlocked, BlockedOn
    <3> QED BY <2>1, <3>1, <3>2 DEF SoftBlkExact
  <2> QED BY <2>2, <2>3
<1>7. CASE ReapBlocked
  <2>1. PICK s \in Sem : s = p_semAdd[Doomed] /\ Leaves(s, Doomed)
    BY <1>7, ReapLeaves
  <2>2. strayV' = strayV
    BY <1>7 DEF ReapBlocked, Reap
  <2>3. CASE s \in DeviceSem
    <3>1. softBlkCount' = softBlkCount - 1
      BY <1>7, <2>1, <2>3 DEF ReapBlocked, IsDeviceSem
    <3> QED BY <1>4, <2>1, <2>2, <2>3, <3>1
  <2>4. CASE s \notin DeviceSem
    <3>1. softBlkCount' = softBlkCount
      BY <1>7, <2>1, <2>4 DEF ReapBlocked, IsDeviceSem
    <3>2. SoftBlocked' = SoftBlocked
      BY <1>0, <2>1, <2>4, SoftSame DEF Leaves
    <3> QED BY <2>2, <3>1, <3>2 DEF SoftBlkExact
  <2> QED BY <2>3, <2>4
<1>8. ASSUME NEW s \in UserSem, Verhogen(s) \/ Passeren(s) PROVE SoftBlkExact'
  <2>1. softBlkCount' = softBlkCount /\ strayV' = strayV
    BY <1>8 DEF Verhogen, Passeren, devVars
  <2>2. procQ' = procQ \/ \E q : procQ' = [procQ EXCEPT ![s] = q]
    BY <1>8 DEF Verhogen, Passeren, BlockCurProc
  <2>3. SoftBlocked' = SoftBlocked
    BY <1>0, <2>2, SemFacts, SoftSame
  <2> QED BY <2>1, <2>3 DEF SoftBlkExact
<1>9. CASE IntervalTimer
  <2> DEFINE released == IF Releases(sem[Clock] + 1) THEN procQ[Clock] ELSE <<>>
             left == IF released = <<>> THEN procQ[Clock] ELSE <<>>
  <2>1. /\ procQ' = [procQ EXCEPT ![Clock] = left]
        /\ softBlkCount' = softBlkCount - Len(released) /\ strayV' = strayV
    BY <1>9 DEF IntervalTimer, devVars
  <2>2. Clock \in Sem /\ Clock \in DeviceSem /\ procQ[Clock] \in Seq(Proc) /\ procQ'[Clock] = left
    BY <1>0, <2>1, SemFacts DEF TypeOK
  <2>3. IsInjective(procQ[Clock])
    BY <1>0, <2>2 DEF Placed
  <2>4. ToSet(<<>>) = {} /\ Len(<<>>) = 0 /\ Cardinality({}) = 0
    BY FS_EmptySet DEF ToSet
  <2>5. Cardinality(ToSet(procQ[Clock])) = Len(procQ[Clock])
    BY <2>2, <2>3, InjectiveLength
  <2>6. PICK W : W = ToSet(released)
    OBVIOUS
  <2>7. W \subseteq BlockedOn(Clock) /\ BlockedOn(Clock)' = BlockedOn(Clock) \ W
        /\ Cardinality(W) = Len(released) /\ Len(released) \in Nat
    <3>1. CASE released = <<>>
      BY <2>2, <2>4, <2>6, <3>1 DEF BlockedOn
    <3>2. CASE released # <<>>
      BY <2>2, <2>4, <2>5, <2>6, <3>2 DEF BlockedOn
    <3> QED BY <3>1, <3>2
  <2> HIDE DEF released, left
  <2>8. Cardinality(SoftBlocked') = Cardinality(SoftBlocked) - Cardinality(W)
    BY <1>0, <1>1, <2>1, <2>2, <2>7, SoftLeaves
  <2> QED BY <1>0, <2>1, <2>7, <2>8 DEF SoftBlkExact
<1>10. ASSUME NEW d \in Devices, DeviceInterrupt(d) PROVE SoftBlkExact'
  <2>1. CASE ~Releases(sem'[d])
    <3>1. UNCHANGED <<procQ, softBlkCount, strayV>>
      BY <1>10, <2>1 DEF DeviceInterrupt
    <3>2. SoftBlocked' = SoftBlocked
      BY <3>1 DEF SoftBlocked, BlockedOn
    <3> QED BY <3>1, <3>2 DEF SoftBlkExact
  <2>2. CASE Releases(sem'[d]) /\ procQ[d] # <<>>
    <3>1. /\ procQ' = [procQ EXCEPT ![d] = Tail(procQ[d])]
          /\ softBlkCount' = softBlkCount - 1 /\ strayV' = strayV
      BY <1>10, <2>2 DEF DeviceInterrupt
    <3> QED BY <1>4, <2>2, <3>1, TailLeaves, SemFacts
  <2>3. CASE Releases(sem'[d]) /\ procQ[d] = <<>>
    <3>1. procQ' = procQ /\ softBlkCount' = softBlkCount - 1 /\ strayV' = strayV + 1
      BY <1>10, <2>3 DEF DeviceInterrupt
    <3>2. SoftBlocked' = SoftBlocked
      BY <3>1 DEF SoftBlocked, BlockedOn
    <3> QED BY <1>0, <3>1, <3>2 DEF SoftBlkExact
  <2> QED BY <2>1, <2>2, <2>3
<1> QED BY <1>2, <1>5, <1>6, <1>7, <1>8, <1>9, <1>10, NextSplit

-----------------------------------------------------------------------------
(***************************************************************************)
(* procCount and the verdicts of nextVictim.                               *)
(***************************************************************************)
LiveCount == procCount = Cardinality(Proc \ pcbFree)

LEMMA LiveCountStep ==
  ASSUME StructInv, LiveCount, [Next]_vars
  PROVE  LiveCount'
<1>0. TypeOK /\ IsFiniteSet(Proc \ pcbFree) /\ Cardinality(Proc \ pcbFree) \in Nat
  BY ProcAssumption, FS_Difference, FS_CardinalityType DEF StructInv, TypeInv
<1>1. CASE CreateProcess
  <2>1. PICK child \in pcbFree : pcbFree' = pcbFree \ {child} /\ procCount' = procCount + 1
    BY <1>1 DEF CreateProcess
  <2>2. Proc \ pcbFree' = (Proc \ pcbFree) \cup {child} /\ child \notin Proc \ pcbFree
    BY <1>0, <2>1 DEF TypeOK
  <2> QED BY <1>0, <2>1, <2>2, FS_AddElement DEF LiveCount
<1>2. CASE ReapReady \/ ReapBlocked \/ ReapRunning
  <2>1. Childless /\ Reap(Doomed)
    BY <1>2 DEF ReapReady, ReapBlocked, ReapRunning
  <2>2. pcbFree' = pcbFree \cup {Doomed} /\ procCount' = procCount - 1
    BY <2>1 DEF Reap
  <2>3. Doomed \in Proc \ pcbFree
    <3>1. noose # <<>> /\ noose \in Seq(Proc)
      BY <1>0, <2>1 DEF Childless, TypeOK
    <3>2. Doomed \in Proc /\ Doomed \in ToSet(noose)
      BY <3>1, FrontQueue DEF Doomed
    <3> QED BY <3>2 DEF StructInv, NooseInv
  <2>4. Proc \ pcbFree' = (Proc \ pcbFree) \ {Doomed}
    BY <2>2
  <2> QED BY <1>0, <2>2, <2>3, <2>4, FS_RemoveElement DEF LiveCount
<1>3. CASE UNCHANGED procVars
  BY <1>3 DEF LiveCount, procVars
<1>4. \/ CreateProcess \/ ReapReady \/ ReapBlocked \/ ReapRunning
      \/ UNCHANGED procVars
  <2>1. CASE CreateRefused \/ Terminate \/ WaitClock
    BY <2>1 DEF CreateRefused, Terminate, WaitClock, vars, procVars
  <2>2. ASSUME NEW s \in UserSem, Verhogen(s) \/ Passeren(s) PROVE UNCHANGED procVars
    BY <2>2 DEF Verhogen, Passeren, procVars
  <2>3. ASSUME NEW t \in VectorTypes, SpecTrap(t) PROVE UNCHANGED procVars
    BY <2>3 DEF SpecTrap, procVars
  <2>4. ASSUME NEW t \in TrapTypes, Exception(t) PROVE UNCHANGED procVars
    BY <2>4 DEF Exception, procVars
  <2>5. CASE KillChild \/ ReapNeverBlocked \/ Terminated \/ LocalTimer \/ IntervalTimer
    BY <2>5 DEF KillChild, ReapNeverBlocked, Terminated, LocalTimer, IntervalTimer, procVars
  <2>6. CASE StayStopped \/ UNCHANGED vars
    BY <2>6 DEF StayStopped, vars, procVars
  <2>7. ASSUME NEW d \in Devices,
               StartIO(d) \/ DeviceDone(d) \/ WaitIO(d) \/ DeviceInterrupt(d)
        PROVE  UNCHANGED procVars
    BY <2>7 DEF StartIO, DeviceDone, WaitIO, DeviceInterrupt, procVars
  <2> QED BY <2>1, <2>2, <2>3, <2>4, <2>5, <2>6, <2>7 DEF Next, SystemCall, Kill
<1> QED BY <1>1, <1>2, <1>3, <1>4

\* The steps that leave nextVictim to choose the mode.
Chosen == \E r, w : NextVictim(r, procCount', softBlkCount', w)

LEMMA ModeSplit ==
  ASSUME StructInv, [Next]_vars
  PROVE  \/ Chosen /\ UNCHANGED procVars
         \/ mode' \notin {"halt", "panicSched", "wait"}
         \/ /\ mode' = mode /\ SoftBlocked' = SoftBlocked
            /\ UNCHANGED procVars /\ strayV' = strayV
<1> DEFINE Goal == \/ Chosen /\ UNCHANGED procVars
                   \/ mode' \notin {"halt", "panicSched", "wait"}
                   \/ /\ mode' = mode /\ SoftBlocked' = SoftBlocked
                      /\ UNCHANGED procVars /\ strayV' = strayV
<1>1. ASSUME NEW t, InnocentOrNoose(t) PROVE Goal
  BY <1>1 DEF InnocentOrNoose, TerminateProcess
<1>2. ASSUME NEW s, NEW k, BlockCurProc(s, k), k = softBlkCount', UNCHANGED procVars
      PROVE  Goal
  BY <1>2 DEF BlockCurProc, Chosen, procVars
<1>3. ASSUME NEW r, NEW k, Interruptible, ReturnFromInterrupt(r, k), k = softBlkCount',
             UNCHANGED procVars
      PROVE  Goal
  <2>1. CASE waiting \/ curProc = NoProc
    BY <1>3, <2>1 DEF ReturnFromInterrupt, Chosen, procVars
  <2>2. CASE ~(waiting \/ curProc = NoProc)
    <3>1. mode = "run"
      BY <1>3, <2>2 DEF StructInv, IdleInv, Interruptible
    <3> QED BY <1>3, <2>2, <3>1 DEF ReturnFromInterrupt
  <2> QED BY <2>1, <2>2
<1>4. CASE mode = "run" /\ mode' = mode
  BY <1>4
<1>5. CASE CreateProcess \/ CreateRefused \/ Terminate
  BY <1>5 DEF CreateProcess, CreateRefused, Terminate, TerminateProcess, vars
<1>6. CASE WaitClock
  <2>1. UNCHANGED procVars
    BY <1>6 DEF WaitClock
  <2>2. BlockCurProc(Clock, softBlkCount') \/ mode' = "fallthrough"
    BY <1>6 DEF WaitClock
  <2> QED BY <1>2, <2>1, <2>2
<1>7. ASSUME NEW s \in UserSem, Verhogen(s) PROVE Goal
  BY <1>7 DEF Verhogen
<1>8. ASSUME NEW s \in UserSem, Passeren(s) PROVE Goal
  <2>1. UNCHANGED procVars /\ softBlkCount' = softBlkCount
    BY <1>8 DEF Passeren
  <2>2. BlockCurProc(s, softBlkCount) \/ (mode = "run" /\ mode' = mode)
    BY <1>8 DEF Passeren, cpuVars
  <2> QED BY <1>2, <1>4, <2>1, <2>2
<1>9. ASSUME NEW t \in VectorTypes, SpecTrap(t) PROVE Goal
  BY <1>9 DEF SpecTrap, TerminateProcess
<1>10. ASSUME NEW d \in Devices, WaitIO(d) PROVE Goal
  <2>1. UNCHANGED procVars
    BY <1>10 DEF WaitIO
  <2>2. BlockCurProc(d, softBlkCount') \/ mode' = "panicExcep"
    BY <1>10 DEF WaitIO
  <2> QED BY <1>2, <2>1, <2>2
<1>11. ASSUME NEW t \in TrapTypes, Exception(t) PROVE Goal
  BY <1>1, <1>11 DEF Exception
<1>12. CASE Kill
  <2>1. CASE KillChild \/ ReapReady \/ ReapBlocked \/ ReapRunning
    <3>1. mode = "kill" /\ mode' = mode
      BY <2>1 DEF KillChild, ReapReady, ReapBlocked, ReapRunning, Reap, Childless, cpuVars
    <3> QED BY <3>1
  <2>2. CASE ReapNeverBlocked
    BY <1>1, <2>2 DEF ReapNeverBlocked
  <2>3. CASE Terminated
    BY <2>3 DEF Terminated, Chosen, procVars
  <2> QED BY <1>12, <2>1, <2>2, <2>3 DEF Kill
<1>13. CASE LocalTimer
  BY <1>13 DEF LocalTimer, Chosen, procVars
<1>14. CASE IntervalTimer
  <2>1. Interruptible /\ UNCHANGED procVars /\ \E r : ReturnFromInterrupt(r, softBlkCount')
    BY <1>14 DEF IntervalTimer
  <2> QED BY <1>3, <2>1
<1>15. ASSUME NEW d \in Devices, DeviceInterrupt(d) PROVE Goal
  <2>1. Interruptible /\ UNCHANGED procVars
    BY <1>15 DEF DeviceInterrupt
  <2>2. (\E r : ReturnFromInterrupt(r, softBlkCount')) \/ InnocentOrNoose("PROGTRAP")
    <3>1. CASE ~Releases(sem'[d])
      BY <1>15, <3>1 DEF DeviceInterrupt
    <3>2. CASE Releases(sem'[d])
      BY <1>15, <3>2 DEF DeviceInterrupt
    <3> QED BY <3>1, <3>2
  <2> QED BY <1>1, <1>3, <2>1, <2>2
<1>16. ASSUME NEW d \in Devices, StartIO(d) PROVE Goal
  BY <1>16 DEF StartIO
<1>17. CASE StayStopped \/ UNCHANGED vars \/ \E d \in Devices : DeviceDone(d)
  <2>1. UNCHANGED <<mode, procQ, procVars, strayV>>
    BY <1>17 DEF StayStopped, vars, DeviceDone, queueVars, procVars
  <2>2. SoftBlocked' = SoftBlocked
    BY <2>1 DEF SoftBlocked, BlockedOn
  <2> QED BY <2>1, <2>2
<1> QED BY <1>5, <1>6, <1>7, <1>8, <1>9, <1>10, <1>11, <1>12, <1>13, <1>14,
           <1>15, <1>16, <1>17 DEF Next, SystemCall

LEMMA VerdictStep ==
  ASSUME StructInv, SoftBlkExact, LiveCount,
         mode = "halt" => pcbFree = Proc, IdleVerdict, [Next]_vars
  PROVE  (mode' = "halt" => pcbFree' = Proc) /\ IdleVerdict'
<1>0. TypeOK /\ TypeOK' /\ SoftBlkExact' /\ LiveCount'
  BY TypeStep, SoftStep, LiveCountStep DEF StructInv, TypeInv
<1>1. /\ pcbFree' \subseteq Proc /\ strayV' \in Nat
      /\ softBlkCount' = Cardinality(SoftBlocked') - strayV'
      /\ procCount' = Cardinality(Proc \ pcbFree')
  BY <1>0 DEF TypeOK, SoftBlkExact, LiveCount
<1>2. /\ Cardinality(SoftBlocked') \in Nat
      /\ Cardinality(SoftBlocked') = 0 <=> SoftBlocked' = {}
  <2>1. TypeOK' => IsFiniteSet(SoftBlocked')
    <3>1. TypeOK => IsFiniteSet(SoftBlocked)
      BY SoftBlockedDef
    <3>2. SoftBlocked' \subseteq Proc
      <4>1. \A s \in DeviceSem : BlockedOn(s)' \subseteq Proc
        BY <1>0, SemFacts, ToSetDef DEF TypeOK, BlockedOn
      <4> QED BY <1>0, <4>1, SoftBlockedNext
    <3> QED BY <3>2, ProcAssumption, FS_Subset
  <2> QED BY <1>0, <2>1, FS_EmptySet, FS_CardinalityType
<1>3. Cardinality(Proc \ pcbFree') = 0 <=> pcbFree' = Proc
  <2>1. IsFiniteSet(Proc \ pcbFree')
    BY ProcAssumption, FS_Difference
  <2> QED BY <1>1, <2>1, FS_EmptySet
<1>4. CASE Chosen
  <2>1. PICK r, w : NextVictim(r, procCount', softBlkCount', w)
    BY <1>4 DEF Chosen
  <2>2. /\ mode' = "halt" => procCount' = 0
        /\ mode' = "panicSched" => procCount' # 0 /\ softBlkCount' = 0
        /\ mode' = "wait" => softBlkCount' # 0
    BY <2>1 DEF NextVictim, Verdict
  <2> QED BY <1>1, <1>2, <1>3, <2>2 DEF IdleVerdict
<1>5. CASE mode' \notin {"halt", "panicSched", "wait"}
  BY <1>5 DEF IdleVerdict
<1>6. CASE /\ mode' = mode /\ SoftBlocked' = SoftBlocked
           /\ UNCHANGED procVars /\ strayV' = strayV
  BY <1>6 DEF IdleVerdict, procVars
<1> QED BY <1>4, <1>5, <1>6, ModeSplit

-----------------------------------------------------------------------------
(***************************************************************************)
(* All of it together is inductive.                                        *)
(***************************************************************************)
CountInv ==
  /\ StructInv
  /\ UserSemInv /\ ClockInv /\ DevInv
  /\ SoftBlkExact /\ ProcCountExact /\ IdleVerdict

LEMMA CountStep ==
  ASSUME CountInv, [Next]_vars
  PROVE  CountInv'
<1>1. StructInv' /\ UserSemInv' /\ ClockInv' /\ DevInv' /\ SoftBlkExact'
  BY StructStep, UserSemStep, ClockStep, DevStep, SoftStep DEF CountInv
<1>2. LiveCount /\ (mode = "halt" => pcbFree = Proc)
  BY DEF CountInv, ProcCountExact, LiveCount
<1>3. LiveCount'
  BY <1>2, LiveCountStep DEF CountInv
<1>4. (mode' = "halt" => pcbFree' = Proc) /\ IdleVerdict'
  BY <1>2, VerdictStep DEF CountInv
<1> QED BY <1>1, <1>3, <1>4 DEF CountInv, ProcCountExact, LiveCount

LEMMA CountInit == Init => CountInv
<1> SUFFICES ASSUME Init PROVE CountInv
  OBVIOUS
<1>1. StructInv /\ TypeOK
  BY StructInit DEF StructInv, TypeInv
<1>2. /\ curProc \in Proc /\ pcbFree = Proc \ {curProc}
      /\ procQ = [s \in Sem |-> <<>>] /\ mode = "run"
      /\ procCount = 1 /\ softBlkCount = 0 /\ strayV = 0
      /\ dev = [d \in Devices |-> "idle"] /\ issuer = [d \in Devices |-> NoProc]
  BY DEF Init
<1>3. sem \in [Sem -> 0..MaxSem] /\ \A s \in DeviceSem : sem[s] = 0
  BY DEF Init
<1>4. UserSemInv
  <2>1. ASSUME NEW s \in UserSem PROVE Len(procQ[s]) = 0 /\ sem[s] \in Nat
    <3>1. s \in Sem
      BY SemFacts
    <3>2. sem[s] \in Nat /\ procQ[s] = <<>>
      BY <1>2, <1>3, <3>1
    <3> QED BY <3>2
  <2> QED BY <2>1 DEF UserSemInv
<1>5. \A s \in DeviceSem : s \in Sem /\ s \notin UserSem /\ sem[s] = 0 /\ procQ[s] = <<>>
  BY <1>2, <1>3, SemFacts
<1>6. ClockInv
  BY <1>2, <1>5, SemFacts DEF ClockInv
<1>7. DevInv
  BY <1>2, <1>5, SemFacts DEF DevInv, DevSem
<1>8. SoftBlkExact
  <2>1. SoftBlocked = {}
    BY <1>5, ToSetDef DEF SoftBlocked, BlockedOn, ToSet
  <2> QED BY <1>2, <2>1, FS_EmptySet DEF SoftBlkExact
<1>9. ProcCountExact
  <2>1. Proc \ pcbFree = {curProc}
    BY <1>2
  <2> QED BY <1>2, <2>1, FS_Singleton DEF ProcCountExact
<1>10. IdleVerdict
  BY <1>2 DEF IdleVerdict
<1> QED BY <1>1, <1>4, <1>6, <1>7, <1>8, <1>9, <1>10 DEF CountInv

LEMMA CountCorrect == Spec => []CountInv
<1>1. CountInv /\ [Next]_vars => CountInv'
  BY CountStep
<1> QED BY CountInit, <1>1, PTL DEF Spec

\* The value of a user semaphore and the length of its queue never drift
\* apart, although kills take waiters out of the middle of the queue.
THEOREM UserSemCounts == Spec => []UserSemInv
<1>1. CountInv => UserSemInv
  BY DEF CountInv
<1> QED BY CountCorrect, <1>1, PTL

\* WAITCLOCK always blocks, so case 7 never falls into case 8, and the clock's
\* P's cover its waiters, so one tick releases them all.
THEOREM ClockSound == Spec => []ClockInv
<1>1. CountInv => ClockInv
  BY DEF CountInv
<1> QED BY CountCorrect, <1>1, PTL

\* No lost wakeup: a process that waits for a device waits for an operation
\* still in flight, alone, and the V to come is its own.
THEOREM NoLostWakeup == Spec => []DeviceWakeup
<1>1. CountInv => DeviceWakeup
  BY DEF CountInv, DevInv, DevSem, DeviceWakeup
<1> QED BY CountCorrect, <1>1, PTL

\* softBlkCount errs by exactly the interrupts that found their waiter killed.
THEOREM SoftBlkCounts == Spec => []SoftBlkExact
<1>1. CountInv => SoftBlkExact
  BY DEF CountInv
<1> QED BY CountCorrect, <1>1, PTL

\* procCount is the number of live processes, also half way through a kill.
THEOREM ProcCountCounts == Spec => []ProcCountExact
<1>1. CountInv => ProcCountExact
  BY DEF CountInv
<1> QED BY CountCorrect, <1>1, PTL

\* As long as no interrupt has found its waiter killed, nextVictim panics and
\* idles rightly.
THEOREM VerdictSound == Spec => []IdleVerdict
<1>1. CountInv => IdleVerdict
  BY DEF CountInv
<1> QED BY CountCorrect, <1>1, PTL
-----------------------------------------------------------------------------
(***************************************************************************)
(* Order: processes wait, and are ready, first come first served.          *)
(***************************************************************************)
\* The epilogue of intHandler dispatches from the head of what is ready.
LEMMA ResumeOrder ==
  ASSUME TypeInv, IdleInv, Interruptible, NEW ready \in Seq(Proc),
         ready # <<>>, NEW k, ReturnFromInterrupt(ready, k)
  PROVE  ready = IF curProc' = curProc THEN deathRowLine'
                                       ELSE <<curProc'>> \o deathRowLine'
<1>1. CASE waiting \/ curProc = NoProc
  <2>1. curProc = NoProc
    BY <1>1 DEF IdleInv, Interruptible, TypeInv, RunInv
  <2>2. curProc' = Head(ready) /\ deathRowLine' = Tail(ready)
    BY <1>1 DEF ReturnFromInterrupt, NextVictim
  <2>3. curProc' # curProc
    BY <2>1, <2>2, ProcAssumption
  <2>4. ready = <<Head(ready)>> \o Tail(ready)
    OBVIOUS
  <2> QED BY <2>2, <2>3, <2>4
<1>2. CASE ~(waiting \/ curProc = NoProc)
  BY <1>2 DEF ReturnFromInterrupt
<1> QED BY <1>1, <1>2

\* One waiter, or all of them.
LEMMA HeadAndTail ==
  ASSUME NEW s \in Seq(Proc), s # <<>>, NEW r \in Seq(Proc)
  PROVE  /\ Tail(s) = SubSeq(s, 2, Len(s))
         /\ Append(r, Head(s)) = r \o SubSeq(s, 1, 1)
         /\ <<>> = SubSeq(s, Len(s) + 1, Len(s))
         /\ r \o s = r \o SubSeq(s, 1, Len(s))
         /\ 1 \in 0..Len(s) /\ Len(s) \in 0..Len(s)
OBVIOUS

LEMMA BlockInOrder ==
  ASSUME StructInv, mode = "run", NEW a \in Sem, NEW k, BlockCurProc(a, k),
         NEW s \in Sem
  PROVE  InOrder(s)
<1>1. TypeOK /\ procQ' = [procQ EXCEPT ![a] = Append(procQ[a], curProc)] /\ curProc \in Proc
  BY BlockJoins DEF Joins, StructInv, TypeInv
<1> QED BY <1>1 DEF InOrder, TypeOK

LEMMA WakeStep ==
  ASSUME StructInv, [Next]_vars, NEW s \in Sem
  PROVE  InOrder(s)
<1>0. TypeInv /\ TypeOK /\ IdleInv /\ NooseInv /\ Clock \in Sem
  BY SemFacts DEF StructInv, TypeInv
<1>1. procQ[s] \in Seq(Proc) /\ deathRowLine \in Seq(Proc)
  BY <1>0 DEF TypeOK
<1>2. \A a \in Sem : \A q : procQ' = [procQ EXCEPT ![a] = q] =>
        procQ'[a] = q /\ (a # s => procQ'[s] = procQ[s])
  BY <1>0 DEF TypeOK
<1>3. CASE procQ' = procQ
  BY <1>3 DEF InOrder
<1>4. CASE WaitClock
  BY <1>0, <1>3, <1>4, BlockInOrder DEF WaitClock, queueVars
<1>5. CASE ReapBlocked
  <2>1. PICK a : a = p_semAdd[Doomed]
    OBVIOUS
  <2>2. a \in Sem /\ Doomed \notin pcbFree /\ Doomed \in pcbFree'
    <3>1. Doomed \in Proc /\ Doomed \in ToSet(noose)
      BY <1>0, <1>5, FrontQueue DEF ReapBlocked, Childless, TypeOK, Doomed
    <3>2. a \in Sem
      BY <1>0, <1>5, <2>1, <3>1 DEF ReapBlocked, IsBlocked, SearchTraps, TypeOK
    <3> QED BY <1>0, <1>5, <3>1, <3>2 DEF NooseInv, ReapBlocked, Reap
  <2>3. PICK i \in 1..Len(procQ[a]) :
          /\ procQ[a][i] = Doomed
          /\ procQ' = [procQ EXCEPT ![a] = RemoveAt(procQ[a], i)]
    BY <1>5, <2>1 DEF ReapBlocked
  <2>4. procQ'[a] = RemoveAt(procQ[a], i) /\ (a # s => procQ'[s] = procQ[s])
    BY <1>2, <2>2, <2>3
  <2> QED BY <2>2, <2>3, <2>4 DEF InOrder
<1>6. CASE IntervalTimer
  <2> DEFINE released == IF Releases(sem[Clock] + 1) THEN procQ[Clock] ELSE <<>>
  <2>1. /\ Interruptible
        /\ procQ' = [procQ EXCEPT ![Clock] = IF released = <<>> THEN @ ELSE <<>>]
        /\ ReturnFromInterrupt(deathRowLine \o released, softBlkCount')
    BY <1>6 DEF IntervalTimer
  <2>2. CASE s = Clock /\ released # <<>>
    <3>1. released = procQ[s] /\ procQ'[s] = <<>> /\ procQ[s] # <<>>
      BY <1>2, <2>1, <2>2
    <3> HIDE DEF released
    <3>2. deathRowLine \o procQ[s] \in Seq(Proc) /\ deathRowLine \o procQ[s] # <<>>
      BY <1>1, <3>1
    <3>3. ReturnFromInterrupt(deathRowLine \o procQ[s], softBlkCount')
      BY <2>1, <3>1
    <3>4. deathRowLine \o procQ[s] = IF curProc' = curProc
                                      THEN deathRowLine'
                                      ELSE <<curProc'>> \o deathRowLine'
      BY <1>0, <2>1, <3>2, <3>3, ResumeOrder
    <3>5. /\ procQ'[s] = SubSeq(procQ[s], Len(procQ[s]) + 1, Len(procQ[s]))
          /\ deathRowLine \o SubSeq(procQ[s], 1, Len(procQ[s])) = deathRowLine \o procQ[s]
          /\ Len(procQ[s]) \in 0..Len(procQ[s])
      BY <1>1, <3>1, HeadAndTail
    <3>6. Woken(s, Len(procQ[s]))
      BY <3>4, <3>5 DEF Woken
    <3> QED BY <3>5, <3>6 DEF InOrder
  <2>3. CASE ~(s = Clock /\ released # <<>>)
    <3>1. procQ'[s] = procQ[s]
      BY <1>0, <1>2, <2>1, <2>3
    <3> QED BY <3>1 DEF InOrder
  <2> QED BY <2>2, <2>3
<1>7. ASSUME NEW a \in UserSem, Verhogen(a) PROVE InOrder(s)
  <2>0. a \in Sem
    BY SemFacts
  <2>1. CASE Releases(sem'[a]) /\ procQ[a] # <<>> /\ a = s
    <3>1. /\ procQ'[s] = Tail(procQ[s]) /\ curProc' = curProc
          /\ deathRowLine' = Append(deathRowLine, Head(procQ[s]))
      BY <1>2, <1>7, <2>0, <2>1 DEF Verhogen
    <3>2. Woken(s, 1) /\ 1 \in 0..Len(procQ[s])
      BY <1>1, <2>1, <3>1, HeadAndTail DEF Woken
    <3> QED BY <3>2 DEF InOrder
  <2>2. CASE ~(Releases(sem'[a]) /\ procQ[a] # <<>> /\ a = s)
    <3>1. procQ'[s] = procQ[s]
      BY <1>2, <1>7, <2>0, <2>2 DEF Verhogen
    <3> QED BY <3>1 DEF InOrder
  <2> QED BY <2>1, <2>2
<1>8. ASSUME NEW a \in UserSem, Passeren(a) PROVE InOrder(s)
  BY <1>3, <1>8, BlockInOrder, SemFacts DEF Passeren
<1>9. ASSUME NEW d \in Devices, WaitIO(d) PROVE InOrder(s)
  BY <1>3, <1>9, BlockInOrder, SemFacts DEF WaitIO, queueVars
<1>10. ASSUME NEW d \in Devices, DeviceInterrupt(d) PROVE InOrder(s)
  <2>0. d \in Sem
    BY SemFacts
  <2>1. CASE Releases(sem'[d]) /\ procQ[d] # <<>> /\ d = s
    <3>1. /\ procQ'[s] = Tail(procQ[s]) /\ Interruptible
          /\ ReturnFromInterrupt(Append(deathRowLine, Head(procQ[s])), softBlkCount')
      BY <1>2, <1>10, <2>0, <2>1 DEF DeviceInterrupt
    <3>2. /\ Append(deathRowLine, Head(procQ[s])) \in Seq(Proc)
          /\ Append(deathRowLine, Head(procQ[s])) # <<>>
      BY <1>1, <2>1
    <3>3. Append(deathRowLine, Head(procQ[s])) =
            IF curProc' = curProc THEN deathRowLine' ELSE <<curProc'>> \o deathRowLine'
      BY <1>0, <3>1, <3>2, ResumeOrder
    <3>4. /\ procQ'[s] = SubSeq(procQ[s], 1 + 1, Len(procQ[s]))
          /\ deathRowLine \o SubSeq(procQ[s], 1, 1) = Append(deathRowLine, Head(procQ[s]))
          /\ 1 \in 0..Len(procQ[s])
      BY <1>1, <2>1, <3>1, HeadAndTail
    <3>5. Woken(s, 1)
      BY <3>3, <3>4 DEF Woken
    <3> QED BY <3>4, <3>5 DEF InOrder
  <2>2. CASE ~(Releases(sem'[d]) /\ procQ[d] # <<>> /\ d = s)
    <3>1. procQ'[s] = procQ[s]
      BY <1>2, <1>10, <2>0, <2>2 DEF DeviceInterrupt
    <3> QED BY <3>1 DEF InOrder
  <2> QED BY <2>1, <2>2
<1> QED BY <1>3, <1>4, <1>5, <1>6, <1>7, <1>8, <1>9, <1>10, NextSplit DEF Quiet

\* Waiters wake in FIFO order or die, for any number of processes, semaphores
\* and devices.
THEOREM WakesInOrder == Spec => WakeInOrder
<1>1. StructInv /\ [Next]_vars => [\A s \in Sem : InOrder(s)]_vars
  BY WakeStep
<1> QED BY StructCorrect, <1>1, PTL DEF Spec, WakeInOrder
-----------------------------------------------------------------------------
(***************************************************************************)
(* Refinement: creation and termination, taken as a whole, are those of    *)
(* ProcessTable.                                                           *)
(***************************************************************************)
\* Progeny is the least set that holds R and is closed under the children.
LEMMA ProgenyClosed ==
  ASSUME NEW R \in SUBSET Proc, NEW f
  PROVE  /\ R \subseteq Table!Progeny(R, f)
         /\ Table!Progeny(R, f) \subseteq Proc
         /\ \A q \in Proc : f[q] \in Table!Progeny(R, f) => q \in Table!Progeny(R, f)
BY DEF Table!Progeny

LEMMA ProgenyLeast ==
  ASSUME NEW R \in SUBSET Proc, NEW f, NEW S \in SUBSET Proc,
         R \subseteq S, \A q \in Proc : f[q] \in S => q \in S
  PROVE  Table!Progeny(R, f) \subseteq S
BY DEF Table!Progeny

\* The link of a member of R to its parent does not matter.
LEMMA ProgenyCut ==
  ASSUME NEW R \in SUBSET Proc, NEW c \in R, NEW f, NEW g,
         g[c] = NoProc, \A q \in Proc : q # c => g[q] = f[q]
  PROVE  Table!Progeny(R, g) = Table!Progeny(R, f)
<1> DEFINE F == Table!Progeny(R, f)
           G == Table!Progeny(R, g)
<1>0. /\ R \subseteq F /\ F \subseteq Proc /\ R \subseteq G /\ G \subseteq Proc
      /\ \A q \in Proc : f[q] \in F => q \in F
      /\ \A q \in Proc : g[q] \in G => q \in G
  BY ProgenyClosed
<1>1. \A q \in Proc : f[q] \in G => q \in G
  BY <1>0
<1>2. \A q \in Proc : g[q] \in F => q \in F
  BY <1>0, ProcAssumption
<1>3. F \subseteq G
  BY <1>0, <1>1, ProgenyLeast
<1>4. G \subseteq F
  BY <1>0, <1>2, ProgenyLeast
<1> QED BY <1>3, <1>4

\* A child of a member of R is in its progeny already.
LEMMA ProgenyChild ==
  ASSUME NEW R \in SUBSET Proc, NEW f, NEW c \in Proc, f[c] \in R
  PROVE  Table!Progeny(R \cup {c}, f) = Table!Progeny(R, f)
<1> DEFINE F == Table!Progeny(R, f)
           G == Table!Progeny(R \cup {c}, f)
<1>0. /\ R \subseteq F /\ F \subseteq Proc /\ \A q \in Proc : f[q] \in F => q \in F
  BY ProgenyClosed
<1>1. /\ R \cup {c} \subseteq G /\ G \subseteq Proc
      /\ \A q \in Proc : f[q] \in G => q \in G
  BY ProgenyClosed
<1>2. F \subseteq G
  BY <1>1, ProgenyLeast
<1>3. R \cup {c} \subseteq F
  BY <1>0
<1>4. G \subseteq F
  BY <1>0, <1>3, ProgenyLeast
<1> QED BY <1>2, <1>4

\* A childless member without a parent has nobody in its progeny but itself.
LEMMA ProgenyLeaf ==
  ASSUME NEW R \in SUBSET Proc, NEW f, NEW c \in R, f[c] = NoProc,
         \A q \in Proc : f[q] # c
  PROVE  Table!Progeny(R \ {c}, f) = Table!Progeny(R, f) \ {c}
<1> DEFINE F == Table!Progeny(R, f)
           G == Table!Progeny(R \ {c}, f)
<1>0. /\ R \subseteq F /\ F \subseteq Proc /\ \A q \in Proc : f[q] \in F => q \in F
  BY ProgenyClosed
<1>1. /\ R \ {c} \subseteq G /\ G \subseteq Proc
      /\ \A q \in Proc : f[q] \in G => q \in G
  BY ProgenyClosed
<1>2. F \subseteq G \cup {c}
  <2>1. G \cup {c} \in SUBSET Proc /\ R \subseteq G \cup {c}
    BY <1>1
  <2>2. \A q \in Proc : f[q] \in G \cup {c} => q \in G \cup {c}
    BY <1>1
  <2> QED BY <2>1, <2>2, ProgenyLeast
<1>3. G \subseteq F \ {c}
  <2> DEFINE S == F \ {c}
             Q == R \ {c}
  <2>1. S \in SUBSET Proc /\ Q \in SUBSET Proc /\ Q \subseteq S
    BY <1>0
  <2>2. \A q \in Proc : f[q] \in S => q \in S
    BY <1>0, ProcAssumption
  <2> HIDE DEF S, Q, F
  <2>3. Table!Progeny(Q, f) \subseteq S
    BY <2>1, <2>2, ProgenyLeast
  <2> QED BY <2>3 DEF S, Q
<1> QED BY <1>2, <1>3

-----------------------------------------------------------------------------
LEMMA CondemnedDef ==
  ASSUME TypeOK
  PROVE  ToSet(noose) \in SUBSET Proc /\ Condemned = Table!Progeny(ToSet(noose), p_prnt)
<1>1. ToSet(noose) \subseteq Proc
  BY ToSetDef DEF TypeOK
<1> QED BY <1>1 DEF Condemned, Table!Progeny

\* Nobody condemned is free: all descend from the activations.
LEMMA CondemnedLive ==
  ASSUME StructInv
  PROVE  Condemned \cap pcbFree = {}
<1>0. TypeOK /\ NooseInv /\ LinksLive
  BY DEF StructInv, TypeInv, TreeInv, LinksLive
<1> DEFINE S == Proc \ pcbFree
<1>1. S \in SUBSET Proc /\ ToSet(noose) \subseteq S
  BY <1>0, CondemnedDef DEF NooseInv
<1>2. \A q \in Proc : p_prnt[q] \in S => q \in S
  BY <1>0, ProcAssumption DEF LinksLive
<1> QED BY <1>0, <1>1, <1>2, CondemnedDef, ProgenyLeast

\* Between two terminations the table is the process tree.
LEMMA TableQuiet ==
  ASSUME StructInv, noose = <<>>
  PROVE  live = Proc \ pcbFree /\ parent = p_prnt
<1>0. TypeOK /\ LinksLive
  BY DEF StructInv, TypeInv, TreeInv, LinksLive
<1>1. Condemned = {}
  <2>1. ToSet(noose) = {}
    BY DEF ToSet
  <2>2. {} \in SUBSET Proc /\ \A q \in Proc : p_prnt[q] \in {} => q \in {}
    OBVIOUS
  <2> QED BY <1>0, <2>1, <2>2, CondemnedDef, ProgenyLeast
<1>2. live = Proc \ pcbFree
  BY <1>1 DEF live
<1>3. \A p \in Proc : p \notin live => p_prnt[p] = NoProc
  BY <1>0, <1>2 DEF LinksLive
<1>4. p_prnt = [p \in Proc |-> p_prnt[p]]
  BY <1>0 DEF TypeOK
<1>5. parent = [p \in Proc |-> IF p \in live THEN p_prnt[p] ELSE NoProc]
  BY DEF parent
<1> QED BY <1>2, <1>3, <1>4, <1>5

LEMMA TableSame ==
  ASSUME UNCHANGED <<pcbFree, p_prnt, noose>>
  PROVE  UNCHANGED <<live, parent>>
BY DEF live, parent, Condemned

\* sys2_terminateProcess and innocentOrNoose: the whole subtree goes at once.
LEMMA TableKill ==
  ASSUME StructInv, TypeOK', noose = <<>>, curProc \in Executing,
         TerminateProcess, UNCHANGED pcbFree
  PROVE  Table!Kill(curProc)
<1> DEFINE dead == Table!Progeny({curProc}, p_prnt)
<1>0. TypeOK /\ LinksLive /\ Placed
  BY PlacedIff DEF StructInv, TypeInv, TreeInv, LinksLive
<1>1. curProc \in Proc /\ curProc \notin pcbFree
  BY <1>0, PlacesTyped DEF Placed
<1>2. live = Proc \ pcbFree /\ parent = p_prnt
  BY TableQuiet
<1>3. /\ p_prnt'[curProc] = NoProc
      /\ \A q \in Proc : q # curProc => p_prnt'[q] = p_prnt[q]
      /\ noose' = <<curProc>>
  BY <1>0, <1>1 DEF TerminateProcess, TypeOK
<1>4. Condemned' = dead
  <2>1. ToSet(noose') = {curProc} /\ {curProc} \in SUBSET Proc
    BY <1>1, <1>3 DEF ToSet
  <2>2. Condemned' = Table!Progeny(ToSet(noose'), p_prnt')
    BY DEF Condemned, Table!Progeny
  <2>3. Condemned' = Table!Progeny({curProc}, p_prnt')
    BY <2>1, <2>2
  <2> QED BY <1>3, <2>1, <2>3, ProgenyCut
<1>5. curProc \in dead /\ dead \subseteq Proc
  BY <1>1, ProgenyClosed
<1> HIDE DEF dead
<1>6. live' = live \ dead
  BY <1>2, <1>4, <1>5 DEF live
<1>7. parent' = [q \in Proc |-> IF q \in dead THEN NoProc ELSE parent[q]]
  <2>1. parent' = [q \in Proc |-> IF q \in live' THEN p_prnt'[q] ELSE NoProc]
    BY DEF parent
  <2>2. \A q \in Proc : (IF q \in live' THEN p_prnt'[q] ELSE NoProc)
                          = (IF q \in dead THEN NoProc ELSE p_prnt[q])
    BY <1>0, <1>1, <1>2, <1>3, <1>5, <1>6 DEF LinksLive
  <2> QED BY <1>2, <2>1, <2>2
<1>8. curProc \in live \ live'
  BY <1>1, <1>2, <1>5, <1>6
<1> QED BY <1>2, <1>6, <1>7, <1>8 DEF Table!Kill, dead

\* A child is struck off its parent and condemned by its own activation.
LEMMA TableKillChild ==
  ASSUME StructInv, TypeOK', KillChild
  PROVE  UNCHANGED <<live, parent>>
<1>0. TypeOK /\ NooseInv
  BY DEF StructInv, TypeInv
<1>1. PICK c \in Children(Doomed) :
        /\ p_prnt' = [p_prnt EXCEPT ![c] = NoProc]
        /\ noose' = Append(noose, c)
  BY DEF KillChild
<1>2. noose # <<>> /\ mode = "kill" /\ UNCHANGED pcbFree
  BY DEF KillChild, procVars
<1>3. /\ c \in Proc /\ p_prnt[c] = Doomed
      /\ noose \in Seq(Proc) /\ Doomed \in ToSet(noose)
  BY <1>0, <1>2, FrontQueue DEF Children, TypeOK, NooseInv, Doomed
<1>4. /\ p_prnt'[c] = NoProc
      /\ \A q \in Proc : q # c => p_prnt'[q] = p_prnt[q]
  BY <1>0, <1>1, <1>3 DEF TypeOK
<1>5. ToSet(noose') = ToSet(noose) \cup {c} /\ ToSet(noose) \in SUBSET Proc
  <2>1. ToSet(noose) \subseteq Proc
    BY <1>3, ToSetDef
  <2>2. c \notin ToSet(noose)
    BY <1>0, <1>3, <2>1, ProcAssumption DEF NooseInv
  <2> QED BY <1>0, <1>1, <1>3, <2>1, <2>2, AppendQueue DEF NooseInv
<1>6. Condemned' = Condemned /\ c \in Condemned
  <2>1. Condemned = Table!Progeny(ToSet(noose), p_prnt)
    BY <1>0, CondemnedDef
  <2>2. Condemned' = Table!Progeny(ToSet(noose'), p_prnt')
    BY DEF Condemned, Table!Progeny
  <2>3. Condemned' = Table!Progeny(ToSet(noose) \cup {c}, p_prnt')
    BY <1>5, <2>2
  <2>4. Condemned' = Table!Progeny(ToSet(noose) \cup {c}, p_prnt)
    <3>1. ToSet(noose) \cup {c} \in SUBSET Proc /\ c \in ToSet(noose) \cup {c}
      BY <1>3, <1>5
    <3> QED BY <1>4, <2>3, <3>1, ProgenyCut
  <2>5. Condemned' = Condemned
    BY <1>3, <1>5, <2>1, <2>4, ProgenyChild
  <2>6. c \in Table!Progeny(ToSet(noose), p_prnt)
    BY <1>3, <1>5, ProgenyClosed
  <2> QED BY <2>1, <2>5, <2>6
<1>7. live' = live /\ c \notin live
  BY <1>2, <1>6 DEF live
<1>8. \A q \in Proc : (IF q \in live' THEN p_prnt'[q] ELSE NoProc)
                        = (IF q \in live THEN p_prnt[q] ELSE NoProc)
  BY <1>4, <1>7
<1>9. /\ parent = [q \in Proc |-> IF q \in live THEN p_prnt[q] ELSE NoProc]
      /\ parent' = [q \in Proc |-> IF q \in live' THEN p_prnt'[q] ELSE NoProc]
  BY DEF parent
<1> QED BY <1>7, <1>8, <1>9

\* A condemned process was dead already when its PCB is freed.
LEMMA TableReap ==
  ASSUME StructInv, TypeOK', Childless, Reap(Doomed)
  PROVE  UNCHANGED <<live, parent>>
<1>0. TypeOK /\ NooseInv
  BY DEF StructInv, TypeInv
<1>1. /\ noose # <<>> /\ noose \in Seq(Proc) /\ IsInjective(noose)
      /\ \A q \in Proc : p_prnt[q] # Doomed
      /\ noose' = Front(noose) /\ pcbFree' = pcbFree \cup {Doomed}
      /\ p_prnt' = p_prnt
  BY <1>0 DEF Childless, NooseInv, TypeOK, Children, Reap
<1>2. /\ Doomed \in ToSet(noose) /\ ToSet(noose') = ToSet(noose) \ {Doomed}
      /\ Doomed \in Proc
  BY <1>1, FrontQueue DEF Doomed
<1>3. p_prnt[Doomed] = NoProc
  BY <1>0, <1>2 DEF NooseInv
<1>4. ToSet(noose) \in SUBSET Proc /\ Condemned = Table!Progeny(ToSet(noose), p_prnt)
  BY <1>0, CondemnedDef
<1>5. Condemned' = Condemned \ {Doomed}
  <2>1. Condemned' = Table!Progeny(ToSet(noose'), p_prnt')
    BY DEF Condemned, Table!Progeny
  <2>2. Condemned' = Table!Progeny(ToSet(noose) \ {Doomed}, p_prnt)
    BY <1>1, <1>2, <2>1
  <2> HIDE DEF Doomed
  <2> QED BY <1>1, <1>2, <1>3, <1>4, <2>2, ProgenyLeaf
<1>6. Doomed \in Condemned
  BY <1>2, <1>4, ProgenyClosed
<1>7. live' = live
  BY <1>1, <1>5, <1>6 DEF live
<1>8. /\ parent = [q \in Proc |-> IF q \in live THEN p_prnt[q] ELSE NoProc]
      /\ parent' = [q \in Proc |-> IF q \in live' THEN p_prnt'[q] ELSE NoProc]
  BY DEF parent
<1> QED BY <1>1, <1>7, <1>8

LEMMA TableCreate ==
  ASSUME StructInv, StructInv', CreateProcess
  PROVE  Table!Next
<1>1. PICK child \in pcbFree :
        /\ pcbFree' = pcbFree \ {child}
        /\ p_prnt' = [p_prnt EXCEPT ![child] = curProc]
  BY DEF CreateProcess
<1>2. mode = "run" /\ noose' = noose
  BY DEF CreateProcess
<1>3. TypeOK /\ Placed /\ noose = <<>> /\ curProc \in Proc
  BY <1>2, PlacedIff DEF StructInv, TypeInv, NooseInv, RunInv
<1>4. child \in Proc /\ pcbFree \subseteq Proc
  BY <1>3 DEF TypeOK
<1>5. curProc \notin pcbFree
  BY <1>2, <1>3, ProcAssumption DEF Placed, Executing
<1>6. live = Proc \ pcbFree /\ parent = p_prnt
  BY <1>3, TableQuiet
<1>7. live' = Proc \ pcbFree' /\ parent' = p_prnt'
  <2>1. (StructInv /\ noose = <<>>)' => (live = Proc \ pcbFree /\ parent = p_prnt)'
    BY TableQuiet, PTL
  <2> QED BY <1>2, <1>3, <2>1
<1>8. Table!Create(curProc, child)
  BY <1>1, <1>4, <1>3, <1>5, <1>6, <1>7 DEF Table!Create
<1> QED BY <1>3, <1>4, <1>8 DEF Table!Next

\* Programs that keep their hands off the PROGTRAP vector.
VectorInv == \A p \in Proc : p_exceptionConfig[p] \subseteq VectorTypes

LEMMA VectorStep ==
  ASSUME TypeInv, VectorInv, [Next]_vars
  PROVE  VectorInv'
<1>1. CASE p_exceptionConfig' = p_exceptionConfig
  BY <1>1 DEF VectorInv
<1>2. CASE CreateProcess
  <2>1. PICK child \in pcbFree :
          p_exceptionConfig' = [p_exceptionConfig EXCEPT ![child] = {}]
    BY <1>2 DEF CreateProcess
  <2>2. \A p \in Proc : p_exceptionConfig'[p] \in {p_exceptionConfig[p], {}}
    BY <2>1 DEF TypeInv, TypeOK
  <2> QED BY <2>2 DEF VectorInv
<1>3. ASSUME NEW t \in VectorTypes, SpecTrap(t) PROVE VectorInv'
  <2>1. \/ p_exceptionConfig' = p_exceptionConfig
        \/ p_exceptionConfig' = [p_exceptionConfig EXCEPT ![curProc] =
                                   p_exceptionConfig[curProc] \cup {t}]
    BY <1>3 DEF SpecTrap
  <2>2. \A p \in Proc : \/ p_exceptionConfig'[p] = p_exceptionConfig[p]
                         \/ p_exceptionConfig'[p] = p_exceptionConfig[p] \cup {t}
    BY <2>1 DEF TypeInv, TypeOK
  <2> QED BY <2>2 DEF VectorInv
<1>4. \/ CreateProcess \/ \E t \in VectorTypes : SpecTrap(t)
      \/ p_exceptionConfig' = p_exceptionConfig
  <2>1. CASE SystemCall
    BY <2>1 DEF SystemCall, CreateRefused, vars, Terminate, WaitClock,
                Verhogen, Passeren, WaitIO
  <2>2. CASE Kill
    BY <2>2 DEF Kill, KillChild, ReapReady, ReapBlocked, ReapRunning, Reap,
                ReapNeverBlocked, Terminated
  <2>3. CASE ~SystemCall /\ ~Kill
    BY <2>3 DEF Next, vars, Exception, LocalTimer, IntervalTimer, StartIO,
                DeviceDone, DeviceInterrupt, StayStopped
  <2> QED BY <2>1, <2>2, <2>3
<1> QED BY <1>1, <1>2, <1>3, <1>4

\* Without vectors, the trap inside avadaKedavra starts the same kill afresh.
LEMMA TableNeverBlocked ==
  ASSUME StructInv, VectorInv, "PROGTRAP" \notin VectorTypes, ReapNeverBlocked
  PROVE  UNCHANGED <<pcbFree, p_prnt, noose>>
<1>0. TypeOK /\ NooseInv /\ Placed
  BY PlacedIff DEF StructInv, TypeInv
<1>1. /\ mode = "kill" /\ noose # <<>> /\ Doomed \notin Ready
      /\ p_semAdd[Doomed] = NoSem /\ InnocentOrNoose("PROGTRAP")
      /\ UNCHANGED pcbFree
  BY DEF ReapNeverBlocked, Childless, IsReady, Ready, SearchTraps, procVars
<1>2. Doomed \in Proc /\ Doomed \in ToSet(noose) /\ noose \in Seq(Proc)
  BY <1>0, <1>1, FrontQueue DEF NooseInv, TypeOK, Doomed
<1>3. Doomed \in Executing
  <2>1. Doomed \notin pcbFree
    BY <1>0, <1>2 DEF NooseInv
  <2>2. \A s \in Sem : Doomed \notin BlockedOn(s)
    BY <1>0, <1>1, <1>2, SemAssumption DEF Placed
  <2> HIDE DEF Doomed, Ready, Executing, BlockedOn
  <2> QED BY <1>0, <1>1, <1>2, <2>1, <2>2 DEF Placed
<1>4. Doomed = curProc /\ curProc \in Proc
  BY <1>2, <1>3 DEF Executing
<1>5. noose = <<curProc>>
  <2>1. noose[1] = curProc /\ noose[Len(noose)] = curProc /\ Len(noose) \in Nat \ {0}
    BY <1>0, <1>1, <1>2, <1>4 DEF NooseInv, Doomed, Last
  <2>2. 1 \in DOMAIN noose /\ Len(noose) \in DOMAIN noose
    BY <1>2, <2>1
  <2>3. 1 = Len(noose)
    BY <1>0, <2>1, <2>2 DEF NooseInv, IsInjective
  <2> QED BY <1>2, <2>1, <2>3
<1>6. p_prnt[curProc] = NoProc
  BY <1>0, <1>2, <1>4 DEF NooseInv
<1>7. TerminateProcess
  BY <1>1, <1>4, ProcAssumption DEF InnocentOrNoose, VectorInv
<1>8. noose' = noose /\ p_prnt' = p_prnt
  BY <1>0, <1>4, <1>5, <1>6, <1>7 DEF TerminateProcess, TypeOK
<1> QED BY <1>1, <1>8

\* A trap outside avadaKedavra.
LEMMA TableTrap ==
  ASSUME StructInv, TypeOK', Interruptible, UNCHANGED pcbFree,
         NEW t \in TrapTypes,
         InnocentOrNoose(t) \/ (mode = "run" /\ TerminateProcess)
  PROVE  Table!Next \/ UNCHANGED <<live, parent>>
<1>1. noose = <<>>
  BY DEF StructInv, NooseInv, Interruptible
<1>2. CASE TerminateProcess /\ curProc # NoProc
  <2>1. curProc \in Proc /\ curProc \in Executing
    BY <1>2 DEF Executing, Interruptible, StructInv, TypeInv, TypeOK
  <2> QED BY <1>1, <1>2, <2>1, TableKill DEF Table!Next
<1>3. mode = "run" => curProc # NoProc
  BY ProcAssumption DEF StructInv, TypeInv, RunInv
<1>4. CASE ~(TerminateProcess /\ curProc # NoProc)
  <2>1. UNCHANGED <<p_prnt, noose>>
    BY <1>1, <1>3, <1>4 DEF InnocentOrNoose, killVars
  <2> QED BY <2>1, TableSame
<1> QED BY <1>2, <1>4

LEMMA TableStep ==
  ASSUME StructInv, VectorInv, "PROGTRAP" \notin VectorTypes, [Next]_vars
  PROVE  [Table!Next]_(Table!vars)
<1>0. StructInv' /\ TypeOK' /\ NooseInv
  BY StructStep DEF StructInv, TypeInv
<1> DEFINE Goal == Table!Next \/ UNCHANGED <<live, parent>>
           Quietly == UNCHANGED <<pcbFree, p_prnt, noose>>
<1>1. ASSUME Quietly PROVE Goal
  BY <1>1, TableSame
<1>2. ASSUME CreateProcess PROVE Goal
  BY <1>0, <1>2, TableCreate
<1>3. ASSUME Terminate PROVE Goal
  BY <1>0, <1>3, TableTrap DEF Terminate, Interruptible, procVars, TrapTypes
<1>4. ASSUME NEW t \in VectorTypes, SpecTrap(t) PROVE Goal
  <2>1. mode = "run" /\ UNCHANGED pcbFree /\ "SYSTRAP" \in TrapTypes
    BY <1>4 DEF SpecTrap, procVars, TrapTypes
  <2>2. CASE TerminateProcess
    BY <1>0, <2>1, <2>2, TableTrap DEF Interruptible
  <2>3. CASE ~TerminateProcess
    <3>1. Quietly
      BY <1>4, <2>3, <2>1 DEF SpecTrap, killVars
    <3> QED BY <1>1, <3>1
  <2> QED BY <2>2, <2>3
<1>5. ASSUME NEW t \in TrapTypes, Exception(t) PROVE Goal
  BY <1>0, <1>5, TableTrap DEF Exception, Interruptible, procVars
<1>6. ASSUME NEW d \in Devices, DeviceInterrupt(d) PROVE Goal
  <2>1. Interruptible /\ UNCHANGED pcbFree /\ "PROGTRAP" \in TrapTypes
    BY <1>6 DEF DeviceInterrupt, procVars, TrapTypes
  <2>2. CASE InnocentOrNoose("PROGTRAP")
    BY <1>0, <2>1, <2>2, TableTrap
  <2>3. CASE ~InnocentOrNoose("PROGTRAP")
    <3>1. Quietly
      BY <1>6, <2>3, <2>1 DEF DeviceInterrupt, killVars
    <3> QED BY <1>1, <3>1
  <2> QED BY <2>2, <2>3
<1>7. ASSUME KillChild PROVE Goal
  BY <1>0, <1>7, TableKillChild
<1>8. ASSUME ReapReady \/ ReapBlocked \/ ReapRunning PROVE Goal
  BY <1>0, <1>8, TableReap DEF ReapReady, ReapBlocked, ReapRunning
<1>9. ASSUME ReapNeverBlocked PROVE Goal
  BY <1>1, <1>9, TableNeverBlocked
<1>10. ASSUME CreateRefused \/ WaitClock \/ Terminated \/ LocalTimer
              \/ IntervalTimer \/ StayStopped \/ UNCHANGED vars
       PROVE  Quietly
  BY <1>10 DEF CreateRefused, WaitClock, Terminated, LocalTimer,
               IntervalTimer, StayStopped, vars, procVars, killVars
<1>11. ASSUME NEW s \in UserSem, Verhogen(s) \/ Passeren(s) PROVE Quietly
  BY <1>11 DEF Verhogen, Passeren, procVars, killVars
<1>12. ASSUME NEW d \in Devices, WaitIO(d) \/ StartIO(d) \/ DeviceDone(d)
       PROVE  Quietly
  BY <1>12 DEF WaitIO, StartIO, DeviceDone, procVars, killVars
<1>13. Goal
  <2> HIDE DEF Goal, Quietly
  <2>1. CASE SystemCall
    BY <1>1, <1>2, <1>3, <1>4, <1>10, <1>11, <1>12, <2>1 DEF SystemCall, Goal
  <2>2. CASE Kill
    BY <1>1, <1>7, <1>8, <1>9, <1>10, <2>2 DEF Kill, Goal
  <2>3. CASE ~SystemCall /\ ~Kill
    BY <1>1, <1>5, <1>6, <1>10, <1>12, <2>3 DEF Next, Goal
  <2> QED BY <2>1, <2>2, <2>3
<1> QED BY <1>13 DEF Table!vars

LEMMA TableInit ==
  ASSUME Init
  PROVE  Table!Init /\ VectorInv
<1>1. StructInv /\ noose = <<>>
  BY StructInit DEF Init
<1>2. live = Proc \ pcbFree /\ parent = p_prnt
  BY <1>1, TableQuiet
<1>3. /\ curProc \in Proc /\ pcbFree = Proc \ {curProc}
      /\ p_prnt = [p \in Proc |-> NoProc]
      /\ p_exceptionConfig = [p \in Proc |-> {}]
  BY DEF Init
<1>4. live = {curProc}
  BY <1>2, <1>3
<1> QED BY <1>2, <1>3, <1>4 DEF Table!Init, VectorInv

\* SYS1, SYS2 and every kill are the operations of the process table, for any
\* set of PCBs, and nothing else changes who lives.  Programs have no PROGTRAP
\* vectors: with one, a trap inside avadaKedavra goes back to the program.
THEOREM TableImplemented ==
  ASSUME "PROGTRAP" \notin VectorTypes
  PROVE  Spec => ImplementsTable
<1>1. Init => StructInv /\ VectorInv /\ Table!Init
  BY StructInit, TableInit
<1>2. StructInv /\ VectorInv /\ [Next]_vars => StructInv' /\ VectorInv'
  BY StructStep, VectorStep DEF StructInv
<1>3. StructInv /\ VectorInv /\ [Next]_vars => [Table!Next]_(Table!vars)
  BY TableStep
<1> QED BY <1>1, <1>2, <1>3, PTL DEF Spec, ImplementsTable, Table!Spec
=============================================================================
