--------------------------- MODULE ProcessorProofs ---------------------------
(***************************************************************************)
(* The nucleus gives every process a processor of its own, for any number  *)
(* of processes, programs of any length and any vectors.                   *)
(***************************************************************************)
EXTENDS ProcessorStates, NucleusProofs

Causes == {"none", "fault", "sys", "reserved", "nucleus"}
StateInv ==
  /\ cpu \in States
  /\ p_s \in [Proc -> States]
  /\ area \in [Proc -> [VectorTypes -> [s : States, cause : Causes]]]
  /\ due \in [Proc -> Nat]

\* The current process is dead when its last activation has returned.
StruckOff == mode = "kill" /\ noose = <<>> => curProc \in pcbFree

ProcessorInv == StructInv /\ VectorInv /\ StateInv /\ StruckOff

LEMMA MainIs == VP!Main = "main" /\ VP!Main \notin VectorTypes
  BY ProgramAssumption DEF VP!Main, TrapTypes

\* A state moved on by an instruction.
LEMMA AfterState ==
  ASSUME NEW x \in States
  PROVE  /\ [x EXCEPT !.pc = VP!After(@)] \in States
         /\ [x EXCEPT !.pc = VP!After(@)].pc[1] = x.pc[1]
         /\ [x EXCEPT !.pc = VP!After(@)].pc[2] = x.pc[2] + 1
         /\ x.pc[1] \in {"main"} \cup TrapTypes /\ x.pc[2] \in Nat
         /\ [x EXCEPT !.pc = VP!After(@)].user = x.user
         /\ [x EXCEPT !.pc = VP!After(@)].v0 = x.v0
<1>1. x.pc \in ({"main"} \cup TrapTypes) \X Nat
  BY DEF States
<1>2. x.pc[1] \in {"main"} \cup TrapTypes /\ x.pc[2] \in Nat
  BY <1>1
<1>3. /\ VP!After(x.pc) \in ({"main"} \cup TrapTypes) \X Nat
      /\ VP!After(x.pc)[1] = x.pc[1] /\ VP!After(x.pc)[2] = x.pc[2] + 1
  BY <1>2 DEF VP!After
<1> HIDE DEF TrapTypes
<1> QED BY <1>2, <1>3 DEF States

LEMMA SetUser ==
  ASSUME NEW x \in States, NEW u \in BOOLEAN
  PROVE  [x EXCEPT !.user = u] \in States /\ [x EXCEPT !.user = u].pc = x.pc
BY DEF States

LEMMA SetV0 ==
  ASSUME NEW x \in States, NEW n \in Int
  PROVE  [x EXCEPT !.v0 = n] \in States /\ [x EXCEPT !.v0 = n].pc = x.pc
BY DEF States

LEMMA SameFields ==
  ASSUME NEW x \in States
  PROVE  /\ [x EXCEPT !.v0 = x.v0] = x /\ [x EXCEPT !.user = x.user] = x
         /\ x.user \in BOOLEAN /\ x.v0 \in Int
BY DEF States

LEMMA FirstStates ==
  /\ VP!Birth \in States /\ VP!Birth.pc[1] = VP!Main /\ VP!Birth.pc[2] = 0
  /\ \A t \in TrapTypes : VP!NewArea(t) \in States /\ VP!NewArea(t).pc[1] = t
  /\ \A t \in VectorTypes : t \in TrapTypes
BY ProgramAssumption DEF VP!Birth, VP!NewArea, VP!Main, States

\* The state that a handler returns to.
LEMMA ResumedState ==
  ASSUME NEW t, NEW x \in States
  PROVE  /\ VP!Resumed(t, x) \in States
         /\ VP!Resumed(t, x).pc[1] = x.pc[1]
         /\ VP!Resumed(t, x).pc[2] = x.pc[2] + IF t = "SYSTRAP" THEN Advance ELSE 0
<1>1. x.pc \in ({"main"} \cup TrapTypes) \X Nat /\ Advance \in Nat
  BY StateAssumption DEF States
<1> DEFINE pc == [x.pc EXCEPT ![2] = @ + Advance]
<1>2. pc \in ({"main"} \cup TrapTypes) \X Nat /\ pc[1] = x.pc[1] /\ pc[2] = x.pc[2] + Advance
  BY <1>1
<1>3. [x EXCEPT !.pc[2] = @ + Advance] = [x EXCEPT !.pc = pc]
  OBVIOUS
<1> HIDE DEF pc
<1>4. [x EXCEPT !.pc = pc] \in States /\ [x EXCEPT !.pc = pc].pc = pc
  <2> HIDE DEF TrapTypes
  <2> QED BY <1>2 DEF States
<1>5. x.pc[2] \in Nat
  BY <1>1
<1>6. CASE t = "SYSTRAP"
  <2>1. VP!Resumed(t, x) = [x EXCEPT !.pc = pc]
    BY <1>3, <1>6 DEF VP!Resumed
  <2> QED BY <1>2, <1>4, <1>6, <2>1
<1>7. CASE t # "SYSTRAP"
  <2>1. VP!Resumed(t, x) = x
    BY <1>7 DEF VP!Resumed
  <2> QED BY <1>5, <1>7, <2>1
<1> QED BY <1>6, <1>7

\* The nucleus's own state moves as its specification says.
LEMMA SNextNext ==
  ASSUME [SNext]_svars
  PROVE  [Next]_vars
<1>1. CASE Compute
  BY <1>1 DEF Compute, Next
<1>2. CASE SysCall
  BY <1>2 DEF SysCall, Next, SystemCall
<1>3. CASE CreateNone \/ GetCPUTime \/ Create
  BY <1>3 DEF CreateNone, GetCPUTime, Create, Next, SystemCall
<1>4. CASE Fault("TLBTRAP") \/ Fault("PROGTRAP") \/ HighCall \/ PrivilegedCall
  BY <1>4 DEF Fault, HighCall, PrivilegedCall, Next, TrapTypes
<1>5. ASSUME NEW t \in VectorTypes, Return(t) PROVE UNCHANGED vars
  BY <1>5 DEF Return
<1>6. CASE KillStep \/ QuantumEnd \/ ClockTick \/ Outside
  BY <1>6 DEF KillStep, QuantumEnd, ClockTick, Outside, Next
<1>7. ASSUME NEW d \in Devices, IOInterrupt(d) PROVE Next
  BY <1>7 DEF IOInterrupt, Next
<1>8. CASE UNCHANGED svars
  BY <1>8 DEF svars
<1> QED BY <1>1, <1>2, <1>3, <1>4, <1>5, <1>6, <1>7, <1>8 DEF SNext

-----------------------------------------------------------------------------
LEMMA LoadType ==
  ASSUME StateInv, TypeOK', NEW states \in [Proc -> States], NEW s \in States,
         Load(states, s)
  PROVE  cpu' \in States /\ p_s' \in [Proc -> States]
<1>1. curProc' \in Proc \cup {NoProc}
  BY DEF TypeOK
<1> QED BY <1>1, FirstStates DEF Load, StateInv

LEMMA OldSysType ==
  ASSUME StateInv
  PROVE  /\ OldSys \in States /\ OldSys.pc[1] = cpu.pc[1]
         /\ OldSys.pc[2] = cpu.pc[2] + 1
         /\ Saved \in [Proc -> States]
         /\ \A n \in Int : Result(n) \in States /\ Result(n).pc = OldSys.pc
<1>1. OldSys \in States /\ OldSys.pc[1] = cpu.pc[1] /\ OldSys.pc[2] = cpu.pc[2] + 1
  BY AfterState DEF OldSys, StateInv
<1>2. Saved \in [Proc -> States]
  BY <1>1 DEF Saved, StateInv
<1>3. \A n \in Int : Result(n) \in States /\ Result(n).pc = OldSys.pc
  BY <1>1, SetV0 DEF Result
<1> QED BY <1>1, <1>2, <1>3

LEMMA BehindType ==
  ASSUME StateInv, NEW n \in Nat, Behind(n)
  PROVE  due' \in [Proc -> Nat]
<1>1. \A p \in Proc : due[p] + n \in Nat
  BY DEF StateInv
<1> QED BY <1>1 DEF StateInv, Behind

LEMMA CountedType ==
  ASSUME StateInv, Counted
  PROVE  due' \in [Proc -> Nat]
BY BehindType DEF Counted

LEMMA PassUpType ==
  ASSUME StateInv, VectorInv, TypeInv, TypeOK', NEW t \in TrapTypes,
         NEW s \in States, NEW cause \in Causes, InnocentOrNoose(t),
         PassUp(t, s, cause)
  PROVE  /\ cpu' \in States /\ p_s' \in [Proc -> States]
         /\ area' \in [Proc -> [VectorTypes -> [s : States, cause : Causes]]]
<1>1. CASE mode' # "run"
  <2>1. Load(p_s, cpu) /\ area' = area
    BY <1>1 DEF PassUp
  <2> QED BY <2>1, LoadType DEF StateInv
<1>2. CASE mode' = "run"
  <2>1. /\ area' = [area EXCEPT ![curProc][t] = [s |-> s, cause |-> cause]]
        /\ Load([p_s EXCEPT ![curProc] = VP!NewArea(t)], VP!NewArea(t))
    BY <1>2 DEF PassUp
  <2>2. [p_s EXCEPT ![curProc] = VP!NewArea(t)] \in [Proc -> States]
    BY FirstStates DEF StateInv
  <2>3. cpu' \in States /\ p_s' \in [Proc -> States]
    BY <2>1, <2>2, FirstStates, LoadType
  <2>4. curProc \in Proc /\ t \in VectorTypes
    BY <1>2 DEF InnocentOrNoose, TerminateProcess, VectorInv, TypeInv, TypeOK
  <2>5. [s |-> s, cause |-> cause] \in [s : States, cause : Causes]
    OBVIOUS
  <2>6. area' \in [Proc -> [VectorTypes -> [s : States, cause : Causes]]]
    BY <2>1, <2>4, <2>5 DEF StateInv
  <2> QED BY <2>3, <2>6
<1> QED BY <1>1, <1>2

\* A step in which the nucleus traps in its own code.
LEMMA NucleusTraps ==
  ASSUME KillStep, noose # <<>>, mode' = "run", TypeInv
  PROVE  ReapNeverBlocked /\ NucleusTrap
<1>1. mode = "kill"
  BY DEF KillStep, Kill, KillChild, ReapReady, ReapBlocked, ReapRunning,
         ReapNeverBlocked, Terminated, Childless
<1>2. ~KillChild
  BY <1>1 DEF KillChild, cpuVars
<1>3. ~ReapReady /\ ~ReapBlocked /\ ~ReapRunning
  BY <1>1 DEF ReapReady, ReapBlocked, ReapRunning, Reap
<1>4. ~Terminated
  BY DEF Terminated
<1> QED BY <1>2, <1>3, <1>4 DEF KillStep, Kill

LEMMA StateStep ==
  ASSUME ProcessorInv, TypeOK', [SNext]_svars
  PROVE  StateInv'
<1>0. StateInv /\ VectorInv /\ TypeInv
  BY DEF ProcessorInv, StructInv
<1> DEFINE AreaType == area' \in [Proc -> [VectorTypes -> [s : States, cause : Causes]]]
           Typed == cpu' \in States /\ p_s' \in [Proc -> States]
<1>1. area' = area => AreaType
  BY <1>0 DEF StateInv
<1>2. due' = due => due' \in [Proc -> Nat]
  BY <1>0 DEF StateInv
<1>3. Load(p_s, cpu) => Typed
  BY <1>0, LoadType DEF StateInv
<1>4. CASE Compute
  <2>1. /\ \/ \E u \in {cpu.user, TRUE} : cpu' = [cpu EXCEPT !.pc = VP!After(@), !.user = u]
           \/ cpu' = [cpu EXCEPT !.pc = VP!After(@)]
        /\ Counted /\ UNCHANGED <<p_s, area>>
    BY <1>4 DEF Compute
  <2>2. cpu' \in States
    <3>1. CASE cpu' = [cpu EXCEPT !.pc = VP!After(@)]
      BY <1>0, <3>1, AfterState DEF StateInv
    <3>2. ASSUME NEW u \in {cpu.user, TRUE},
                 cpu' = [cpu EXCEPT !.pc = VP!After(@), !.user = u]
          PROVE  cpu' \in States
      <4>1. cpu' = [[cpu EXCEPT !.pc = VP!After(@)] EXCEPT !.user = u]
        BY <3>2
      <4>2. u \in BOOLEAN
        BY <1>0, SameFields DEF StateInv
      <4> QED BY <1>0, <4>1, <4>2, AfterState, SetUser DEF StateInv
    <3> QED BY <2>1, <3>1, <3>2
  <2> QED BY <1>0, <2>1, <2>2, CountedType DEF StateInv
<1>5. CASE SysCall
  <2>1. Load(Saved, OldSys) /\ Counted /\ area' = area
    BY <1>5 DEF SysCall, Calls
  <2>2. Typed
    BY <1>0, <2>1, OldSysType, LoadType
  <2> QED BY <1>0, <1>1, <2>1, <2>2, CountedType DEF StateInv
<1>6. CASE CreateNone \/ GetCPUTime
  <2>1. Counted /\ area' = area /\ \E n \in {-1, VP!Answer} : Load(Saved, Result(n))
    BY <1>6 DEF CreateNone, GetCPUTime, Calls
  <2>2. Typed
    BY <1>0, <2>1, OldSysType, LoadType DEF VP!Answer
  <2> QED BY <1>0, <1>1, <2>1, <2>2, CountedType DEF StateInv
<1>7. CASE Create
  <2>1. PICK child \in pcbFree \ pcbFree' :
          /\ Load([Saved EXCEPT ![child] = VP!Birth], Result(0))
          /\ area' = [area EXCEPT ![child] = [t \in VectorTypes |-> VP!Blank]]
          /\ due' = [due EXCEPT
                       ![curProc] = IF cpu.pc[1] = VP!Main THEN @ + 1 ELSE @,
                       ![child] = 0]
    BY <1>7 DEF Create
  <2>2. Typed
    <3>1. [Saved EXCEPT ![child] = VP!Birth] \in [Proc -> States]
      BY <1>0, OldSysType, FirstStates
    <3>2. Result(0) \in States
      BY <1>0, OldSysType
    <3> QED BY <1>0, <2>1, <3>1, <3>2, LoadType
  <2>3. VP!Blank \in [s : States, cause : Causes]
    BY FirstStates DEF VP!Blank, Causes
  <2>4. AreaType
    BY <1>0, <2>1, <2>3 DEF StateInv
  <2>5. due' \in [Proc -> Nat]
    <3>1. \A p \in Proc : due[p] \in Nat /\ due[p] + 1 \in Nat
      BY <1>0 DEF StateInv
    <3> QED BY <1>0, <2>1, <3>1 DEF StateInv
  <2> QED BY <2>2, <2>4, <2>5 DEF StateInv
<1>8. ASSUME NEW t \in TrapTypes, NEW s \in States, NEW cause \in Causes,
             Exception(t), PassUp(t, s, cause),
             UNCHANGED due \/ \E n \in Nat : Behind(n)
      PROVE  StateInv'
  BY <1>0, <1>2, <1>8, PassUpType, BehindType DEF StateInv, Exception
<1>9. CASE Fault("TLBTRAP") \/ Fault("PROGTRAP") \/ HighCall \/ PrivilegedCall
  <2>1. 1 \in Nat /\ 1 + Advance \in Nat
    BY StateAssumption
  <2> QED BY <1>0, <1>8, <1>9, <2>1, OldSysType
       DEF Fault, HighCall, PrivilegedCall, Counted, TrapTypes, Causes, StateInv
<1>10. ASSUME NEW t \in VectorTypes, Return(t) PROVE StateInv'
  <2>1. mode = "run" /\ UNCHANGED <<area, due>>
    BY <1>10 DEF Return, Executes
  <2>2. area[curProc][t].s \in States
    <3>1. curProc \in Proc
      BY <1>0, <2>1 DEF TypeInv, RunInv
    <3> QED BY <1>0, <3>1 DEF StateInv
  <2>3. VP!Resumed(t, area[curProc][t].s) \in States
    BY <2>2, ResumedState
  <2>4. \/ cpu' = VP!Resumed(t, area[curProc][t].s) /\ p_s' = p_s
        \/ cpu' = VP!NewArea(t) /\ p_s' = [p_s EXCEPT ![curProc] = VP!NewArea(t)]
    BY <1>10 DEF Return
  <2> QED BY <1>0, <2>1, <2>3, <2>4, FirstStates DEF StateInv
<1>11. CASE KillStep
  <2>1. CASE noose # <<>> /\ mode' = "run"
    <3>1. ReapNeverBlocked /\ NucleusTrap
      BY <1>0, <1>11, <2>1, NucleusTraps
    <3> QED BY <1>0, <1>2, <1>11, <3>1, PassUpType, FirstStates
            DEF ReapNeverBlocked, NucleusTrap, TrapTypes, Causes, KillStep, StateInv
  <2>2. CASE ~(noose # <<>> /\ mode' = "run")
    BY <1>1, <1>2, <1>3, <1>11, <2>2 DEF KillStep, StateInv
  <2> QED BY <2>1, <2>2
<1>12. CASE QuantumEnd
  <2>1. Load(Interrupted, Interrupted[curProc]) /\ mode = "run" /\ UNCHANGED <<area, due>>
    BY <1>12 DEF QuantumEnd, LocalTimer
  <2>2. Interrupted \in [Proc -> States] /\ curProc \in Proc
    BY <1>0, <2>1 DEF Interrupted, StateInv, TypeInv, RunInv
  <2> QED BY <1>0, <1>1, <1>2, <2>1, <2>2, LoadType DEF StateInv
<1>13. CASE ClockTick
  BY <1>1, <1>2, <1>3, <1>13 DEF ClockTick, StateInv
<1>14. ASSUME NEW d \in Devices, IOInterrupt(d) PROVE StateInv'
  <2>1. CASE /\ procQ' # procQ /\ UNCHANGED area
             /\ Load([p_s EXCEPT ![Head(procQ[d])].v0 = VP!Answer], cpu)
    <3> DEFINE q == [p_s EXCEPT ![Head(procQ[d])].v0 = VP!Answer]
    <3>1. q \in [Proc -> States]
      <4>1. \A p \in Proc : [p_s[p] EXCEPT !.v0 = VP!Answer] \in States
        <5>1. VP!Answer \in Int /\ \A p \in Proc : p_s[p] \in States
          BY <1>0 DEF StateInv, VP!Answer
        <5> QED BY <5>1, SetV0
      <4>2. q = [p_s EXCEPT ![Head(procQ[d])] = [p_s[Head(procQ[d])] EXCEPT !.v0 = VP!Answer]]
        OBVIOUS
      <4> QED BY <1>0, <4>1, <4>2 DEF StateInv
    <3>2. Typed
      BY <1>0, <2>1, <3>1, LoadType DEF StateInv
    <3> QED BY <1>1, <1>2, <1>14, <2>1, <3>2 DEF IOInterrupt, StateInv
  <2>2. CASE Load(p_s, cpu) /\ UNCHANGED area
    BY <1>1, <1>2, <1>3, <1>14, <2>2 DEF IOInterrupt, StateInv
  <2>3. CASE strayV' # strayV /\ NucleusTrap
    <3>1. InnocentOrNoose("PROGTRAP")
      BY <1>14, <2>3 DEF IOInterrupt, DeviceInterrupt
    <3> QED BY <1>0, <1>2, <1>14, <2>3, <3>1, PassUpType, FirstStates
            DEF NucleusTrap, TrapTypes, Causes, IOInterrupt, StateInv
  <2> QED BY <1>14, <2>1, <2>2, <2>3 DEF IOInterrupt
<1>15. CASE Outside \/ UNCHANGED svars
  BY <1>0, <1>15 DEF Outside, svars, StateInv
<1> QED BY <1>4, <1>5, <1>6, <1>7, <1>9, <1>10, <1>11, <1>12, <1>13, <1>14, <1>15 DEF SNext
-----------------------------------------------------------------------------
(***************************************************************************)
(* What each process sees of a step.                                       *)
(***************************************************************************)
LEMMA Seen ==
  ASSUME NEW p \in Proc
  PROVE  /\ p \in pcbFree => vs[p] = Dead /\ vectors[p] = {}
         /\ p \notin pcbFree =>
              /\ vs[p] = IF p = curProc THEN cpu ELSE p_s[p]
              /\ vectors[p] = p_exceptionConfig[p]
         /\ io[p] <=> \E d \in Devices : p \in BlockedOn(d)
BY DEF vs, io, vectors

\* The executing process.
LEMMA Running ==
  ASSUME ProcessorInv, curProc \in Executing
  PROVE  /\ curProc \in Proc /\ curProc \notin pcbFree /\ curProc # NoProc
         /\ vs[curProc] = cpu /\ vs[curProc] # Dead
         /\ ~io[curProc]
         /\ vectors[curProc] = p_exceptionConfig[curProc]
<1>1. TypeOK /\ Placed
  BY PlacedIff DEF ProcessorInv, StructInv, TypeInv
<1>2. /\ curProc \in Proc /\ curProc \notin pcbFree /\ curProc # NoProc
      /\ \A d \in Devices : curProc \notin BlockedOn(d)
  BY <1>1, PlacesTyped, SemFacts, ProcAssumption DEF Placed, Executing
<1>3. vs[curProc] = cpu /\ vectors[curProc] = p_exceptionConfig[curProc] /\ ~io[curProc]
  BY <1>2, Seen
<1>4. cpu # Dead
  BY StateAssumption DEF ProcessorInv, StateInv
<1> QED BY <1>2, <1>3, <1>4

LEMMA RunsNow ==
  ASSUME ProcessorInv, mode = "run"
  PROVE  curProc \in Executing
BY ProcAssumption DEF ProcessorInv, StructInv, TypeInv, RunInv, Executing

\* Nobody's state changes but that of the current process.
LEMMA LoadOwn ==
  ASSUME ProcessorInv, curProc \in Proc, NEW s,
         Load([p_s EXCEPT ![curProc] = s], s),
         mode' = "run" \/ curProc' # curProc,
         pcbFree' = pcbFree, curProc \notin pcbFree
  PROVE  vs' = [vs EXCEPT ![curProc] = s]
<1>1. p_s' = [p_s EXCEPT ![curProc] = s] /\ p_s \in [Proc -> States]
  BY DEF Load, ProcessorInv, StateInv
<1>2. \A p \in Proc : p = curProc' =>
        cpu' = IF curProc' # curProc THEN p_s'[curProc'] ELSE s
  BY <1>1, ProcAssumption DEF Load
<1>3. ASSUME NEW p \in Proc
      PROVE  (IF p \in pcbFree' THEN Dead ELSE IF p = curProc' THEN cpu' ELSE p_s'[p])
               = (IF p = curProc THEN s ELSE vs[p])
  BY <1>1, <1>2, Seen
<1>4. vs' = [p \in Proc |-> IF p \in pcbFree' THEN Dead
                            ELSE IF p = curProc' THEN cpu' ELSE p_s'[p]]
  BY DEF vs
<1>5. [vs EXCEPT ![curProc] = s] = [p \in Proc |-> IF p = curProc THEN s ELSE vs[p]]
  BY DEF vs
<1> QED BY <1>3, <1>4, <1>5

\* Nobody's state changes.
LEMMA LoadNone ==
  ASSUME ProcessorInv, NEW states, NEW s, Load(states, s),
         states \in [Proc -> States],
         \A p \in Proc \ pcbFree : p # curProc => states[p] = p_s[p],
         curProc \in Proc \ pcbFree =>
           \/ curProc' # curProc /\ states[curProc] = cpu
           \/ curProc' = curProc /\ s = cpu
           \/ curProc' = curProc /\ mode' # "run",
         pcbFree' = pcbFree
  PROVE  vs' = vs
<1>1. p_s' = states
  BY DEF Load
<1>2. \A p \in Proc : p = curProc' =>
        cpu' = IF curProc' # curProc THEN states[curProc']
               ELSE IF mode' = "run" THEN s ELSE cpu
  BY ProcAssumption DEF Load
<1>3. ASSUME NEW p \in Proc
      PROVE  (IF p \in pcbFree' THEN Dead ELSE IF p = curProc' THEN cpu' ELSE p_s'[p])
               = vs[p]
  BY <1>1, <1>2, Seen
<1>4. vs' = [p \in Proc |-> IF p \in pcbFree' THEN Dead
                            ELSE IF p = curProc' THEN cpu' ELSE p_s'[p]]
  BY DEF vs
<1>5. vs = [p \in Proc |-> vs[p]]
  BY DEF vs
<1> QED BY <1>3, <1>4, <1>5

LEMMA SameIO ==
  ASSUME \A d \in Devices : procQ'[d] = procQ[d]
  PROVE  io' = io
BY DEF io, BlockedOn

LEMMA SameVectors ==
  ASSUME UNCHANGED <<pcbFree, p_exceptionConfig>>
  PROVE  vectors' = vectors
BY DEF vectors

\* A process that calls P, V, WAITCLOCK or WAITIO comes back to the
\* instruction after, whoever runs in between.
LEMMA NotAgain ==
  ASSUME StructInv, mode = "run", NEW s \in Sem, NEW k, BlockCurProc(s, k)
  PROVE  curProc' # curProc
<1>1. TypeInv /\ TypeOK /\ Placed
  BY PlacedIff DEF StructInv, TypeInv
<1>2. curProc \in Proc /\ curProc \notin Ready
  BY <1>1, ProcAssumption DEF TypeInv, RunInv, Placed, Executing
<1>3. curProc' = IF deathRowLine = <<>> THEN NoProc ELSE Head(deathRowLine)
  BY DEF BlockCurProc, NextVictim
<1>4. deathRowLine # <<>> => Head(deathRowLine) \in Ready
  BY <1>1, TailQueue DEF TypeOK, Ready
<1> QED BY <1>2, <1>3, <1>4, ProcAssumption
-----------------------------------------------------------------------------
(***************************************************************************)
(* Every step of the nucleus, as the processes see it.                     *)
(***************************************************************************)
\* The history counts n instructions of p's program.
Counts(p, n) == due' = IF vs[p].pc[1] = VP!Main THEN [due EXCEPT ![p] = @ + n] ELSE due

\* While it terminates, a process's last system call counts for nothing.
Exempt(p) == p = curProc /\ mode # "run"

Instruction(p) ==
  /\ VP!Compute(p) \/ VP!Call(p) \/ VP!WaitIO(p) \/ \E t \in VectorTypes : VP!SpecVector(p, t)
  /\ Counts(p, 1)
Births(p) ==
  \E c \in Proc :
    /\ VP!Create(p, c)
    /\ due' = [due EXCEPT ![p] = IF vs[p].pc[1] = VP!Main THEN @ + 1 ELSE @, ![c] = 0]
Excepts(p) ==
  /\ VP!Executes(p)
  /\ \/ /\ UNCHANGED due
        /\ \E t \in {"TLBTRAP", "PROGTRAP"} : VP!PassedUp(p, t, vs[p], "fault")
     \/ /\ Counts(p, 1 + Advance)
        /\ VP!PassedUp(p, "SYSTRAP", VP!Following(p), "sys")
     \/ /\ Counts(p, 1) /\ vs[p].user
        /\ VP!PassedUp(p, "PROGTRAP", VP!Following(p), "reserved")
Returns(p) == UNCHANGED due /\ \E t \in VectorTypes : VP!Return(p, t)
Affected(p) == UNCHANGED due /\ (VP!Answered(p) \/ VP!Die(p) \/ VP!NucleusTrap(p))
Unseen ==
  /\ UNCHANGED <<vs, io, vectors, area>>
  /\ \A p \in Proc : due'[p] = due[p] \/ Exempt(p)'

Virtual ==
  /\ \/ \E p \in Proc : ~Exempt(p) /\ (Instruction(p) \/ Births(p) \/ Excepts(p) \/ Returns(p))
     \/ \E p \in Proc : Affected(p)
     \/ Unseen
  /\ \A p \in Proc : Exempt(p) /\ vs'[p] # Dead => Exempt(p)' \/ VP!NucleusTrap(p)

LEMMA VirtualImplements ==
  ASSUME Virtual
  PROVE  [VP!Next]_(VP!vpvars)
<1>1. ASSUME NEW p \in Proc, Instruction(p) PROVE VP!Next
  BY <1>1 DEF Instruction, VP!Next
<1>2. ASSUME NEW p \in Proc, Births(p) PROVE VP!Next
  BY <1>2 DEF Births, VP!Next
<1>3. ASSUME NEW p \in Proc, Excepts(p) PROVE VP!Next
  BY <1>3 DEF Excepts, VP!Except, VP!Next
<1>4. ASSUME NEW p \in Proc, Returns(p) PROVE VP!Next
  BY <1>4 DEF Returns, VP!Next
<1>5. ASSUME NEW p \in Proc, Affected(p) PROVE VP!Next
  BY <1>5 DEF Affected, VP!Next
<1>6. CASE Unseen
  BY <1>6 DEF Unseen, VP!vpvars
<1> QED BY <1>1, <1>2, <1>3, <1>4, <1>5, <1>6 DEF Virtual

LEMMA ComputeVirtual ==
  ASSUME ProcessorInv, Compute
  PROVE  Virtual
<1> DEFINE moved == [cpu EXCEPT !.pc = VP!After(@)]
<1>1. mode = "run" /\ Counted /\ UNCHANGED <<p_s, area>>
  BY DEF Compute, Executes
<1>2. UNCHANGED <<pcbFree, curProc, procQ, p_exceptionConfig, mode>>
  BY DEF Compute, StartIO, vars, procVars, queueVars
<1>3. /\ curProc \in Proc /\ curProc \notin pcbFree /\ vs[curProc] = cpu
      /\ vs[curProc] # Dead /\ ~io[curProc]
  BY <1>1, RunsNow, Running
<1>4. \E u \in {cpu.user, TRUE} : cpu' = [moved EXCEPT !.user = u]
  <2>1. CASE \E u \in {cpu.user, TRUE} : cpu' = [cpu EXCEPT !.pc = VP!After(@), !.user = u]
    <3>1. PICK u \in {cpu.user, TRUE} : cpu' = [cpu EXCEPT !.pc = VP!After(@), !.user = u]
      BY <2>1
    <3>2. cpu' = [moved EXCEPT !.user = u]
      BY <3>1
    <3> QED BY <3>2
  <2>2. CASE cpu' = moved
    <3>1. moved \in States /\ moved.user = cpu.user
      BY AfterState DEF ProcessorInv, StateInv
    <3> HIDE DEF moved
    <3>2. [moved EXCEPT !.user = cpu.user] = moved
      BY <3>1, SameFields
    <3> QED BY <2>2, <3>2
  <2> QED BY <2>1, <2>2 DEF Compute
<1>5. VP!Following(curProc) = moved
  BY <1>3 DEF VP!Following
<1> HIDE DEF moved
<1>6. vs' = [vs EXCEPT ![curProc] = cpu']
  BY <1>1, <1>2, <1>3 DEF vs
<1>7. io' = io /\ vectors' = vectors
  BY <1>2, SameIO, SameVectors
<1>8. VP!Compute(curProc)
  BY <1>1, <1>3, <1>4, <1>5, <1>6, <1>7 DEF VP!Compute, VP!Executes, VP!Become
<1>9. Counts(curProc, 1)
  BY <1>1, <1>3 DEF Counts, Counted, Behind
<1> QED BY <1>1, <1>3, <1>8, <1>9 DEF Virtual, Instruction, Exempt

\* P, V, WAITCLOCK, SYS6 and a SYS1 refused: v0 is as before, or a result.
LEMMA CallVirtual ==
  ASSUME ProcessorInv, mode = "run", ~cpu.user, Counted, UNCHANGED area,
         NEW r \in {-1, cpu.v0},
         LET s == [OldSys EXCEPT !.v0 = r] IN Load([p_s EXCEPT ![curProc] = s], s),
         mode' = "run" \/ curProc' # curProc,
         UNCHANGED <<pcbFree, p_exceptionConfig>>,
         \A d \in Devices : procQ'[d] = procQ[d]
  PROVE  Virtual
<1> DEFINE s == [OldSys EXCEPT !.v0 = r]
<1>1. /\ curProc \in Proc /\ curProc \notin pcbFree /\ vs[curProc] = cpu
      /\ vs[curProc] # Dead /\ ~io[curProc]
  BY RunsNow, Running
<1>2. Load([p_s EXCEPT ![curProc] = s], s)
  OBVIOUS
<1>3. VP!Following(curProc) = OldSys
  BY <1>1 DEF VP!Following, OldSys
<1>4. s = [VP!Following(curProc) EXCEPT !.v0 = r]
  BY <1>3
<1> HIDE DEF s
<1>5. vs' = [vs EXCEPT ![curProc] = s]
  BY <1>1, <1>2, LoadOwn
<1>6. io' = io /\ vectors' = vectors
  BY SameIO, SameVectors
<1>7. VP!Call(curProc)
  BY <1>1, <1>4, <1>5, <1>6 DEF VP!Call, VP!Calls, VP!Executes, VP!Become, VP!Answer
<1>8. Counts(curProc, 1)
  BY <1>1 DEF Counts, Counted, Behind
<1> QED BY <1>1, <1>7, <1>8 DEF Virtual, Instruction, Exempt

LEMMA OldSysSelf ==
  ASSUME ProcessorInv
  PROVE  OldSys = [OldSys EXCEPT !.v0 = cpu.v0]
<1>1. OldSys \in States /\ OldSys.v0 = cpu.v0
  BY AfterState DEF OldSys, ProcessorInv, StateInv
<1> QED BY <1>1, SameFields

\* A call that its process does not come back from.
LEMMA CallUnseen ==
  ASSUME ProcessorInv, mode = "run", mode' # "run", curProc' = curProc,
         Load(Saved, OldSys), Counted, UNCHANGED area,
         UNCHANGED <<pcbFree, p_exceptionConfig, procQ>>
  PROVE  Virtual
<1>1. curProc \in Proc /\ curProc \notin pcbFree
  BY RunsNow, Running
<1>2. vs' = vs
  <2>1. Saved \in [Proc -> States]
    BY OldSysType DEF ProcessorInv
  <2>2. \A p \in Proc : p # curProc => Saved[p] = p_s[p]
    BY DEF Saved, ProcessorInv, StateInv
  <2> QED BY <2>1, <2>2, LoadNone
<1>3. io' = io /\ vectors' = vectors
  BY SameIO, SameVectors
<1>4. \A p \in Proc : due'[p] = due[p] \/ Exempt(p)'
  BY DEF Counted, Behind, Exempt, ProcessorInv, StateInv
<1> QED BY <1>2, <1>3, <1>4 DEF Virtual, Unseen, Exempt

LEMMA SysCallVirtual ==
  ASSUME ProcessorInv, SysCall
  PROVE  Virtual
<1>1. /\ mode = "run" /\ ~cpu.user /\ Counted /\ UNCHANGED area /\ Load(Saved, OldSys)
  BY DEF SysCall, Calls, Executes
<1>2. /\ curProc \in Proc /\ curProc \notin pcbFree /\ vs[curProc] = cpu
      /\ vs[curProc] # Dead /\ ~io[curProc]
      /\ vectors[curProc] = p_exceptionConfig[curProc]
  BY <1>1, RunsNow, Running
<1>3. StructInv /\ TypeOK
  BY DEF ProcessorInv, StructInv, TypeInv
<1>4. ASSUME mode' = "run" \/ curProc' # curProc,
             UNCHANGED <<pcbFree, p_exceptionConfig>>,
             \A d \in Devices : procQ'[d] = procQ[d]
      PROVE  Virtual
  <2>1. OldSys = [OldSys EXCEPT !.v0 = cpu.v0]
    BY OldSysSelf
  <2> DEFINE s == [OldSys EXCEPT !.v0 = cpu.v0]
  <2>2. Load([p_s EXCEPT ![curProc] = s], s)
    BY <1>1, <2>1 DEF Saved
  <2> QED BY <1>1, <1>4, <2>2, CallVirtual
<1>5. Saved = [p_s EXCEPT ![curProc] = OldSys] /\ VP!Following(curProc) = OldSys
  BY <1>2 DEF Saved, VP!Following, OldSys
<1>6. Counts(curProc, 1)
  BY <1>1, <1>2 DEF Counts, Counted, Behind
<1>7. CASE Terminate
  <2>1. mode' # "run" /\ UNCHANGED <<curProc, pcbFree, p_exceptionConfig, procQ>>
    BY <1>7 DEF Terminate, TerminateProcess, procVars, queueVars
  <2> QED BY <1>1, <2>1, CallUnseen
<1>8. CASE WaitClock
  <2>1. UNCHANGED <<pcbFree, p_exceptionConfig>> /\ Clock \in Sem /\ Clock \notin Devices
    BY <1>8, SemFacts, SemAssumption DEF WaitClock, procVars
  <2>2. CASE sem'[Clock] < 0
    <3>1. BlockCurProc(Clock, softBlkCount')
      BY <1>8, <2>2 DEF WaitClock
    <3>2. curProc' # curProc /\ \A d \in Devices : procQ'[d] = procQ[d]
      BY <1>1, <1>3, <2>1, <3>1, NotAgain, BlockJoins, OtherQueues, SemFacts DEF Joins
    <3> QED BY <1>4, <2>1, <3>2
  <2>3. CASE ~(sem'[Clock] < 0)
    <3>1. mode' # "run" /\ UNCHANGED <<curProc, procQ>>
      BY <1>8, <2>3 DEF WaitClock, queueVars
    <3> QED BY <1>1, <2>1, <3>1, CallUnseen
  <2> QED BY <2>2, <2>3
<1>9. ASSUME NEW a \in UserSem, Verhogen(a) \/ Passeren(a) PROVE Virtual
  <2>1. a \in Sem /\ a \notin Devices /\ UNCHANGED <<pcbFree, p_exceptionConfig>>
    BY <1>9, SemFacts, SemAssumption DEF Verhogen, Passeren, procVars, DeviceSem
  <2>2. CASE Verhogen(a)
    <3>1. mode' = "run"
      BY <1>1, <2>2 DEF Verhogen
    <3>2. procQ' = procQ \/ procQ' = [procQ EXCEPT ![a] = Tail(procQ[a])]
      BY <2>2 DEF Verhogen
    <3>3. \A d \in Devices : procQ'[d] = procQ[d]
      BY <1>3, <2>1, <3>2, OtherQueues, SemFacts
    <3> QED BY <1>4, <2>1, <3>1, <3>3
  <2>3. CASE Passeren(a) /\ sem'[a] < 0
    <3>1. BlockCurProc(a, softBlkCount)
      BY <2>3 DEF Passeren
    <3>2. curProc' # curProc /\ \A d \in Devices : procQ'[d] = procQ[d]
      BY <1>1, <1>3, <2>1, <3>1, NotAgain, BlockJoins, OtherQueues, SemFacts DEF Joins
    <3> QED BY <1>4, <2>1, <3>2
  <2>4. CASE Passeren(a) /\ ~(sem'[a] < 0)
    <3>1. mode' = "run" /\ procQ' = procQ
      BY <1>1, <2>4 DEF Passeren, cpuVars
    <3> QED BY <1>4, <2>1, <3>1
  <2> QED BY <1>9, <2>2, <2>3, <2>4
<1>10. ASSUME NEW t \in VectorTypes, SpecTrap(t) PROVE Virtual
  <2>1. UNCHANGED <<pcbFree, procQ, curProc>>
    BY <1>10 DEF SpecTrap, procVars, queueVars
  <2>2. CASE t \in p_exceptionConfig[curProc]
    <3>1. mode' # "run" /\ UNCHANGED p_exceptionConfig
      BY <1>10, <2>2 DEF SpecTrap, TerminateProcess
    <3> QED BY <1>1, <2>1, <3>1, CallUnseen
  <2>3. CASE t \notin p_exceptionConfig[curProc]
    <3>1. /\ mode' = mode
          /\ p_exceptionConfig' = [p_exceptionConfig EXCEPT ![curProc] = @ \cup {t}]
      BY <1>10, <2>3 DEF SpecTrap
    <3>2. vs' = [vs EXCEPT ![curProc] = OldSys]
      BY <1>1, <1>2, <1>5, <2>1, <3>1, LoadOwn
    <3>3. io' = io
      BY <2>1, SameIO
    <3>4. vectors' = [vectors EXCEPT ![curProc] = @ \cup {t}]
      BY <1>2, <1>3, <2>1, <3>1 DEF vectors, TypeOK
    <3>5. VP!SpecVector(curProc, t)
      BY <1>1, <1>2, <1>5, <2>3, <3>2, <3>3, <3>4
         DEF VP!SpecVector, VP!Calls, VP!Executes, VP!Become
    <3> QED BY <1>1, <1>2, <1>6, <3>5 DEF Virtual, Instruction, Exempt
  <2> QED BY <2>2, <2>3
<1>11. ASSUME NEW d \in Devices, WaitIO(d) PROVE Virtual
  <2>1. UNCHANGED <<pcbFree, p_exceptionConfig>> /\ d \in Sem
    BY <1>11, SemFacts DEF WaitIO, procVars
  <2>2. CASE sem'[d] < 0
    <3>1. BlockCurProc(d, softBlkCount')
      BY <1>11, <2>2 DEF WaitIO
    <3>2. Joins(d, curProc) /\ curProc' # curProc
      BY <1>1, <1>3, <2>1, <3>1, NotAgain, BlockJoins
    <3>3. vs' = [vs EXCEPT ![curProc] = OldSys]
      BY <1>1, <1>2, <1>5, <2>1, <3>2, LoadOwn
    <3>4. vectors' = vectors
      BY <2>1, SameVectors
    <3>5. io' = [io EXCEPT ![curProc] = TRUE]
      <4>1. /\ BlockedOn(d)' = BlockedOn(d) \cup {curProc}
            /\ \A e \in Devices : e # d => BlockedOn(e)' = BlockedOn(e)
        BY <1>3, <2>1, <3>2, OtherQueues, SemFacts DEF Joins
      <4>2. io' = [p \in Proc |-> \E e \in Devices : p \in BlockedOn(e)']
        BY DEF io
      <4> HIDE DEF BlockedOn
      <4>3. ASSUME NEW p \in Proc
            PROVE  (\E e \in Devices : p \in BlockedOn(e)')
                     = (IF p = curProc THEN TRUE ELSE \E e \in Devices : p \in BlockedOn(e))
        BY <4>1
      <4>4. [io EXCEPT ![curProc] = TRUE]
              = [p \in Proc |-> IF p = curProc THEN TRUE ELSE \E e \in Devices : p \in BlockedOn(e)]
        BY DEF io
      <4> QED BY <4>2, <4>3, <4>4, Zenon
    <3>6. VP!WaitIO(curProc)
      BY <1>1, <1>2, <1>5, <3>3, <3>4, <3>5
         DEF VP!WaitIO, VP!Calls, VP!Executes, VP!Become
    <3> QED BY <1>1, <1>2, <1>6, <3>6 DEF Virtual, Instruction, Exempt
  <2>3. CASE ~(sem'[d] < 0)
    <3>1. mode' # "run" /\ UNCHANGED <<curProc, procQ>>
      BY <1>11, <2>3 DEF WaitIO, queueVars
    <3> QED BY <1>1, <2>1, <3>1, CallUnseen
  <2> QED BY <2>2, <2>3
<1> QED BY <1>7, <1>8, <1>9, <1>10, <1>11 DEF SysCall


\* SYS6 and a SYS1 that found no free PCB.
LEMMA ResultVirtual ==
  ASSUME ProcessorInv, CreateNone \/ GetCPUTime
  PROVE  Virtual
<1> DEFINE s == [OldSys EXCEPT !.v0 = -1]
<1>1. /\ mode = "run" /\ ~cpu.user /\ Counted /\ UNCHANGED area /\ UNCHANGED vars
      /\ Load([p_s EXCEPT ![curProc] = OldSys], s)
  BY DEF CreateNone, GetCPUTime, Calls, Executes, CreateRefused, VP!Answer, Saved, Result
<1>2. UNCHANGED <<pcbFree, p_exceptionConfig, procQ, curProc, mode>>
  BY <1>1 DEF vars
<1>3. /\ curProc \in Proc /\ curProc \notin pcbFree /\ vs[curProc] = cpu
      /\ vs[curProc] # Dead /\ ~io[curProc] /\ curProc # NoProc
  BY <1>1, RunsNow, Running
<1>4. s = [VP!Following(curProc) EXCEPT !.v0 = -1]
  BY <1>3 DEF VP!Following, OldSys
<1> HIDE DEF s
<1>5. vs' = [vs EXCEPT ![curProc] = s]
  <2>1. cpu' = s /\ p_s' = [p_s EXCEPT ![curProc] = OldSys] /\ p_s \in [Proc -> States]
    BY <1>1, <1>2, <1>3 DEF Load, ProcessorInv, StateInv
  <2> QED BY <1>2, <1>3, <2>1 DEF vs
<1>6. io' = io /\ vectors' = vectors
  BY <1>2, SameIO, SameVectors
<1>7. VP!Call(curProc)
  BY <1>1, <1>3, <1>4, <1>5, <1>6 DEF VP!Call, VP!Calls, VP!Executes, VP!Become, VP!Answer
<1>8. Counts(curProc, 1)
  BY <1>1, <1>3 DEF Counts, Counted, Behind
<1> QED BY <1>1, <1>3, <1>7, <1>8 DEF Virtual, Instruction, Exempt

LEMMA CreateVirtual ==
  ASSUME ProcessorInv, Create
  PROVE  Virtual
<1>1. mode = "run" /\ ~cpu.user /\ CreateProcess
  BY DEF Create, Executes
<1>2. PICK child \in pcbFree \ pcbFree' :
        /\ Load([Saved EXCEPT ![child] = VP!Birth], Result(0))
        /\ area' = [area EXCEPT ![child] = [t \in VectorTypes |-> VP!Blank]]
        /\ due' = [due EXCEPT
                     ![curProc] = IF cpu.pc[1] = VP!Main THEN @ + 1 ELSE @,
                     ![child] = 0]
  BY DEF Create
<1>3. PICK c \in pcbFree :
        /\ pcbFree' = pcbFree \ {c}
        /\ p_exceptionConfig' = [p_exceptionConfig EXCEPT ![c] = {}]
  BY <1>1 DEF CreateProcess
<1>4. child = c /\ UNCHANGED <<curProc, mode, procQ>>
  BY <1>1, <1>2, <1>3 DEF CreateProcess
<1>5. /\ curProc \in Proc /\ curProc \notin pcbFree /\ vs[curProc] = cpu
      /\ vs[curProc] # Dead /\ ~io[curProc] /\ curProc # NoProc
  BY <1>1, RunsNow, Running
<1>6. child \in Proc /\ vs[child] = Dead /\ child # curProc /\ TypeOK
  BY <1>2, <1>5, Seen DEF ProcessorInv, StructInv, TypeInv, TypeOK
<1>7. Result(0) = [VP!Following(curProc) EXCEPT !.v0 = 0]
  BY <1>5 DEF VP!Following, OldSys, Result
<1>8. vs' = [vs EXCEPT ![curProc] = Result(0), ![child] = VP!Birth]
  <2>1. /\ cpu' = Result(0) /\ p_s' = [Saved EXCEPT ![child] = VP!Birth]
        /\ Saved = [p_s EXCEPT ![curProc] = OldSys]
        /\ p_s \in [Proc -> States]
    BY <1>1, <1>2, <1>4, <1>5 DEF Load, Saved, ProcessorInv, StateInv
  <2>2. ASSUME NEW p \in Proc
        PROVE  (IF p \in pcbFree' THEN Dead ELSE IF p = curProc' THEN cpu' ELSE p_s'[p])
                 = (IF p = child THEN VP!Birth ELSE IF p = curProc THEN Result(0) ELSE vs[p])
    BY <1>3, <1>4, <1>5, <1>6, <2>1, Seen
  <2>3. vs' = [p \in Proc |-> IF p \in pcbFree' THEN Dead
                              ELSE IF p = curProc' THEN cpu' ELSE p_s'[p]]
    BY DEF vs
  <2>4. [vs EXCEPT ![curProc] = Result(0), ![child] = VP!Birth]
          = [p \in Proc |-> IF p = child THEN VP!Birth ELSE IF p = curProc THEN Result(0) ELSE vs[p]]
    BY <1>6 DEF vs
  <2> QED BY <2>2, <2>3, <2>4
<1>9. io' = io
  BY <1>4, SameIO
<1>10. vectors' = vectors
  BY <1>3, <1>4, <1>6 DEF vectors, TypeOK
<1>11. VP!Create(curProc, child)
  BY <1>1, <1>2, <1>5, <1>6, <1>7, <1>8, <1>9, <1>10
     DEF VP!Create, VP!Calls, VP!Executes
<1>12. Births(curProc)
  BY <1>2, <1>5, <1>6, <1>11 DEF Births
<1> QED BY <1>1, <1>5, <1>12 DEF Virtual, Exempt

\* What innocentOrNoose does to the process that trapped.
LEMMA PassUpSeen ==
  ASSUME ProcessorInv, curProc \in Executing, NEW t \in TrapTypes,
         NEW s \in States, NEW cause, InnocentOrNoose(t), PassUp(t, s, cause),
         UNCHANGED <<curProc, pcbFree, p_exceptionConfig, procQ>>
  PROVE  \/ mode' = "run" /\ VP!PassedUp(curProc, t, s, cause)
         \/ mode' # "run" /\ UNCHANGED <<vs, io, vectors, area>>
<1>1. /\ curProc \in Proc /\ curProc \notin pcbFree /\ curProc # NoProc
      /\ vectors[curProc] = p_exceptionConfig[curProc]
  BY Running
<1>2. io' = io /\ vectors' = vectors
  BY SameIO, SameVectors
<1>3. CASE mode' = "run"
  <2>1. /\ area' = [area EXCEPT ![curProc][t] = [s |-> s, cause |-> cause]]
        /\ Load([p_s EXCEPT ![curProc] = VP!NewArea(t)], VP!NewArea(t))
    BY <1>3 DEF PassUp
  <2>2. vs' = [vs EXCEPT ![curProc] = VP!NewArea(t)]
    BY <1>1, <1>3, <2>1, LoadOwn
  <2>3. t \in vectors[curProc]
    BY <1>1, <1>3 DEF InnocentOrNoose, TerminateProcess
  <2> QED BY <1>2, <1>3, <2>1, <2>2, <2>3 DEF VP!PassedUp, VP!Become
<1>4. CASE mode' # "run"
  <2>1. Load(p_s, cpu) /\ area' = area
    BY <1>4 DEF PassUp
  <2>2. vs' = vs
    BY <2>1, LoadNone DEF ProcessorInv, StateInv
  <2> QED BY <1>2, <1>4, <2>1, <2>2
<1> QED BY <1>3, <1>4

LEMMA ExceptionVirtual ==
  ASSUME ProcessorInv, Fault("TLBTRAP") \/ Fault("PROGTRAP") \/ HighCall \/ PrivilegedCall
  PROVE  Virtual
<1>1. mode = "run" /\ \E t \in TrapTypes : Exception(t)
  BY DEF Fault, HighCall, PrivilegedCall, Executes, TrapTypes
<1>2. UNCHANGED <<curProc, pcbFree, p_exceptionConfig, procQ>>
  BY <1>1 DEF Exception, procVars, queueVars
<1>3. /\ curProc \in Proc /\ vs[curProc] = cpu /\ vs[curProc] # Dead /\ ~io[curProc]
      /\ curProc \in Executing
  BY <1>1, RunsNow, Running
<1>4. OldSys \in States /\ cpu \in States /\ VP!Following(curProc) = OldSys
  BY <1>3, OldSysType DEF VP!Following, OldSys, ProcessorInv, StateInv
<1>5. \A n : Behind(n) => Counts(curProc, n)
  BY <1>3 DEF Counts, Behind
<1>6. ASSUME mode' # "run", UNCHANGED <<vs, io, vectors, area>>,
             UNCHANGED due \/ \E n : Behind(n)
      PROVE  Virtual
  <2>1. \A p \in Proc : due'[p] = due[p] \/ Exempt(p)'
    BY <1>2, <1>6 DEF Behind, Exempt, ProcessorInv, StateInv
  <2> QED BY <1>1, <1>6, <2>1 DEF Virtual, Unseen, Exempt
<1>7. Excepts(curProc) => Virtual
  BY <1>1, <1>3 DEF Virtual, Exempt
<1>8. ASSUME NEW t \in {"TLBTRAP", "PROGTRAP"}, Fault(t) PROVE Virtual
  <2>1. InnocentOrNoose(t) /\ PassUp(t, cpu, "fault") /\ UNCHANGED due /\ t \in TrapTypes
    BY <1>8 DEF Fault, Exception, TrapTypes
  <2>2. \/ mode' = "run" /\ VP!PassedUp(curProc, t, cpu, "fault")
        \/ mode' # "run" /\ UNCHANGED <<vs, io, vectors, area>>
    BY <1>2, <1>3, <1>4, <2>1, PassUpSeen
  <2>3. CASE VP!PassedUp(curProc, t, cpu, "fault")
    <3>1. Excepts(curProc)
      BY <1>3, <2>1, <2>3 DEF Excepts, VP!Executes
    <3> QED BY <1>7, <3>1
  <2> QED BY <1>6, <2>1, <2>2, <2>3
<1>9. CASE HighCall
  <2>1. InnocentOrNoose("SYSTRAP") /\ PassUp("SYSTRAP", OldSys, "sys") /\ Behind(1 + Advance)
        /\ "SYSTRAP" \in TrapTypes
    BY <1>9 DEF HighCall, Exception, TrapTypes
  <2>2. \/ mode' = "run" /\ VP!PassedUp(curProc, "SYSTRAP", OldSys, "sys")
        \/ mode' # "run" /\ UNCHANGED <<vs, io, vectors, area>>
    BY <1>2, <1>3, <1>4, <2>1, PassUpSeen
  <2>3. CASE VP!PassedUp(curProc, "SYSTRAP", OldSys, "sys")
    <3>1. Excepts(curProc)
      BY <1>3, <1>4, <1>5, <2>1, <2>3 DEF Excepts, VP!Executes
    <3> QED BY <1>7, <3>1
  <2> QED BY <1>6, <2>1, <2>2, <2>3
<1>10. CASE PrivilegedCall
  <2>1. InnocentOrNoose("PROGTRAP") /\ PassUp("PROGTRAP", OldSys, "reserved") /\ Behind(1)
        /\ "PROGTRAP" \in TrapTypes /\ cpu.user
    BY <1>10 DEF PrivilegedCall, Counted, Exception, TrapTypes
  <2>2. \/ mode' = "run" /\ VP!PassedUp(curProc, "PROGTRAP", OldSys, "reserved")
        \/ mode' # "run" /\ UNCHANGED <<vs, io, vectors, area>>
    BY <1>2, <1>3, <1>4, <2>1, PassUpSeen
  <2>3. CASE VP!PassedUp(curProc, "PROGTRAP", OldSys, "reserved")
    <3>1. Excepts(curProc)
      BY <1>3, <1>4, <1>5, <2>1, <2>3 DEF Excepts, VP!Executes
    <3> QED BY <1>7, <3>1
  <2> QED BY <1>6, <2>1, <2>2, <2>3
<1> QED BY <1>8, <1>9, <1>10

LEMMA ReturnVirtual ==
  ASSUME ProcessorInv, NEW t \in VectorTypes, Return(t)
  PROVE  Virtual
<1>1. /\ mode = "run" /\ ~cpu.user /\ cpu.pc[1] = t
      /\ UNCHANGED <<vars, area, due>>
  BY DEF Return, Executes
<1>2. UNCHANGED <<pcbFree, p_exceptionConfig, procQ, curProc, mode>>
  BY <1>1 DEF vars
<1>3. /\ curProc \in Proc /\ curProc \notin pcbFree /\ vs[curProc] = cpu
      /\ vs[curProc] # Dead /\ ~io[curProc]
  BY <1>1, RunsNow, Running
<1>4. /\ \A p \in Proc : p # curProc => p_s'[p] = p_s[p]
      /\ cpu' = IF area[curProc][t].cause = "nucleus"
                  THEN VP!NewArea(t) ELSE VP!Resumed(t, area[curProc][t].s)
  BY DEF Return, ProcessorInv, StateInv
<1>5. vs' = [vs EXCEPT ![curProc] = cpu']
  BY <1>2, <1>3, <1>4 DEF vs
<1>6. io' = io /\ vectors' = vectors
  BY <1>2, SameIO, SameVectors
<1>7. VP!Return(curProc, t)
  BY <1>1, <1>3, <1>4, <1>5, <1>6
     DEF VP!Return, VP!Calls, VP!Executes, VP!Become
<1> QED BY <1>1, <1>3, <1>7 DEF Virtual, Returns, Exempt

\* No child of an activation is left when the outermost one returns.
LEMMA StruckOffStep ==
  ASSUME StructInv, StruckOff, [Next]_vars
  PROVE  StruckOff'
<1>0. TypeOK /\ NooseInv
  BY DEF StructInv, TypeInv
<1>1. ASSUME NEW ready, NEW n, NEW k, NEW w, NextVictim(ready, n, k, w) PROVE mode' # "kill"
  BY <1>1 DEF NextVictim, Verdict
<1>2. ASSUME NEW ready, NEW k, ReturnFromInterrupt(ready, k), Interruptible
      PROVE  mode' # "kill"
  BY <1>1, <1>2 DEF ReturnFromInterrupt, Interruptible
<1>3. ASSUME NEW t, InnocentOrNoose(t) \/ TerminateProcess
      PROVE  StruckOff'
  <2>1. mode' # "kill" \/ noose' = <<curProc>>
    BY <1>3 DEF InnocentOrNoose, TerminateProcess
  <2> QED BY <2>1 DEF StruckOff
<1>4. ASSUME mode = "run", NEW s, NEW k, BlockCurProc(s, k) PROVE mode' # "kill"
  BY <1>1, <1>4 DEF BlockCurProc
<1>5. CASE SystemCall
  <2>1. mode = "run"
    BY <1>5 DEF SystemCall, CreateProcess, CreateRefused, Terminate, WaitClock,
                Verhogen, Passeren, SpecTrap, WaitIO
  <2>2. mode' # "kill" \/ TerminateProcess
    BY <1>4, <1>5, <2>1 DEF SystemCall, CreateProcess, CreateRefused, Terminate,
                WaitClock, Verhogen, Passeren, SpecTrap, WaitIO, vars, cpuVars
  <2> QED BY <1>3, <2>2 DEF StruckOff
<1>6. ASSUME NEW t \in TrapTypes, Exception(t) PROVE StruckOff'
  BY <1>3, <1>6 DEF Exception
<1>7. CASE KillChild
  <2>1. PICK c \in Children(Doomed) : noose' = Append(noose, c)
    BY <1>7 DEF KillChild
  <2>2. noose \in Seq(Proc) /\ c \in Proc
    BY <1>0 DEF TypeOK, Children
  <2>3. noose' # <<>>
    BY <2>1, <2>2
  <2> QED BY <2>3 DEF StruckOff
<1>8. CASE ReapReady \/ ReapBlocked \/ ReapRunning
  <2>1. Childless /\ Reap(Doomed)
    BY <1>8 DEF ReapReady, ReapBlocked, ReapRunning
  <2>2. /\ noose # <<>> /\ noose \in Seq(Proc) /\ IsInjective(noose) /\ Head(noose) = curProc
        /\ noose' = Front(noose) /\ pcbFree' = pcbFree \cup {Doomed} /\ curProc' = curProc
    BY <1>0, <2>1 DEF Childless, Reap, NooseInv, TypeOK
  <2>3. noose' = <<>> => curProc = Doomed
    <3>1. ToSet(noose') = ToSet(noose) \ {Doomed}
      BY <2>2, FrontQueue DEF Doomed
    <3>2. curProc \in ToSet(noose)
      BY <2>2, TailQueue
    <3>3. noose' = <<>> => ToSet(noose') = {}
      BY DEF ToSet
    <3> QED BY <3>1, <3>2, <3>3
  <2> QED BY <2>2, <2>3 DEF StruckOff
<1>9. CASE ReapNeverBlocked
  BY <1>3, <1>9 DEF ReapNeverBlocked
<1>10. CASE Terminated \/ LocalTimer
  BY <1>1, <1>10 DEF Terminated, LocalTimer, StruckOff
<1>11. CASE IntervalTimer
  BY <1>2, <1>11 DEF IntervalTimer, StruckOff
<1>12. ASSUME NEW d \in Devices, DeviceInterrupt(d) PROVE StruckOff'
  <2>1. CASE InnocentOrNoose("PROGTRAP")
    BY <1>3, <2>1
  <2>2. CASE ~InnocentOrNoose("PROGTRAP")
    BY <1>2, <1>12, <2>2 DEF DeviceInterrupt, StruckOff
  <2> QED BY <2>1, <2>2
<1>13. CASE \/ UNCHANGED vars \/ StayStopped
            \/ \E d \in Devices : StartIO(d) \/ DeviceDone(d)
  BY <1>13 DEF vars, StayStopped, StartIO, DeviceDone, procVars, killVars, StruckOff
<1> QED BY <1>5, <1>6, <1>7, <1>8, <1>9, <1>10, <1>11, <1>12, <1>13 DEF Next, Kill

LEMMA ReapVirtual ==
  ASSUME ProcessorInv, ReapReady \/ ReapBlocked \/ ReapRunning,
         Load(p_s, cpu), UNCHANGED <<area, due>>
  PROVE  Virtual
<1>0. TypeOK /\ NooseInv /\ Placed /\ StructInv
  BY PlacedIff DEF ProcessorInv, StructInv, TypeInv
<1>1. /\ mode = "kill" /\ noose # <<>>
      /\ pcbFree' = pcbFree \cup {Doomed}
      /\ UNCHANGED <<curProc, mode, p_exceptionConfig>>
  BY DEF ReapReady, ReapBlocked, ReapRunning, Childless, Reap
<1>2. Doomed \in Proc /\ Doomed \notin pcbFree
  BY <1>0, <1>1, FrontQueue DEF NooseInv, TypeOK, Doomed
<1>3. /\ Placed'
      /\ \A p \in Proc : \A s \in Sem : p # Doomed =>
           (p \in BlockedOn(s)' <=> p \in BlockedOn(s))
  <2>1. Placed'
    BY <1>0, ReapPlaced
  <2>2. CASE ReapReady \/ ReapRunning
    BY <2>1, <2>2 DEF ReapReady, ReapRunning, BlockedOn
  <2>3. CASE ReapBlocked
    <3>1. PICK s \in Sem : Leaves(s, Doomed)
      BY <1>0, <2>3, ReapLeaves
    <3>2. /\ BlockedOn(s)' = BlockedOn(s) \ {Doomed}
          /\ \A a \in Sem : a # s => BlockedOn(a)' = BlockedOn(a)
      BY <1>0, <3>1, OtherQueues DEF Leaves
    <3> HIDE DEF BlockedOn
    <3> QED BY <2>1, <3>2
  <2> QED BY <2>2, <2>3
<1>4. \A s \in Sem : Doomed \notin BlockedOn(s)'
  BY <1>1, <1>2, <1>3 DEF Placed
<1> HIDE DEF Doomed, BlockedOn
<1>5. io' = [io EXCEPT ![Doomed] = FALSE]
  <2>1. io' = [p \in Proc |-> \E e \in Devices : p \in BlockedOn(e)']
    BY DEF io
  <2>2. ASSUME NEW p \in Proc
        PROVE  (\E e \in Devices : p \in BlockedOn(e)')
                 = (IF p = Doomed THEN FALSE ELSE \E e \in Devices : p \in BlockedOn(e))
    BY <1>3, <1>4, SemFacts
  <2>3. [io EXCEPT ![Doomed] = FALSE]
          = [p \in Proc |-> IF p = Doomed THEN FALSE ELSE \E e \in Devices : p \in BlockedOn(e)]
    BY DEF io
  <2> QED BY <2>1, <2>2, <2>3, Zenon
<1>6. vectors' = [vectors EXCEPT ![Doomed] = {}]
  BY <1>1, <1>2 DEF vectors
<1>7. vs' = [vs EXCEPT ![Doomed] = Dead]
  <2>1. p_s' = p_s /\ (curProc \in Proc => cpu' = cpu)
    BY <1>1, ProcAssumption DEF Load
  <2> QED BY <1>1, <1>2, <2>1 DEF vs
<1>8. vs[Doomed] # Dead
  BY <1>2, Seen, StateAssumption DEF ProcessorInv, StateInv
<1>9. VP!Die(Doomed)
  BY <1>5, <1>6, <1>7, <1>8 DEF VP!Die, VP!Become
<1> QED BY <1>1, <1>2, <1>9 DEF Virtual, Affected, Exempt

\* The nucleus traps while it kills, or handles an interrupt.
LEMMA TrapVirtual ==
  ASSUME ProcessorInv, InnocentOrNoose("PROGTRAP"), NucleusTrap,
         UNCHANGED <<curProc, pcbFree, p_exceptionConfig, procQ, due>>,
         \/ mode = "kill" /\ noose # <<>>
         \/ Interruptible
  PROVE  Virtual
<1>0. TypeOK /\ "PROGTRAP" \in TrapTypes
  BY DEF ProcessorInv, StructInv, TypeInv, TrapTypes
<1>1. CASE curProc = NoProc
  <2>1. mode' = "panicExcep"
    BY <1>1 DEF InnocentOrNoose
  <2>2. Load(p_s, cpu) /\ area' = area
    BY <2>1 DEF NucleusTrap, PassUp
  <2>3. UNCHANGED <<vs, io, vectors>>
    BY <2>2, LoadNone, SameIO, SameVectors DEF ProcessorInv, StateInv
  <2> QED BY <2>1, <2>2, <2>3 DEF Virtual, Unseen, Exempt
<1>2. CASE curProc # NoProc
  <2>1. curProc \in Proc /\ curProc \in Executing
    BY <1>0, <1>2 DEF TypeOK, Executing, Interruptible
  <2>2. \/ mode' = "run" /\ VP!PassedUp(curProc, "PROGTRAP", VP!Birth, "nucleus")
        \/ mode' # "run" /\ UNCHANGED <<vs, io, vectors, area>>
    BY <1>0, <2>1, PassUpSeen, FirstStates DEF NucleusTrap
  <2>3. CASE VP!PassedUp(curProc, "PROGTRAP", VP!Birth, "nucleus")
    <3>1. VP!NucleusTrap(curProc)
      BY <2>1, <2>3, Running DEF VP!NucleusTrap
    <3> QED BY <2>1, <3>1 DEF Virtual, Affected, Exempt
  <2>4. CASE mode' # "run" /\ UNCHANGED <<vs, io, vectors, area>>
    BY <2>4 DEF Virtual, Unseen, Exempt
  <2> QED BY <2>2, <2>3, <2>4
<1> QED BY <1>1, <1>2

LEMMA KillStepVirtual ==
  ASSUME ProcessorInv, KillStep
  PROVE  Virtual
<1>1. CASE noose # <<>> /\ mode' = "run"
  <2>1. ReapNeverBlocked /\ NucleusTrap /\ due' = due
    BY <1>1, NucleusTraps DEF ProcessorInv, StructInv, KillStep
  <2> QED BY <1>1, <2>1, TrapVirtual DEF ReapNeverBlocked, Childless, procVars, queueVars
<1>2. CASE ~(noose # <<>> /\ mode' = "run")
  <2>1. Load(p_s, cpu) /\ UNCHANGED <<area, due>> /\ mode = "kill"
    BY <1>2 DEF KillStep, Kill, KillChild, ReapReady, ReapBlocked, ReapRunning,
                ReapNeverBlocked, Terminated, Childless
  <2>2. CASE ReapReady \/ ReapBlocked \/ ReapRunning
    BY <2>1, <2>2, ReapVirtual
  <2>3. CASE KillChild \/ ReapNeverBlocked
    <3>1. UNCHANGED <<curProc, pcbFree, p_exceptionConfig, procQ>> /\ mode' # "run"
      BY <1>2, <2>1, <2>3 DEF KillChild, ReapNeverBlocked, Childless, procVars, queueVars, cpuVars
    <3>2. UNCHANGED <<vs, io, vectors>>
      BY <2>1, <3>1, LoadNone, SameIO, SameVectors DEF ProcessorInv, StateInv
    <3> QED BY <2>1, <3>1, <3>2 DEF Virtual, Unseen, Exempt
  <2>4. CASE Terminated
    <3>1. UNCHANGED <<pcbFree, p_exceptionConfig, procQ>> /\ curProc \in pcbFree
      BY <2>1, <2>4 DEF Terminated, procVars, ProcessorInv, StruckOff
    <3>2. UNCHANGED <<vs, io, vectors>>
      BY <2>1, <3>1, LoadNone, SameIO, SameVectors DEF ProcessorInv, StateInv
    <3>3. \A p \in Proc : Exempt(p) => vs[p] = Dead
      BY <3>1, Seen DEF Exempt
    <3> QED BY <2>1, <3>2, <3>3 DEF Virtual, Unseen
  <2> QED BY <1>2, <2>2, <2>3, <2>4 DEF KillStep, Kill
<1> QED BY <1>1, <1>2

LEMMA QuantumVirtual ==
  ASSUME ProcessorInv, QuantumEnd
  PROVE  Virtual
<1>1. /\ mode = "run" /\ Load(Interrupted, Interrupted[curProc])
      /\ UNCHANGED <<area, due, pcbFree, p_exceptionConfig, procQ>>
  BY DEF QuantumEnd, LocalTimer, procVars
<1>2. curProc \in Proc
  BY <1>1, RunsNow, Running
<1>3. /\ Interrupted \in [Proc -> States] /\ Interrupted[curProc] = cpu
      /\ \A p \in Proc : p # curProc => Interrupted[p] = p_s[p]
  BY <1>2 DEF Interrupted, ProcessorInv, StateInv
<1>4. UNCHANGED <<vs, io, vectors>>
  BY <1>1, <1>3, LoadNone, SameIO, SameVectors
<1> QED BY <1>1, <1>4 DEF Virtual, Unseen, Exempt

\* An interrupt returns to the process it interrupted, if there is one.
LEMMA Interruptee ==
  ASSUME ProcessorInv, Interruptible, NEW ready, NEW k,
         ReturnFromInterrupt(ready, k), curProc \in Proc
  PROVE  curProc' = curProc /\ mode' = mode /\ mode = "run"
BY ProcAssumption DEF ProcessorInv, StructInv, IdleInv, TypeInv, TypeOK,
                      Interruptible, ReturnFromInterrupt

LEMMA TickVirtual ==
  ASSUME ProcessorInv, ClockTick
  PROVE  Virtual
<1>1. /\ Interruptible /\ Load(p_s, cpu)
      /\ UNCHANGED <<area, due, pcbFree, p_exceptionConfig>>
      /\ \E ready, k : ReturnFromInterrupt(ready, k)
  BY DEF ClockTick, IntervalTimer, procVars
<1>2. curProc \in Proc => curProc' = curProc /\ mode = "run"
  BY <1>1, Interruptee
<1>3. \A d \in Devices : procQ'[d] = procQ[d]
  BY SemFacts, SemAssumption DEF ClockTick, IntervalTimer, ProcessorInv, StructInv, TypeInv, TypeOK
<1>4. UNCHANGED <<vs, io, vectors>>
  BY <1>1, <1>2, <1>3, LoadNone, SameIO, SameVectors DEF ProcessorInv, StateInv
<1> QED BY <1>1, <1>2, <1>4 DEF Virtual, Unseen, Exempt

LEMMA InterruptVirtual ==
  ASSUME ProcessorInv, NEW d \in Devices, IOInterrupt(d)
  PROVE  Virtual
<1>0. TypeOK /\ Placed /\ StructInv /\ d \in Sem /\ strayV \in Nat
  BY PlacedIff, SemFacts DEF ProcessorInv, StructInv, TypeInv, TypeOK
<1>1. /\ DeviceInterrupt(d) /\ Interruptible
      /\ UNCHANGED <<due, pcbFree, p_exceptionConfig>>
  BY DEF IOInterrupt, DeviceInterrupt, procVars
<1>2. CASE /\ procQ' # procQ /\ UNCHANGED area
           /\ Load([p_s EXCEPT ![Head(procQ[d])].v0 = VP!Answer], cpu)
  <2> DEFINE h == Head(procQ[d])
             answered == [p_s[h] EXCEPT !.v0 = VP!Answer]
  <2>1. /\ procQ[d] # <<>> /\ procQ' = [procQ EXCEPT ![d] = Tail(procQ[d])]
        /\ ReturnFromInterrupt(Append(deathRowLine, h), softBlkCount')
    BY <1>1, <1>2 DEF DeviceInterrupt
  <2>2. /\ h \in Proc /\ h \in BlockedOn(d) /\ BlockedOn(d)' = BlockedOn(d) \ {h}
        /\ \A e \in Sem : e # d => BlockedOn(e)' = BlockedOn(e)
    <3>1. Leaves(d, h)
      BY <1>0, <2>1, TailLeaves
    <3> QED BY <1>0, <2>1, <3>1, OtherQueues, PlacesTyped DEF Leaves
  <2>3. Load([p_s EXCEPT ![h] = answered], cpu)
    BY <1>2
  <2> HIDE DEF h, answered
  <2>4. /\ h \notin pcbFree /\ h \notin Executing
        /\ \A e \in Sem : h \in BlockedOn(e) => e = d
    BY <1>0, <2>2 DEF Placed
  <2>5. curProc \in Proc => curProc' = curProc /\ mode = "run" /\ curProc # h
    BY <1>1, <2>1, <2>4, Interruptee, RunsNow
  <2>6. vs[h] = p_s[h] /\ io[h]
    <3>1. h # curProc
      BY <2>2, <2>5
    <3> QED BY <2>2, <2>4, <3>1, Seen
  <2>7. vs' = [vs EXCEPT ![h] = answered]
    <3>1. /\ p_s' = [p_s EXCEPT ![h] = answered] /\ p_s \in [Proc -> States]
          /\ \A p \in Proc : p = curProc' => cpu' = IF curProc' # curProc THEN p_s'[curProc'] ELSE cpu
      BY <2>3, ProcAssumption DEF Load, ProcessorInv, StateInv
    <3>2. ASSUME NEW p \in Proc
          PROVE  (IF p \in pcbFree' THEN Dead ELSE IF p = curProc' THEN cpu' ELSE p_s'[p])
                   = (IF p = h THEN answered ELSE vs[p])
      BY <1>1, <2>2, <2>4, <2>5, <3>1, Seen
    <3>3. vs' = [p \in Proc |-> IF p \in pcbFree' THEN Dead
                                ELSE IF p = curProc' THEN cpu' ELSE p_s'[p]]
      BY DEF vs
    <3>4. [vs EXCEPT ![h] = answered] = [p \in Proc |-> IF p = h THEN answered ELSE vs[p]]
      BY DEF vs
    <3> QED BY <3>2, <3>3, <3>4
  <2>8. io' = [io EXCEPT ![h] = FALSE]
    <3>1. io' = [p \in Proc |-> \E e \in Devices : p \in BlockedOn(e)']
      BY DEF io
    <3> HIDE DEF BlockedOn
    <3>2. ASSUME NEW p \in Proc
          PROVE  (\E e \in Devices : p \in BlockedOn(e)')
                   = (IF p = h THEN FALSE ELSE \E e \in Devices : p \in BlockedOn(e))
      BY <2>2, <2>4, SemFacts
    <3>3. [io EXCEPT ![h] = FALSE]
            = [p \in Proc |-> IF p = h THEN FALSE ELSE \E e \in Devices : p \in BlockedOn(e)]
      BY DEF io
    <3> QED BY <3>1, <3>2, <3>3, Zenon
  <2>9. vectors' = vectors
    BY <1>1, SameVectors
  <2>10. VP!Answered(h)
    BY <1>2, <2>6, <2>7, <2>8, <2>9 DEF VP!Answered, VP!Become, answered
  <2> QED BY <1>1, <2>2, <2>5, <2>10 DEF Virtual, Affected, Exempt
<1>3. CASE procQ' = procQ /\ strayV' = strayV /\ Load(p_s, cpu) /\ UNCHANGED area
  <2>1. \E ready, k : ReturnFromInterrupt(ready, k)
    BY <1>0, <1>1, <1>3 DEF DeviceInterrupt
  <2>2. curProc \in Proc => curProc' = curProc /\ mode = "run"
    BY <1>1, <2>1, Interruptee
  <2>3. UNCHANGED <<vs, io, vectors>>
    BY <1>1, <1>3, <2>2, LoadNone, SameIO, SameVectors DEF ProcessorInv, StateInv
  <2> QED BY <1>1, <1>3, <2>2, <2>3 DEF Virtual, Unseen, Exempt
<1>4. CASE strayV' # strayV /\ NucleusTrap
  <2>1. InnocentOrNoose("PROGTRAP") /\ UNCHANGED <<procQ, curProc>>
    BY <1>1, <1>4 DEF DeviceInterrupt
  <2> QED BY <1>1, <1>4, <2>1, TrapVirtual
<1> QED BY <1>2, <1>3, <1>4 DEF IOInterrupt

LEMMA OutsideVirtual ==
  ASSUME ProcessorInv, Outside \/ UNCHANGED svars
  PROVE  Virtual
<1>1. /\ UNCHANGED <<cpu, p_s, area, due>>
      /\ UNCHANGED <<curProc, mode, pcbFree, p_exceptionConfig, procQ>>
  BY DEF Outside, DeviceDone, StayStopped, vars, svars, procVars, queueVars
<1>2. vs' = vs
  BY <1>1 DEF vs
<1>3. io' = io /\ vectors' = vectors
  BY <1>1, SameIO, SameVectors
<1> QED BY <1>1, <1>2, <1>3 DEF Virtual, Unseen, Exempt

LEMMA VirtualStep ==
  ASSUME ProcessorInv, [SNext]_svars
  PROVE  Virtual
BY ComputeVirtual, SysCallVirtual, ResultVirtual, CreateVirtual, ExceptionVirtual,
   ReturnVirtual, KillStepVirtual, QuantumVirtual, TickVirtual, InterruptVirtual,
   OutsideVirtual DEF SNext
-----------------------------------------------------------------------------
LEMMA ProcessorInit ==
  ASSUME SInit
  PROVE  ProcessorInv /\ VP!Init
<1>1. StructInv /\ VectorInv
  BY StructInit, TableInit DEF SInit
<1>2. /\ curProc \in Proc /\ pcbFree = Proc \ {curProc} /\ mode = "run"
      /\ procQ = [s \in Sem |-> <<>>] /\ p_exceptionConfig = [p \in Proc |-> {}]
  BY DEF SInit, Init
<1>3. /\ cpu = VP!Birth /\ p_s = [p \in Proc |-> VP!Birth]
      /\ area = [p \in Proc |-> [t \in VectorTypes |-> VP!Blank]]
      /\ due = [p \in Proc |-> 0]
  BY DEF SInit
<1>4. StateInv
  <2>1. VP!Blank \in [s : States, cause : Causes]
    BY FirstStates DEF VP!Blank, Causes
  <2> QED BY <1>3, <2>1, FirstStates DEF StateInv
<1>5. vs = [q \in Proc |-> IF q = curProc THEN VP!Birth ELSE Dead]
  BY <1>2, <1>3 DEF vs
<1>6. io = [q \in Proc |-> FALSE]
  <2>1. \A d \in Devices : BlockedOn(d) = {}
    <3>1. \A d \in Devices : procQ[d] = <<>>
      BY <1>2, SemFacts
    <3>2. ToSet(<<>>) = {}
      BY DEF ToSet
    <3> QED BY <3>1, <3>2 DEF BlockedOn
  <2> HIDE DEF BlockedOn
  <2>2. \A q \in Proc : (\E d \in Devices : q \in BlockedOn(d)) = FALSE
    BY <2>1
  <2> QED BY <2>2 DEF io
<1>7. vectors = [q \in Proc |-> {}]
  BY <1>2 DEF vectors
<1>8. VP!Init
  BY <1>2, <1>3, <1>5, <1>6, <1>7 DEF VP!Init
<1> QED BY <1>1, <1>2, <1>4, <1>8 DEF ProcessorInv, StruckOff

LEMMA ProcessorStep ==
  ASSUME ProcessorInv, [SNext]_svars
  PROVE  ProcessorInv'
<1>1. [Next]_vars /\ StructInv /\ VectorInv /\ TypeInv /\ StruckOff
  BY SNextNext DEF ProcessorInv, StructInv
<1>2. StructInv' /\ TypeOK'
  BY <1>1, StructStep DEF StructInv, TypeInv
<1>3. VectorInv' /\ StruckOff'
  BY <1>1, VectorStep, StruckOffStep
<1> QED BY <1>2, <1>3, StateStep DEF ProcessorInv

\* Each process has a processor of its own: to its program, dispatching,
\* interrupts, system calls and the deaths of others are what
\* VirtualProcessors says.
THEOREM ProcessorImplemented == SSpec => OwnProcessor
<1>1. SInit => ProcessorInv /\ VP!Init
  BY ProcessorInit
<1>2. ProcessorInv /\ [SNext]_svars => ProcessorInv'
  BY ProcessorStep
<1>3. ProcessorInv /\ [SNext]_svars => [VP!Next]_(VP!vpvars)
  BY VirtualStep, VirtualImplements
<1> QED BY <1>1, <1>2, <1>3, PTL DEF SSpec, OwnProcessor, VP!Spec
-----------------------------------------------------------------------------
(***************************************************************************)
(* Instructions in order.  A program is at its next instruction, or in a   *)
(* handler from which the old areas lead back to it: the chain of handlers *)
(* through which they do is a set S of places, closed under returning.  A  *)
(* handler whose old area holds the nucleus's own trap returns to itself.  *)
(***************************************************************************)
InSync(p, s) == s.pc[1] = VP!Main => s.pc[2] = due[p]
Back(p, t) == VP!Resumed(t, area[p][t].s)
Chain(p, S) ==
  /\ vs[p].pc[1] \in S /\ InSync(p, vs[p])
  /\ \A t \in S \ {VP!Main} :
       area[p][t].cause # "nucleus" => Back(p, t).pc[1] \in S /\ InSync(p, Back(p, t))
InStep(p) == \E S \in SUBSET ({VP!Main} \cup VectorTypes) : Chain(p, S)
Ledger == \A p \in Proc : vs[p] # Dead /\ ~Exempt(p) => InStep(p)

LEMMA VirtualType ==
  ASSUME ProcessorInv, NEW p \in Proc
  PROVE  /\ vs[p] # Dead => vs[p] \in States
         /\ \A t \in VectorTypes : area[p][t].s \in States
         /\ vectors[p] \subseteq VectorTypes
         /\ io[p] => vs[p] # Dead
         /\ due[p] \in Nat
<1>1. vs[p] # Dead => vs[p] \in States
  BY Seen DEF ProcessorInv, StateInv
<1>2. (\A t \in VectorTypes : area[p][t].s \in States) /\ due[p] \in Nat
  BY DEF ProcessorInv, StateInv
<1>3. vectors[p] \subseteq VectorTypes
  BY Seen DEF ProcessorInv, VectorInv
<1>4. io[p] => vs[p] # Dead
  <2>1. Placed
    BY PlacedIff DEF ProcessorInv, StructInv, TypeInv
  <2>2. io[p] => p \notin pcbFree
    BY <2>1, Seen, SemFacts DEF Placed
  <2> QED BY <2>2, Seen, StateAssumption DEF ProcessorInv, StateInv
<1> QED BY <1>1, <1>2, <1>3, <1>4

\* One program's instruction is nothing to another's.
LEMMA OthersInStep ==
  ASSUME NEW q \in Proc, InStep(q),
         vs'[q] = vs[q], area'[q] = area[q], due'[q] = due[q]
  PROVE  InStep(q)'
BY DEF InStep, Chain, InSync, Back

\* An instruction of p's, in its program or in a handler; r is what it
\* leaves in v0 and u whether it turns user mode on.
LEMMA NextInStep ==
  ASSUME ProcessorInv, NEW p \in Proc, InStep(p), vs[p] # Dead, vs'[p] # Dead,
         vs'[p].pc = VP!After(vs[p].pc), area'[p] = area[p],
         due'[p] = IF vs[p].pc[1] = VP!Main THEN due[p] + 1 ELSE due[p]
  PROVE  InStep(p)'
<1>1. PICK S \in SUBSET ({VP!Main} \cup VectorTypes) : Chain(p, S)
  BY DEF InStep
<1>2. vs'[p].pc[1] = vs[p].pc[1] /\ vs'[p].pc[2] = vs[p].pc[2] + 1
  BY DEF VP!After
<1>3. CASE vs[p].pc[1] = VP!Main
  <2>1. Chain(p, {VP!Main})'
    BY <1>1, <1>2, <1>3 DEF Chain, InSync, Back
  <2> QED BY <2>1 DEF InStep
<1>4. CASE vs[p].pc[1] # VP!Main
  <2>1. Chain(p, S)'
    BY <1>1, <1>2, <1>4 DEF Chain, InSync, Back
  <2> QED BY <2>1 DEF InStep
<1> QED BY <1>3, <1>4

\* An exception of p's, with s in the old area: its handler is the chain's
\* next.
LEMMA HandlerInStep ==
  ASSUME ProcessorInv, NEW p \in Proc, NEW t \in VectorTypes, NEW s \in States, NEW cause,
         cause = "nucleus" \/
           /\ InStep(p)
           /\ VP!Resumed(t, s).pc[1] = vs[p].pc[1]
           /\ vs[p].pc[1] = VP!Main => VP!Resumed(t, s).pc[2] + due[p] = vs[p].pc[2] + due'[p]
           /\ vs[p].pc[1] # VP!Main => due'[p] = due[p],
         vs[p] \in States \/ cause = "nucleus",
         due' \in [Proc -> Nat],
         vs'[p] = VP!NewArea(t),
         area'[p] = [area[p] EXCEPT ![t] = [s |-> s, cause |-> cause]]
  PROVE  InStep(p)'
<1>1. vs'[p].pc[1] = t /\ t # VP!Main
  BY MainIs DEF VP!NewArea
<1>2. /\ area'[p][t] = [s |-> s, cause |-> cause]
      /\ \A e \in VectorTypes : e # t => area'[p][e] = area[p][e]
  BY DEF ProcessorInv, StateInv
<1>3. CASE cause = "nucleus"
  <2>1. Chain(p, {t})'
    BY <1>1, <1>2, <1>3 DEF Chain, InSync
  <2> QED BY <2>1 DEF InStep
<1>4. CASE cause # "nucleus"
  <2> DEFINE back == VP!Resumed(t, s)
  <2>1. PICK S \in SUBSET ({VP!Main} \cup VectorTypes) : Chain(p, S)
    BY <1>4 DEF InStep
  <2>2. back.pc[1] = vs[p].pc[1]
    BY <1>4
  <2>3. vs[p].pc[1] = VP!Main => back.pc[2] = due'[p]
    <3>1. back.pc[2] \in Nat
      <4>1. back \in States
        BY ResumedState
      <4> HIDE DEF back
      <4> QED BY <4>1, AfterState
    <3>2. due[p] \in Nat /\ due'[p] \in Nat
      BY VirtualType
    <3>3. vs[p].pc[1] = VP!Main => vs[p].pc[2] = due[p] /\ back.pc[2] + due[p] = vs[p].pc[2] + due'[p]
      BY <1>4, <2>1 DEF Chain, InSync
    <3> HIDE DEF back
    <3> QED BY <3>1, <3>2, <3>3
  <2>4. Back(p, t)' = back
    BY <1>2 DEF Back, VP!Resumed
  <2>5. \A e \in VectorTypes : e # t => Back(p, e)' = Back(p, e)
    BY <1>2 DEF Back, VP!Resumed
  <2> HIDE DEF back
  <2>6. CASE vs[p].pc[1] = VP!Main
    <3>1. Chain(p, {VP!Main, t})'
      BY <1>1, <2>2, <2>3, <2>4, <2>6 DEF Chain, InSync
    <3> QED BY <3>1 DEF InStep
  <2>7. CASE vs[p].pc[1] # VP!Main
    <3>1. due'[p] = due[p]
      BY <1>4, <2>7
    <3>2. Chain(p, S \cup {t})'
      BY <1>1, <1>2, <2>1, <2>2, <2>4, <2>5, <2>7, <3>1 DEF Chain, InSync
    <3> QED BY <3>2 DEF InStep
  <2> QED BY <2>6, <2>7
<1> QED BY <1>3, <1>4

\* The end of a handler: it returns along the chain, or begins anew.
LEMMA ReturnInStep ==
  ASSUME ProcessorInv, NEW p \in Proc, InStep(p),
         NEW t \in VectorTypes, VP!Return(p, t), due'[p] = due[p]
  PROVE  InStep(p)'
<1>1. PICK S \in SUBSET ({VP!Main} \cup VectorTypes) : Chain(p, S)
  BY DEF InStep
<1>2. /\ vs[p].pc[1] = t /\ area' = area
      /\ vs'[p] = IF area[p][t].cause = "nucleus" THEN VP!NewArea(t) ELSE Back(p, t)
  BY DEF VP!Return, VP!Become, vs, Back
<1>3. t \in S \ {VP!Main}
  BY <1>1, <1>2, MainIs DEF Chain
<1>4. \A e : Back(p, e)' = Back(p, e)
  BY <1>2 DEF Back, VP!Resumed
<1>5. vs'[p].pc[1] \in S /\ (vs'[p].pc[1] = VP!Main => vs'[p].pc[2] = due[p])
  <2>1. CASE area[p][t].cause = "nucleus"
    BY <1>2, <1>3, <2>1 DEF VP!NewArea
  <2>2. CASE area[p][t].cause # "nucleus"
    BY <1>1, <1>2, <1>3, <2>2 DEF Chain, InSync
  <2> QED BY <2>1, <2>2
<1>6. Chain(p, S)'
  BY <1>1, <1>2, <1>4, <1>5 DEF Chain, InSync
<1> QED BY <1>6 DEF InStep

LEMMA LedgerStep ==
  ASSUME ProcessorInv, ProcessorInv', Ledger, Virtual
  PROVE  Ledger'
<1>1. ASSUME NEW p \in Proc, VP!NucleusTrap(p) PROVE InStep(p)'
  <2>1. /\ "PROGTRAP" \in VectorTypes /\ vs'[p] = VP!NewArea("PROGTRAP")
        /\ area'[p] = [area[p] EXCEPT !["PROGTRAP"] = [s |-> VP!Birth, cause |-> "nucleus"]]
    BY <1>1, VirtualType DEF VP!NucleusTrap, VP!PassedUp, VP!Become, vs, ProcessorInv, StateInv
  <2>2. due' \in [Proc -> Nat]
    BY DEF ProcessorInv, StateInv
  <2> QED BY <2>1, <2>2, FirstStates, HandlerInStep
<1>2. ASSUME NEW q \in Proc, vs'[q] = vs[q], area'[q] = area[q], due'[q] = due[q],
             vs'[q] # Dead, ~Exempt(q)'
      PROVE  InStep(q)'
  BY <1>1, <1>2, OthersInStep DEF Ledger, Virtual
<1>3. ASSUME NEW p \in Proc, InStep(p)' \/ vs'[p] = Dead,
             \A q \in Proc \ {p} : vs'[q] = vs[q] /\ area'[q] = area[q] /\ due'[q] = due[q]
      PROVE  Ledger'
  BY <1>2, <1>3 DEF Ledger
<1>4. ASSUME NEW p \in Proc, ~Exempt(p), Instruction(p) PROVE Ledger'
  <2>1. InStep(p) /\ vs[p] \in States /\ area' = area
    BY <1>4, VirtualType DEF Ledger, Instruction, VP!Compute, VP!Call, VP!WaitIO,
                             VP!SpecVector, VP!Calls, VP!Executes
  <2>2. /\ VP!Following(p) \in States /\ VP!Following(p).pc = VP!After(vs[p].pc)
        /\ vs[p].user \in BOOLEAN /\ vs[p].v0 \in Int
    <3>1. VP!Following(p).pc = VP!After(vs[p].pc)
      BY <2>1 DEF VP!Following, States
    <3> QED BY <2>1, <3>1, AfterState, SameFields DEF VP!Following
  <2>3. PICK s \in States : s.pc = VP!After(vs[p].pc) /\ vs' = [vs EXCEPT ![p] = s]
    <3>1. CASE VP!Compute(p)
      BY <2>2, <3>1, SetUser DEF VP!Compute, VP!Become
    <3>2. CASE VP!Call(p)
      <4>1. PICK r \in {VP!Answer, vs[p].v0} : vs' = [vs EXCEPT ![p] = [VP!Following(p) EXCEPT !.v0 = r]]
        BY <3>2 DEF VP!Call, VP!Become
      <4>2. r \in Int
        BY <2>2 DEF VP!Answer
      <4> QED BY <2>2, <4>1, <4>2, SetV0
    <3>3. CASE VP!WaitIO(p) \/ \E t \in VectorTypes : VP!SpecVector(p, t)
      BY <2>2, <3>3 DEF VP!WaitIO, VP!SpecVector, VP!Become
    <3> QED BY <1>4, <3>1, <3>2, <3>3 DEF Instruction
  <2>4. /\ vs'[p] = s /\ \A q \in Proc \ {p} : vs'[q] = vs[q]
        /\ s # Dead /\ vs[p] # Dead
    BY <2>1, <2>3, StateAssumption DEF vs
  <2>5. /\ due'[p] = IF vs[p].pc[1] = VP!Main THEN due[p] + 1 ELSE due[p]
        /\ \A q \in Proc \ {p} : due'[q] = due[q]
    BY <1>4 DEF Instruction, Counts, ProcessorInv, StateInv
  <2>6. InStep(p)'
    BY <2>1, <2>3, <2>4, <2>5, NextInStep
  <2> QED BY <1>3, <2>1, <2>4, <2>5, <2>6
<1>5. ASSUME NEW p \in Proc, ~Exempt(p), Births(p) PROVE Ledger'
  <2>1. PICK c \in Proc :
          /\ VP!Create(p, c)
          /\ due' = [due EXCEPT ![p] = IF vs[p].pc[1] = VP!Main THEN @ + 1 ELSE @, ![c] = 0]
    BY <1>5 DEF Births
  <2>2. InStep(p) /\ vs[p] \in States /\ vs[p] # Dead /\ c # p
    BY <1>5, <2>1, VirtualType DEF Ledger, VP!Create, VP!Calls, VP!Executes
  <2>3. /\ vs'[c] = VP!Birth /\ area'[c] = [t \in VectorTypes |-> VP!Blank] /\ due'[c] = 0
        /\ vs'[p] = [VP!Following(p) EXCEPT !.v0 = 0] /\ area'[p] = area[p]
        /\ due'[p] = IF vs[p].pc[1] = VP!Main THEN due[p] + 1 ELSE due[p]
        /\ \A q \in Proc \ {p, c} : vs'[q] = vs[q] /\ area'[q] = area[q] /\ due'[q] = due[q]
    BY <2>1, <2>2 DEF VP!Create, vs, ProcessorInv, StateInv
  <2>4. InStep(p)'
    <3>1. VP!Following(p) \in States /\ VP!Following(p).pc = VP!After(vs[p].pc)
      <4>1. VP!Following(p).pc = VP!After(vs[p].pc)
        BY <2>2 DEF VP!Following, States
      <4> QED BY <2>2, <4>1, AfterState DEF VP!Following
    <3>2. vs'[p] \in States /\ vs'[p].pc = VP!After(vs[p].pc)
      BY <2>3, <3>1, SetV0
    <3>3. vs'[p] # Dead
      BY <3>2, StateAssumption
    <3> QED BY <2>2, <2>3, <3>2, <3>3, NextInStep
  <2>5. InStep(c)'
    <3>1. Chain(c, {VP!Main})'
      BY <2>3 DEF Chain, InSync, VP!Birth, VP!Main
    <3> QED BY <3>1 DEF InStep
  <2> QED BY <1>2, <2>3, <2>4, <2>5 DEF Ledger
<1>6. ASSUME NEW p \in Proc, ~Exempt(p), Excepts(p) PROVE Ledger'
  <2>1. InStep(p) /\ vs[p] \in States
    BY <1>6, VirtualType DEF Ledger, Excepts, VP!Executes
  <2> DEFINE after == VP!Following(p)
             Grows(n) == due' = IF vs[p].pc[1] = VP!Main THEN [due EXCEPT ![p] = @ + n] ELSE due
  <2>2. /\ after \in States /\ after.pc[1] = vs[p].pc[1] /\ after.pc[2] = vs[p].pc[2] + 1
        /\ vs[p].pc[2] \in Nat
    BY <2>1, AfterState DEF VP!Following
  <2>3. PICK t, s, cause, n :
          /\ VP!PassedUp(p, t, s, cause) /\ Grows(n)
          /\ \/ s = vs[p] /\ n = 0 /\ t # "SYSTRAP"
             \/ s = after /\ n = 1 + Advance /\ t = "SYSTRAP"
             \/ s = after /\ n = 1 /\ t # "SYSTRAP"
    <3>1. UNCHANGED due => Grows(0)
      <4>1. due \in [Proc -> Nat]
        BY DEF ProcessorInv, StateInv
      <4>2. [due EXCEPT ![p] = @ + 0] = due
        BY <4>1
      <4> QED BY <4>2
    <3>2. \A n : Counts(p, n) => Grows(n)
      BY DEF Counts
    <3> HIDE DEF Grows
    <3> QED BY <1>6, <3>1, <3>2 DEF Excepts
  <2>4. s \in States /\ due' \in [Proc -> Nat]
    BY <2>1, <2>2, <2>3 DEF ProcessorInv, StateInv
  <2>5. /\ t \in VectorTypes /\ vs'[p] = VP!NewArea(t)
        /\ area'[p] = [area[p] EXCEPT ![t] = [s |-> s, cause |-> cause]]
        /\ \A q \in Proc \ {p} : vs'[q] = vs[q] /\ area'[q] = area[q]
    BY <2>3, VirtualType DEF VP!PassedUp, VP!Become, vs, ProcessorInv, StateInv
  <2>6. /\ due'[p] = IF vs[p].pc[1] = VP!Main THEN due[p] + n ELSE due[p]
        /\ \A q \in Proc \ {p} : due'[q] = due[q]
    BY <2>3 DEF ProcessorInv, StateInv
  <2> HIDE DEF after, Grows
  <2>7. /\ VP!Resumed(t, s).pc[1] = s.pc[1]
        /\ VP!Resumed(t, s).pc[2] = s.pc[2] + IF t = "SYSTRAP" THEN Advance ELSE 0
    BY <2>4, ResumedState
  <2>8. VP!Resumed(t, s).pc[1] = vs[p].pc[1] /\ VP!Resumed(t, s).pc[2] = vs[p].pc[2] + n
    <3>1. Advance \in Nat
      BY StateAssumption
    <3> QED BY <2>2, <2>3, <2>7, <3>1
  <2>9. vs[p].pc[1] = VP!Main => VP!Resumed(t, s).pc[2] + due[p] = vs[p].pc[2] + due'[p]
    <3>1. n \in Nat /\ due[p] \in Nat
      BY <2>3, StateAssumption DEF ProcessorInv, StateInv
    <3> QED BY <2>2, <2>6, <2>8, <3>1
  <2>10. InStep(p)'
    BY <2>1, <2>4, <2>5, <2>6, <2>8, <2>9, HandlerInStep
  <2> QED BY <1>3, <2>5, <2>6, <2>10
<1>7. ASSUME NEW p \in Proc, ~Exempt(p), Returns(p) PROVE Ledger'
  <2>1. PICK t \in VectorTypes : VP!Return(p, t) /\ due' = due
    BY <1>7 DEF Returns
  <2>2. InStep(p)
    BY <1>7, <2>1 DEF Ledger, VP!Return, VP!Calls, VP!Executes
  <2>3. InStep(p)'
    BY <2>1, <2>2, ReturnInStep
  <2>4. area' = area /\ \A q \in Proc \ {p} : vs'[q] = vs[q]
    BY <2>1 DEF VP!Return, VP!Become, vs
  <2> QED BY <1>3, <2>1, <2>3, <2>4
<1>8. ASSUME NEW p \in Proc, Affected(p) PROVE Ledger'
  <2>1. CASE VP!Answered(p)
    <3>1. vs[p] \in States /\ vs[p] # Dead
      BY <2>1, VirtualType DEF VP!Answered
    <3>2. /\ vs'[p] = [vs[p] EXCEPT !.v0 = VP!Answer] /\ area' = area /\ due' = due
          /\ \A q \in Proc \ {p} : vs'[q] = vs[q]
      BY <1>8, <2>1 DEF Affected, VP!Answered, VP!Become, vs
    <3>3. vs'[p].pc = vs[p].pc
      BY <3>1, <3>2, SetV0 DEF VP!Answer
    <3>4. ~Exempt(p)' => InStep(p)'
      <4>1. ~Exempt(p)' => ~Exempt(p) \/ VP!NucleusTrap(p)
        BY <3>1, <3>2, <3>3, SetV0, StateAssumption DEF Virtual, VP!Answer
      <4>2. InStep(p) => InStep(p)'
        BY <3>2, <3>3 DEF InStep, Chain, InSync, Back
      <4> QED BY <1>1, <3>1, <4>1, <4>2 DEF Ledger
    <3> QED BY <1>2, <3>2, <3>4 DEF Ledger
  <2>2. CASE VP!Die(p)
    <3>1. /\ vs'[p] = Dead /\ area' = area /\ due' = due
          /\ \A q \in Proc \ {p} : vs'[q] = vs[q]
      BY <1>8, <2>2 DEF Affected, VP!Die, VP!Become, vs
    <3> QED BY <1>3, <3>1
  <2>3. CASE VP!NucleusTrap(p)
    <3>1. \A q \in Proc \ {p} : vs'[q] = vs[q] /\ area'[q] = area[q] /\ due'[q] = due[q]
      BY <1>8, <2>3 DEF Affected, VP!NucleusTrap, VP!PassedUp, VP!Become, vs, ProcessorInv, StateInv
    <3> QED BY <1>1, <1>3, <2>3, <3>1
  <2> QED BY <1>8, <2>1, <2>2, <2>3 DEF Affected
<1>9. CASE Unseen
  BY <1>2, <1>9 DEF Unseen, Ledger
<1> QED BY <1>4, <1>5, <1>6, <1>7, <1>8, <1>9 DEF Virtual

LEMMA LedgerInit ==
  ASSUME SInit
  PROVE  Ledger
<1>1. ASSUME NEW p \in Proc, vs[p] # Dead PROVE Chain(p, {VP!Main})
  <2>1. vs[p] = VP!Birth /\ due[p] = 0
    BY <1>1, Seen DEF SInit
  <2> QED BY <2>1 DEF Chain, InSync, VP!Birth, VP!Main
<1> QED BY <1>1 DEF Ledger, InStep

\* A program executes its instructions in order, each once, whatever comes
\* between; `Advance` of them are skipped after each system call passed up.
THEOREM InstructionsInOrder == SSpec => []InSequence
<1>1. SInit => ProcessorInv /\ Ledger
  BY ProcessorInit, LedgerInit
<1>2. ProcessorInv /\ Ledger /\ [SNext]_svars => ProcessorInv' /\ Ledger'
  BY ProcessorStep, VirtualStep, LedgerStep
<1>3. ProcessorInv /\ Ledger => InSequence
  <2> SUFFICES ASSUME ProcessorInv, Ledger, mode = "run", cpu.pc[1] = VP!Main
               PROVE  cpu.pc[2] = due[curProc]
    BY DEF InSequence
  <2>1. curProc \in Proc /\ vs[curProc] = cpu /\ vs[curProc] # Dead
    BY RunsNow, Running
  <2>2. InStep(curProc)
    BY <2>1 DEF Ledger, Exempt
  <2> QED BY <2>1, <2>2 DEF InStep, Chain, InSync, Back
<1> QED BY <1>1, <1>2, <1>3, PTL DEF SSpec
=============================================================================
