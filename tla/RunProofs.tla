------------------------------ MODULE RunProofs ------------------------------
(***************************************************************************)
(* The nucleus with what runs it.  First the local timer: what bounds the  *)
(* time a process keeps the processor, for any quantum, interval and       *)
(* durations of the handlers.  Then the test program: it only does to the  *)
(* nucleus what the nucleus module allows, its print is a critical         *)
(* section, and the terminal serves one process at a time, for any number  *)
(* of PCBs, any length of the messages and any order of events.            *)
(***************************************************************************)
EXTENDS TimedNucleus, P2Test, NucleusProofs
-----------------------------------------------------------------------------
(***************************************************************************)
(* The local timer.  While a process runs it holds at most what is left of *)
(* the quantum; while the processor waits it stays above the interval      *)
(* timer, which therefore ends the wait first.                             *)
(***************************************************************************)
Busy == mode \in {"run", "kill"}

TimeType == {timer, interval, since, ranFor, cuts} \subseteq Nat

\* Each interrupt that returned was worth a quantum; the last one still runs.
QuotaLeft ==
  /\ cuts <= MaxCuts
  /\ QuantumBound
  /\ Busy /\ cuts < MaxCuts => timer + ranFor <= QUANTUMTIME * (cuts + 1)

TimeInv ==
  /\ TimeType
  /\ Busy => timer + since <= QUANTUMTIME
  /\ interval <= INTERVALTIME
  /\ mode = "wait" => interval < timer
  /\ QuotaLeft

LEMMA TimeSizes ==
  /\ QUANTUMTIME \in Nat /\ MAXINT \in Nat /\ MaxCuts \in Nat
  /\ INTERVALTIME \in Nat /\ INTERVALTIME < MAXINT
  BY TimeAssumption

LEMMA TimeFacts ==
  /\ QUANTUMTIME \in Nat /\ MAXINT \in Nat /\ INTERVALTIME \in Nat
  /\ MaxCuts \in Nat
  /\ HandlerTimes \subseteq Nat
  /\ \A n \in Nat : /\ QUANTUMTIME * (n + 1) \in Nat
                    /\ QUANTUMTIME * (n + 2) = QUANTUMTIME * (n + 1) + QUANTUMTIME
                    /\ QUANTUMTIME <= QUANTUMTIME * (n + 1)
<1>1. /\ QUANTUMTIME \in Nat /\ MAXINT \in Nat /\ INTERVALTIME \in Nat
      /\ MaxCuts \in Nat
      /\ HandlerTimes \subseteq Nat
  BY TimeAssumption
<1>2. ASSUME NEW n \in Nat
      PROVE  /\ QUANTUMTIME * (n + 1) \in Nat
             /\ QUANTUMTIME * (n + 2) = QUANTUMTIME * (n + 1) + QUANTUMTIME
             /\ QUANTUMTIME <= QUANTUMTIME * (n + 1)
  <2>1. QUANTUMTIME * n \in Nat
    BY <1>1
  <2>2. QUANTUMTIME * (n + 1) = QUANTUMTIME * n + QUANTUMTIME
    BY <1>1
  <2>3. QUANTUMTIME * (n + 2) = QUANTUMTIME * n + QUANTUMTIME + QUANTUMTIME
    BY <1>1
  <2> QED  BY <1>1, <2>1, <2>2, <2>3
<1> QED  BY <1>1, <1>2

LEMMA AfterNat ==
  ASSUME NEW h \in Nat, NEW n \in Nat
  PROVE  After(h, n) \in Nat /\ After(h, n) <= n
  BY DEF After

LEMMA AddZero == \A n \in Nat : n + 0 = n
  OBVIOUS
-----------------------------------------------------------------------------
(***************************************************************************)
(* What the ways of leaving a handler do to the timer.                     *)
(***************************************************************************)
LEMMA ReloadKeeps ==
  ASSUME TimeInv, Busy, mode' # "wait", NEW h \in Nat, Reload(h),
         interval' \in 0..INTERVALTIME
  PROVE  TimeInv'
<1>1. /\ timer' \in Nat /\ timer' <= timer /\ since' = 0
      /\ ranFor' = ranFor /\ cuts' = cuts
  BY AfterNat DEF Reload, TimeInv, TimeType
<1>2. TimeType' /\ interval' <= INTERVALTIME
  BY <1>1, TimeSizes DEF TimeInv, TimeType
<1>3. timer' + since' <= QUANTUMTIME
  <2>1. timer + since <= QUANTUMTIME
    BY DEF TimeInv
  <2>2. timer \in Nat /\ since \in Nat
    BY DEF TimeInv, TimeType
  <2>3. timer' + since' = timer'
    <3>1. timer' + since' = timer' + 0
      BY <1>1, Zenon
    <3> QED  BY <1>1, <3>1, AddZero, Zenon
  <2>4. timer' <= QUANTUMTIME
    BY <1>1, <2>1, <2>2, TimeSizes
  <2> QED  BY <2>3, <2>4
<1>4. QuotaLeft'
  <2>1. cuts < MaxCuts => timer + ranFor <= QUANTUMTIME * (cuts + 1)
    BY DEF TimeInv, QuotaLeft
  <2>2. cuts < MaxCuts => timer' + ranFor <= QUANTUMTIME * (cuts + 1)
    BY <1>1, <2>1, TimeFacts DEF TimeInv, TimeType
  <2> QED  BY <1>1, <2>2 DEF TimeInv, QuotaLeft, QuantumBound
<1> QED  BY <1>2, <1>3, <1>4 DEF TimeInv

LEMMA ScheduleKeeps ==
  ASSUME TimeInv, Schedule, interval' \in 0..INTERVALTIME,
         mode' = "kill" => Busy
  PROVE  TimeInv'
<1>1. since' = 0 /\ ranFor' = 0 /\ cuts' = 0
  BY DEF Schedule
<1>2. /\ timer' \in Nat
      /\ mode' = "wait" => timer' = MAXINT
      /\ Busy' => timer' <= QUANTUMTIME
  <2>1. CASE mode' = "run"
    BY <2>1, TimeFacts DEF Schedule, TimerFor
  <2>2. CASE mode' = "wait"
    BY <2>2, TimeFacts DEF Schedule, TimerFor, Busy
  <2>3. CASE mode' \notin {"run", "wait"}
    <3>1. timer' = timer
      BY <2>3 DEF Schedule, TimerFor
    <3> QED  BY <2>3, <3>1, TimeFacts DEF Busy, TimeInv, TimeType
  <2> QED  BY <2>1, <2>2, <2>3
<1>3. /\ TimeType' /\ interval' <= INTERVALTIME
      /\ mode' = "wait" => interval' < timer'
  BY <1>1, <1>2, TimeSizes DEF TimeType
<1>4. QuotaLeft'
  <2>1. QUANTUMTIME <= QUANTUMTIME * (0 + 1)
    BY TimeFacts
  <2>2. 0 <= QUANTUMTIME * (0 + 1)
    BY TimeFacts
  <2>3. Busy' => timer' + 0 <= QUANTUMTIME * (0 + 1)
    <3>1. QUANTUMTIME * (0 + 1) = QUANTUMTIME
      <4>1. QUANTUMTIME * 1 = QUANTUMTIME
        BY TimeSizes
      <4>2. 0 + 1 = 1
        OBVIOUS
      <4> QED  BY <4>1, <4>2, Zenon
    <3>2. timer' + 0 = timer'
      BY <1>2, AddZero, Zenon
    <3> QED  BY <1>2, <3>1, <3>2
  <2> QED  BY <1>1, <2>2, <2>3, TimeFacts DEF QuotaLeft, QuantumBound
<1> QED  BY <1>1, <1>2, <1>3, <1>4 DEF TimeInv

\* An interrupt that returns gives the process at most a quantum more.
LEMMA ReturnKeeps ==
  ASSUME TimeInv, mode = "run", mode' # "wait", interval' \in 0..INTERVALTIME,
         timer' = TimeLeft, since' = 0, cuts' = Count(cuts, MaxCuts),
         ranFor' = ranFor
  PROVE  TimeInv'
<1>0. Busy
  BY DEF Busy
<1>1. timer' \in Nat /\ timer' <= QUANTUMTIME
  BY <1>0, TimeFacts DEF TimeLeft, TimeInv, TimeType
<1>2. cuts' \in Nat /\ cuts' <= MaxCuts
  BY TimeFacts DEF Count, TimeInv, TimeType, QuotaLeft
<1>3. TimeType' /\ interval' <= INTERVALTIME
  BY <1>1, <1>2, TimeSizes DEF TimeInv, TimeType
<1>4. ranFor <= QUANTUMTIME * (cuts + 1)
  BY DEF TimeInv, QuotaLeft, QuantumBound
<1>5. CASE cuts < MaxCuts
  <2>1. cuts' = cuts + 1
    BY <1>5 DEF Count
  <2>2. QUANTUMTIME * (cuts' + 1) = QUANTUMTIME * (cuts + 1) + QUANTUMTIME
    BY <2>1, TimeFacts DEF TimeInv, TimeType
  <2>3. timer' + ranFor <= QUANTUMTIME * (cuts' + 1)
        /\ ranFor <= QUANTUMTIME * (cuts' + 1)
    BY <1>1, <1>4, <2>2, TimeFacts DEF TimeInv, TimeType
  <2> QED  BY <1>1, <1>2, <1>3, <2>3, TimeFacts
           DEF TimeInv, QuotaLeft, QuantumBound
<1>6. CASE ~(cuts < MaxCuts)
  <2>1. cuts' = cuts /\ ~(cuts' < MaxCuts)
    BY <1>6 DEF Count
  <2> QED  BY <1>1, <1>2, <1>3, <1>4, <2>1, TimeFacts
           DEF TimeInv, QuotaLeft, QuantumBound
<1> QED  BY <1>5, <1>6

LEMMA TickKeeps ==
  ASSUME TimeInv, Tick
  PROVE  TimeInv'
<1>1. /\ timer # 0 /\ interval # 0 /\ mode' = mode /\ cuts' = cuts
      /\ interval' = interval - 1 /\ timer' = timer - 1
      /\ mode \in {"run", "wait"}
  BY DEF Tick, Pending, vars
<1>2. /\ interval' \in Nat /\ interval' <= INTERVALTIME /\ timer' \in Nat
      /\ mode' = "wait" => interval' < timer'
  BY <1>1, TimeSizes DEF TimeInv, TimeType
<1>3. CASE mode # "run"
  <2>1. UNCHANGED <<since, ranFor>> /\ ~Busy'
    BY <1>1, <1>3 DEF Tick, Busy
  <2>2. TimeType'
    BY <1>1, <1>2, <2>1 DEF TimeInv, TimeType
  <2>3. QuotaLeft'
    BY <1>1, <2>1 DEF TimeInv, QuotaLeft, QuantumBound
  <2> QED  BY <1>1, <1>2, <2>1, <2>2, <2>3 DEF TimeInv
<1>4. CASE mode = "run"
  <2>1. /\ timer' = timer - 1 /\ since' = since + 1
        /\ ranFor' = Count(ranFor, QUANTUMTIME * (MaxCuts + 1))
    BY <1>4 DEF Tick
  <2>2. timer' \in Nat /\ since' \in Nat /\ timer' + since' = timer + since
    BY <1>1, <2>1 DEF TimeInv, TimeType
  <2>3. /\ ranFor' \in Nat /\ ranFor' <= ranFor + 1
        /\ ranFor' <= QUANTUMTIME * (MaxCuts + 1) \/ ranFor' = ranFor
    BY <2>1, TimeFacts DEF Count, TimeInv, TimeType
  <2>4. timer + since <= QUANTUMTIME
    BY <1>4 DEF TimeInv, Busy
  <2>5. QuotaLeft'
    <3>1. CASE cuts < MaxCuts
      <4>1. timer + ranFor <= QUANTUMTIME * (cuts + 1)
        BY <1>4, <3>1 DEF TimeInv, QuotaLeft, Busy
      <4>2. /\ timer' + ranFor' <= QUANTUMTIME * (cuts + 1)
            /\ ranFor' <= QUANTUMTIME * (cuts + 1)
        BY <2>1, <2>2, <2>3, <4>1, TimeFacts DEF TimeInv, TimeType
      <4> QED  BY <1>1, <3>1, <4>2 DEF TimeInv, QuotaLeft, QuantumBound
    <3>2. CASE ~(cuts < MaxCuts)
      <4>1. cuts = MaxCuts
        BY <3>2, TimeFacts DEF TimeInv, TimeType, QuotaLeft
      <4>2. ranFor' <= QUANTUMTIME * (cuts + 1)
        BY <2>3, <4>1 DEF TimeInv, QuotaLeft, QuantumBound
      <4> QED  BY <1>1, <3>2, <4>2 DEF TimeInv, QuotaLeft, QuantumBound
    <3> QED  BY <3>1, <3>2
  <2>6. TimeType'
    BY <1>1, <1>2, <2>2, <2>3 DEF TimeInv, TimeType
  <2>7. timer' + since' <= QUANTUMTIME
    BY <2>2, <2>4
  <2>8. mode' # "wait" /\ interval' <= INTERVALTIME
    BY <1>1, <1>2, <1>4
  <2> QED  BY <2>5, <2>6, <2>7, <2>8 DEF TimeInv
<1> QED  BY <1>3, <1>4
-----------------------------------------------------------------------------
(***************************************************************************)
(* Where the actions of Nucleus leave the processor.                       *)
(***************************************************************************)
LEMMA NextVictimMode ==
  ASSUME NEW r, NEW n, NEW k, NEW w, NextVictim(r, n, k, w)
  PROVE  mode' # "kill"
  BY DEF NextVictim, Verdict

LEMMA CallMode ==
  ASSUME SystemCall \/ \E t \in TrapTypes : Exception(t)
  PROVE  mode = "run"
  BY DEF SystemCall, CreateProcess, CreateRefused, Terminate, WaitClock,
         Verhogen, Passeren, SpecTrap, WaitIO, Exception

LEMMA KillMode ==
  ASSUME Kill
  PROVE  /\ mode = "kill"
         /\ noose # <<>> => mode' # "wait"
<1>1. CASE KillChild \/ ReapReady \/ ReapBlocked \/ ReapRunning
  BY <1>1 DEF KillChild, ReapReady, ReapBlocked, ReapRunning, Reap, Childless,
              cpuVars
<1>2. CASE ReapNeverBlocked
  BY <1>2 DEF ReapNeverBlocked, InnocentOrNoose, TerminateProcess, Childless
<1>3. CASE Terminated
  BY <1>3 DEF Terminated
<1> QED  BY <1>1, <1>2, <1>3 DEF Kill

\* An interrupt returns to the process it interrupted, or there was none, or
\* the nucleus has trapped.
LEMMA InterruptMode ==
  ASSUME TypeInv, IdleInv,
         IntervalTimer \/ \E d \in Devices : DeviceInterrupt(d)
  PROVE  /\ curProc # NoProc => mode = "run" /\ mode' # "wait"
         /\ curProc = NoProc => mode' # "kill"
<1>1. Interruptible
  BY DEF IntervalTimer, DeviceInterrupt
<1>2. curProc # NoProc => mode = "run" /\ ~waiting
  BY <1>1 DEF IdleInv, Interruptible
<1>3. ASSUME NEW r, NEW k, ReturnFromInterrupt(r, k)
      PROVE  /\ curProc # NoProc => mode' # "wait"
             /\ curProc = NoProc => mode' # "kill"
  <2>1. CASE curProc # NoProc
    BY <1>2, <1>3, <2>1 DEF ReturnFromInterrupt
  <2>2. CASE curProc = NoProc
    BY <1>3, <2>2, NextVictimMode DEF ReturnFromInterrupt
  <2> QED  BY <2>1, <2>2
<1>4. ASSUME NEW t, InnocentOrNoose(t)
      PROVE  /\ mode' # "wait"
             /\ curProc = NoProc => mode' # "kill"
  BY <1>4 DEF InnocentOrNoose, TerminateProcess
<1>5. CASE IntervalTimer
  <2>1. \E r, k : ReturnFromInterrupt(r, k)
    BY <1>5 DEF IntervalTimer
  <2> QED  BY <1>2, <1>3, <2>1
<1>6. ASSUME NEW d \in Devices, DeviceInterrupt(d)
      PROVE  (\E r, k : ReturnFromInterrupt(r, k)) \/ InnocentOrNoose("PROGTRAP")
  <2>1. CASE ~Releases(sem'[d])
    BY <1>6, <2>1 DEF DeviceInterrupt
  <2>2. CASE Releases(sem'[d])
    BY <1>6, <2>2 DEF DeviceInterrupt
  <2> QED  BY <2>1, <2>2
<1> QED  BY <1>2, <1>3, <1>4, <1>5, <1>6
-----------------------------------------------------------------------------
LEMMA ReturnStep ==
  ASSUME TimeInv, TypeInv, IdleInv, interval' \in 0..INTERVALTIME,
         NEW h \in Nat, Return(h),
         IntervalTimer \/ \E d \in Devices : DeviceInterrupt(d)
  PROVE  TimeInv'
<1>1. CASE curProc # NoProc /\ strayV' = strayV
  <2>1. /\ timer' = TimeLeft /\ since' = 0 /\ cuts' = Count(cuts, MaxCuts)
        /\ ranFor' = ranFor
    BY <1>1 DEF Return
  <2> QED  BY <1>1, <2>1, InterruptMode, ReturnKeeps
<1>2. CASE curProc # NoProc /\ strayV' # strayV
  <2>1. Reload(h)
    BY <1>2 DEF Return
  <2>2. Busy /\ mode' # "wait"
    BY <1>2, InterruptMode DEF Busy
  <2> QED  BY <2>1, <2>2, ReloadKeeps
<1>3. CASE curProc = NoProc
  <2>1. Schedule
    BY <1>3 DEF Return
  <2> QED  BY <1>3, <2>1, InterruptMode, ScheduleKeeps
<1> QED  BY <1>1, <1>2, <1>3

\* The interval timer is above 0 and below the local timer in WAIT.
LEMMA IdleQuantum ==
  ASSUME TimeInv, timer = 0
  PROVE  mode # "wait"
  BY DEF TimeInv, TimeType

LEMMA HandleStep ==
  ASSUME TimeInv, TypeInv, IdleInv, NEW h \in HandlerTimes, Handle(h)
  PROVE  TimeInv'
<1>1. h \in Nat
  BY TimeFacts
<1>2. Elapse(h) => interval' \in 0..INTERVALTIME
  BY <1>1, AfterNat, TimeSizes DEF Elapse, TimeInv, TimeType
<1>3. CASE Call(h)
  <2>1. mode = "run" /\ Busy
    BY <1>3, CallMode DEF Call, Busy
  <2>2. interval' \in 0..INTERVALTIME
    BY <1>2, <1>3 DEF Call
  <2>3. CASE mode' \in {"run", "kill"} /\ curProc' = curProc
    <3>1. Reload(h)
      BY <1>3, <2>3 DEF Call
    <3> QED  BY <1>1, <2>1, <2>2, <2>3, <3>1, ReloadKeeps
  <2>4. CASE ~(mode' \in {"run", "kill"} /\ curProc' = curProc)
    <3>1. Schedule
      BY <1>3, <2>4 DEF Call
    <3> QED  BY <2>1, <2>2, <3>1, ScheduleKeeps
  <2> QED  BY <2>3, <2>4
<1>4. CASE KillStep(h)
  <2>1. Kill /\ mode = "kill" /\ Busy
    BY <1>4, KillMode DEF KillStep, Busy
  <2>2. CASE mode' = "kill" /\ UNCHANGED timeVars
    BY <2>1, <2>2 DEF timeVars, TimeInv, TimeType, QuotaLeft, QuantumBound, Busy
  <2>3. CASE noose = <<>> /\ Schedule /\ Elapse(h)
    BY <1>2, <2>1, <2>3, ScheduleKeeps
  <2>4. CASE noose # <<>> /\ mode' # "kill" /\ Reload(h) /\ Elapse(h)
    BY <1>1, <1>2, <2>1, <2>4, KillMode, ReloadKeeps
  <2> QED  BY <1>4, <2>2, <2>3, <2>4 DEF KillStep
<1>5. CASE QuantumEnd(h)
  <2>1. mode = "run" /\ LocalTimer /\ Schedule
    BY <1>5, IdleQuantum DEF QuantumEnd, Interruptible
  <2>2. mode' # "kill" /\ interval' \in 0..INTERVALTIME
    BY <1>2, <1>5, <2>1, NextVictimMode DEF QuantumEnd, LocalTimer
  <2> QED  BY <2>1, <2>2, ScheduleKeeps
<1>6. CASE IOInterrupt(h)
  <2>1. Return(h) /\ Elapse(h) /\ \E d \in Devices : DeviceInterrupt(d)
    BY <1>6 DEF IOInterrupt
  <2> QED  BY <1>1, <1>2, <2>1, ReturnStep
<1> QED  BY <1>3, <1>4, <1>5, <1>6 DEF Handle

LEMMA TimeStep ==
  ASSUME TimeInv, TypeInv, IdleInv, [TNext]_tvars
  PROVE  TimeInv'
<1>1. CASE Tick
  BY <1>1, TickKeeps
<1>2. ASSUME UNCHANGED mode, UNCHANGED timeVars
      PROVE  TimeInv'
  BY <1>2 DEF timeVars, TimeInv, TimeType, QuotaLeft, QuantumBound, Busy
<1>3. CASE Store \/ Done \/ TimeStops
  <2>1. UNCHANGED mode /\ UNCHANGED timeVars
    BY <1>3 DEF Store, Done, TimeStops, StartIO, DeviceDone, StayStopped, vars
  <2> QED  BY <1>2, <2>1
<1>4. CASE ClockTick
  <2>1. interval' \in 0..INTERVALTIME /\ IntervalTimer /\ Return(0)
    BY <1>4, TimeFacts DEF ClockTick
  <2> QED  BY <2>1, ReturnStep
<1>5. ASSUME NEW h \in HandlerTimes, Handle(h)  PROVE  TimeInv'
  BY <1>5, HandleStep
<1>6. CASE UNCHANGED tvars
  <2>1. UNCHANGED mode /\ UNCHANGED timeVars
    BY <1>6 DEF tvars, vars
  <2> QED  BY <1>2, <2>1
<1> QED  BY <1>1, <1>3, <1>4, <1>5, <1>6 DEF TNext

\* As the local timer never runs down in WAIT, every step is the nucleus's.
LEMMA TimedIsNucleus ==
  ASSUME TimeInv, [TNext]_tvars
  PROVE  [Next]_vars
<1>1. ASSUME NEW h, Handle(h)  PROVE  Next
  <2>1. CASE QuantumEnd(h)
    BY <2>1, IdleQuantum DEF QuantumEnd, Interruptible, Next
  <2>2. CASE Call(h) \/ KillStep(h) \/ IOInterrupt(h)
    BY <2>2 DEF Call, KillStep, IOInterrupt, Next
  <2> QED  BY <1>1, <2>1, <2>2 DEF Handle
<1>2. CASE Tick \/ UNCHANGED tvars
  BY <1>2 DEF Tick, tvars
<1>3. CASE Store \/ Done \/ TimeStops \/ ClockTick
  BY <1>3 DEF Store, Done, TimeStops, ClockTick, Next
<1> QED  BY <1>1, <1>2, <1>3 DEF TNext

LEMMA TimeInit == TInit => TimeInv
<1> SUFFICES ASSUME TInit  PROVE  TimeInv
  OBVIOUS
<1>1. /\ timer = QUANTUMTIME /\ interval = INTERVALTIME
      /\ since = 0 /\ ranFor = 0 /\ cuts = 0 /\ mode = "run"
  BY DEF TInit, Init
<1>2. TimeType
  BY <1>1, TimeFacts DEF TimeType
<1>3. QuotaLeft
  <2>1. QUANTUMTIME <= QUANTUMTIME * (0 + 1) /\ 0 <= QUANTUMTIME * (0 + 1)
    BY TimeFacts
  <2> QED  BY <1>1, <2>1, TimeFacts DEF QuotaLeft, QuantumBound
<1>4. interval <= INTERVALTIME
  BY <1>1, TimeSizes
<1> QED  BY <1>1, <1>2, <1>3, <1>4, TimeFacts DEF TimeInv

LEMMA IdleInit == Init => IdleInv
  BY DEF Init, IdleInv

LEMMA TimeCorrect == TSpec => []TimeInv
<1>1. TInit => TimeInv /\ TypeInv /\ IdleInv
  BY TimeInit, TypeInit, IdleInit DEF TInit
<1>2. TimeInv /\ TypeInv /\ IdleInv /\ [TNext]_tvars
        => TimeInv' /\ TypeInv' /\ IdleInv'
  <2> SUFFICES ASSUME TimeInv, TypeInv, IdleInv, [TNext]_tvars
               PROVE  TimeInv' /\ TypeInv' /\ IdleInv'
    OBVIOUS
  <2>1. [Next]_vars
    BY TimedIsNucleus
  <2> QED  BY <2>1, TimeStep, TypeStep, IdleStep
<1> QED  BY <1>1, <1>2, PTL DEF TSpec

\* Module Nucleus has no local timer in WAIT, where its interrupt would trap
\* the nucleus (scheduler.c, 93, and interrupts.c, 82).  That is sound: with
\* timers that also run in WAIT, every behaviour is one of Nucleus.
THEOREM TimedImplementsNucleus == TSpec => Spec
<1>1. TInit => Init
  BY DEF TInit
<1> QED  BY <1>1, TimedIsNucleus, TimeCorrect, PTL DEF TSpec, Spec

\* A process runs with at most a quantum on the local timer, and the local
\* timer never runs down in WAIT, whatever the quantum, the interval and the
\* time handlers take.
THEOREM TimerSound == TSpec => []TimerInv
<1>1. TimeInv => TimerInv
  BY DEF TimeInv, TimeType, TimerInv, Busy
<1> QED  BY <1>1, TimeCorrect, PTL

\* A process keeps the processor for at most a quantum per interrupt it has
\* returned from, and one more.
THEOREM QuantaBounded == TSpec => []QuantumBound
<1>1. TimeInv => QuantumBound
  BY DEF TimeInv, QuotaLeft
<1> QED  BY <1>1, TimeCorrect, PTL

-----------------------------------------------------------------------------
(***************************************************************************)
(* The test program: where its programs take and release term_mut.         *)
(***************************************************************************)
Programs == DOMAIN Code

Operations ==
  {"P", "V", "zero", "create", "vector", "trap", "terminate", "waitclock",
   "error", "store", "waitio", "status", "either", "skip", "skipped", "synch",
   "synched"}
Arguments == UserSem \cup {NoSem} \cup TrapTypes \cup Programs \cup Nat
Jumps(ins) == ins.op \in {"either", "skip"}
Instructions ==
  {ins \in [op : Operations, arg : Arguments, ie : BOOLEAN] :
     /\ ins.op \in {"P", "V"} => ins.arg \in UserSem
     /\ ins.op = "create" => ins.arg \in Programs
     /\ ins.op \in {"vector", "trap"} => ins.arg \in TrapTypes
     /\ Jumps(ins) => ins.arg \in Nat \ {0}}

\* The instructions after which a process is in print.
Enters(ins) ==
  \/ ins.op \in {"store", "waitio", "status"}
  \/ ins.op = "P" /\ ins.arg = term_mut

LEMMA ConcatIs ==
  ASSUME NEW S, NEW s \in Seq(S), NEW t \in Seq(S)
  PROVE  /\ s \o t \in Seq(S) /\ Len(s \o t) = Len(s) + Len(t)
         /\ Len(s) \in Nat /\ Len(t) \in Nat
         /\ \A i \in 1..Len(s) : (s \o t)[i] = s[i]
         /\ \A i \in 1..Len(t) : (s \o t)[i + Len(s)] = t[i]
OBVIOUS

\* What may stand next to each other: inside print a WAITIO after each store,
\* and then the look at the status.
Follows(ins, next) ==
  /\ InPrint(next) <=> Enters(ins)
  /\ next.op = "waitio" <=> ins.op = "store"
  /\ next.op = "status" <=> ins.op = "waitio"

\* Code that is outside print when it begins and when it ends, and that never
\* jumps into it, nor farther than just behind itself.
WellPlaced(c, i) ==
  /\ Enters(c[i]) => i < Len(c)
  /\ i < Len(c) => Follows(c[i], c[i + 1])
  /\ Jumps(c[i]) =>
       /\ i + c[i].arg <= Len(c) + 1
       /\ i + c[i].arg <= Len(c) => ~InPrint(c[i + c[i].arg])
Bracketed ==
  {c \in Seq(Instructions) :
     /\ c # <<>> => ~InPrint(c[1])
     /\ \A i \in 1..Len(c) : WellPlaced(c, i)}

LEMMA BracketedIs ==
  ASSUME NEW c \in Seq(Instructions)
  PROVE  c \in Bracketed <=> /\ c # <<>> => ~InPrint(c[1])
                             /\ \A i \in 1..Len(c) : WellPlaced(c, i)
BY DEF Bracketed

\* How far an instruction jumps.
LEMMA JumpLength ==
  ASSUME NEW c \in Seq(Instructions), NEW i \in 1..Len(c), Jumps(c[i])
  PROVE  c[i].arg \in Nat /\ c[i].arg >= 1
<1>1. c[i] \in Instructions
  OBVIOUS
<1>2. c[i].arg \in Nat \ {0}
  BY <1>1 DEF Instructions
<1> QED BY <1>2

\* Between two pieces of code outside print.
LEMMA Apart ==
  ASSUME NEW ins, NEW next, ~Enters(ins), ~InPrint(next)
  PROVE  Follows(ins, next)
BY DEF Follows, Enters, InPrint

LEMMA ConcatBracketed ==
  ASSUME NEW c \in Bracketed, NEW d \in Bracketed
  PROVE  c \o d \in Bracketed
<1> DEFINE e == c \o d
<1>1. c \in Seq(Instructions) /\ d \in Seq(Instructions)
  BY DEF Bracketed
<1>2. /\ e \in Seq(Instructions) /\ Len(e) = Len(c) + Len(d)
      /\ Len(c) \in Nat /\ Len(d) \in Nat
      /\ \A i \in 1..Len(c) : e[i] = c[i]
      /\ \A i \in 1..Len(d) : e[i + Len(c)] = d[i]
  BY <1>1
<1>3. /\ c # <<>> => ~InPrint(c[1])
      /\ d # <<>> => ~InPrint(d[1])
      /\ c = <<>> <=> Len(c) = 0
      /\ d = <<>> <=> Len(d) = 0
      /\ e = <<>> <=> Len(e) = 0
  BY <1>1, <1>2, BracketedIs
<1> HIDE DEF e
<1>4. e # <<>> => ~InPrint(e[1])
  <2>1. CASE c # <<>>
    BY <1>2, <1>3, <2>1
  <2>2. CASE c = <<>> /\ d # <<>>
    <3>1. e[1 + Len(c)] = d[1] /\ 1 + Len(c) = 1
      BY <1>2, <1>3, <2>2
    <3> QED BY <1>3, <2>2, <3>1
  <2>3. CASE c = <<>> /\ d = <<>>
    BY <1>2, <1>3, <2>3
  <2> QED BY <2>1, <2>2, <2>3
<1>5. ASSUME NEW i \in 1..Len(e), i <= Len(c) PROVE WellPlaced(e, i)
  <2>1. i \in 1..Len(c) /\ e[i] = c[i]
    BY <1>2, <1>5
  <2>2. WellPlaced(c, i)
    BY <1>1, <2>1, BracketedIs
  \* What stands at k in e, or would begin there.
  <2>3. ASSUME NEW k \in 2..Len(c) + 1
        PROVE  /\ k <= Len(c) => e[k] = c[k]
               /\ k > Len(c) /\ k <= Len(e) => ~InPrint(e[k])
    <3>1. k <= Len(c) => e[k] = c[k]
      BY <1>2
    <3>2. ASSUME k > Len(c), k <= Len(e) PROVE ~InPrint(e[k])
      <4>1. k = 1 + Len(c) /\ 1 \in 1..Len(d) /\ d # <<>>
        BY <1>2, <1>3, <3>2
      <4> QED BY <1>2, <1>3, <4>1
    <3> QED BY <3>1, <3>2
  <2>4. /\ Enters(e[i]) => i < Len(e)
        /\ i < Len(e) => Follows(e[i], e[i + 1])
    <3>0. i + 1 \in 2..Len(c) + 1
      BY <1>2, <2>1
    <3>1. CASE i < Len(c)
      <4>1. i < Len(e) /\ i + 1 <= Len(c)
        BY <1>2, <2>1, <3>1
      <4>2. e[i + 1] = c[i + 1]
        BY <2>3, <3>0, <4>1
      <4> QED BY <2>1, <2>2, <3>1, <4>1, <4>2 DEF WellPlaced
    <3>2. CASE ~(i < Len(c))
      <4>1. ~Enters(e[i])
        BY <2>1, <2>2, <3>2 DEF WellPlaced
      <4>2. i < Len(e) => ~InPrint(e[i + 1])
        <5>1. i < Len(e) => i + 1 > Len(c) /\ i + 1 <= Len(e)
          BY <1>2, <2>1, <3>2
        <5> QED BY <2>3, <3>0, <5>1
      <4> QED BY <4>1, <4>2, Apart
    <3> QED BY <3>1, <3>2
  <2>5. ASSUME Jumps(e[i])
        PROVE  /\ i + e[i].arg <= Len(e) + 1
               /\ i + e[i].arg <= Len(e) => ~InPrint(e[i + e[i].arg])
    <3>1. PICK k : k = i + c[i].arg
      OBVIOUS
    <3>2. c[i].arg \in Nat /\ c[i].arg >= 1
      BY <1>1, <2>1, <2>5, JumpLength
    <3>3. /\ k <= Len(c) + 1
          /\ k <= Len(c) => ~InPrint(c[k])
      BY <2>1, <2>2, <2>5, <3>1 DEF WellPlaced
    <3>4. k \in 2..Len(c) + 1 /\ k <= Len(e) + 1 /\ (k <= Len(c) \/ k > Len(c))
      BY <1>2, <2>1, <3>1, <3>2, <3>3
    <3>5. k <= Len(e) => ~InPrint(e[k])
      BY <2>3, <3>3, <3>4
    <3> QED BY <2>1, <3>1, <3>4, <3>5
  <2> QED BY <2>4, <2>5 DEF WellPlaced
<1>6. ASSUME NEW i \in 1..Len(e), ~(i <= Len(c)) PROVE WellPlaced(e, i)
  <2>1. PICK j \in 1..Len(d) : i = j + Len(c)
    <3>1. i - Len(c) \in 1..Len(d) /\ i = (i - Len(c)) + Len(c)
      BY <1>2, <1>6
    <3> QED BY <3>1
  <2>2. e[i] = d[j]
    BY <1>2, <2>1
  <2>3. WellPlaced(d, j)
    BY <1>1, BracketedIs
  <2>4. ASSUME NEW n \in Nat, n >= 1
        PROVE  /\ i + n <= Len(e) + 1 <=> j + n <= Len(d) + 1
               /\ i + n <= Len(e) <=> j + n <= Len(d)
               /\ i < Len(e) <=> j < Len(d)
               /\ i + n <= Len(e) => e[i + n] = d[j + n]
    <3>1. /\ i + n <= Len(e) + 1 <=> j + n <= Len(d) + 1
          /\ i + n <= Len(e) <=> j + n <= Len(d)
          /\ i < Len(e) <=> j < Len(d)
      BY <1>2, <2>1
    <3>2. j + n <= Len(d) => j + n \in 1..Len(d) /\ i + n = (j + n) + Len(c)
      BY <1>2, <2>1, <2>4
    <3>3. j + n <= Len(d) => e[i + n] = d[j + n]
      BY <1>2, <3>2
    <3> QED BY <3>1, <3>3
  <2>5. /\ Enters(e[i]) => i < Len(e)
        /\ i < Len(e) => Follows(e[i], e[i + 1])
    <3>1. /\ i < Len(e) <=> j < Len(d)
          /\ i + 1 <= Len(e) => e[i + 1] = d[j + 1]
      BY <2>4
    <3>2. i < Len(e) => i + 1 <= Len(e)
      BY <1>2
    <3> QED BY <2>2, <2>3, <3>1, <3>2 DEF WellPlaced
  <2>6. ASSUME Jumps(e[i])
        PROVE  /\ i + e[i].arg <= Len(e) + 1
               /\ i + e[i].arg <= Len(e) => ~InPrint(e[i + e[i].arg])
    <3>1. PICK n : n = d[j].arg
      OBVIOUS
    <3>2. n \in Nat /\ n >= 1
      BY <1>1, <2>2, <2>6, <3>1, JumpLength
    <3>3. /\ j + n <= Len(d) + 1
          /\ j + n <= Len(d) => ~InPrint(d[j + n])
      BY <2>2, <2>3, <2>6, <3>1 DEF WellPlaced
    <3> QED BY <2>2, <2>4, <3>1, <3>2, <3>3
  <2> QED BY <2>5, <2>6 DEF WellPlaced
<1>7. e \in Bracketed
  BY <1>2, <1>4, <1>5, <1>6, BracketedIs
<1> QED BY <1>7 DEF e

LEMMA EmptyBracketed == <<>> \in Bracketed
BY DEF Bracketed
-----------------------------------------------------------------------------
\* What FlattenSeq computes on the way.
IsFlattened(f, seqs) ==
  f = [i \in 1..Len(seqs) |-> IF i = 1 THEN seqs[i] ELSE f[i - 1] \o seqs[i]]

\* Code repeated is as well made as the code.
LEMMA TimesIn ==
  ASSUME NEW C, <<>> \in C, \A c, d \in C : c \o d \in C,
         NEW n \in Nat, NEW code \in C
  PROVE  Times(n, code) \in C
<1> DEFINE seqs(k) == [i \in 1..k |-> code]
<1>1. \A k \in Nat : Len(seqs(k)) = k /\ \A i \in 1..k : seqs(k)[i] = code
  OBVIOUS
<1>2. ASSUME NEW k \in Nat PROVE \E f : IsFlattened(f, seqs(k))
  <2> DEFINE T == {j \in Nat : \A f : ~IsFlattened(f, seqs(j))}
  <2>1. SUFFICES ASSUME T # {} PROVE FALSE
    <3>1. k \notin T => \E f : IsFlattened(f, seqs(k))
      OBVIOUS
    <3> QED BY <3>1
  <2>2. PICK m \in T : \A j \in T : m <= j
    <3>1. T \in SUBSET Nat
      OBVIOUS
    <3> HIDE DEF T
    <3> QED BY <2>1, <3>1, LeastElement
  <2>3. m # 0
    <3> DEFINE f == [i \in 1..0 |-> code]
    <3>1. Len(seqs(0)) = 0
      BY <1>1
    <3>2. f = [i \in 1..Len(seqs(0)) |->
                 IF i = 1 THEN seqs(0)[i] ELSE f[i - 1] \o seqs(0)[i]]
      BY <3>1
    <3>3. IsFlattened(f, seqs(0))
      BY <3>2 DEF IsFlattened
    <3> QED BY <2>2, <3>3
  <2>4. m \in Nat /\ m - 1 \in Nat /\ m - 1 \notin T
    <3>1. m \in Nat
      OBVIOUS
    <3> HIDE DEF T
    <3> QED BY <2>2, <2>3, <3>1
  <2>5. PICK g : IsFlattened(g, seqs(m - 1))
    BY <2>4
  <2> DEFINE f == [i \in 1..m |-> IF i = 1 THEN code ELSE g[i - 1] \o code]
  <2> HIDE DEF seqs
  <2>6. g = [i \in 1..(m - 1) |-> IF i = 1 THEN code ELSE g[i - 1] \o code]
    <3>1. g = [i \in 1..Len(seqs(m - 1)) |->
                 IF i = 1 THEN seqs(m - 1)[i] ELSE g[i - 1] \o seqs(m - 1)[i]]
      BY <2>5 DEF IsFlattened
    <3> QED BY <1>1, <2>4, <3>1
  <2>7. ASSUME NEW i \in 1..(m - 1) PROVE f[i] = g[i]
    <3>1. i \in 1..m
      BY <2>4
    <3>2. g[i] = IF i = 1 THEN code ELSE g[i - 1] \o code
      BY <2>6
    <3> QED BY <3>1, <3>2
  <2>8. f = [i \in 1..m |-> IF i = 1 THEN code ELSE f[i - 1] \o code]
    <3>1. \A i \in 1..m : i # 1 => i - 1 \in 1..(m - 1)
      BY <2>4
    <3>2. \A i \in 1..m : f[i] = IF i = 1 THEN code ELSE f[i - 1] \o code
      BY <2>7, <3>1
    <3> QED BY <3>2
  <2>9. IsFlattened(f, seqs(m))
    <3> HIDE DEF f
    <3>1. f = [i \in 1..Len(seqs(m)) |->
                 IF i = 1 THEN seqs(m)[i] ELSE f[i - 1] \o seqs(m)[i]]
      BY <1>1, <2>4, <2>8
    <3> QED BY <3>1 DEF IsFlattened
  <2> QED BY <2>2, <2>9
<1>3. CASE n = 0
  <2>1. seqs(n) = <<>> /\ Len(seqs(n)) = 0
    BY <1>3
  <2>2. Times(n, code) = seqs(n)
    BY <2>1 DEF Times, FlattenSeq
  <2> QED BY <2>1, <2>2
<1>4. CASE n # 0
  <2>1. PICK f : f = CHOOSE g : IsFlattened(g, seqs(n))
    OBVIOUS
  <2>2. IsFlattened(f, seqs(n))
    BY <1>2, <2>1
  <2>3. Times(n, code) = f[Len(seqs(n))]
    BY <1>1, <1>4, <2>1 DEF Times, FlattenSeq, IsFlattened
  <2> HIDE DEF seqs
  <2>4. /\ Times(n, code) = f[n]
        /\ f = [i \in 1..n |-> IF i = 1 THEN code ELSE f[i - 1] \o code]
    <3>1. f = [i \in 1..Len(seqs(n)) |->
                 IF i = 1 THEN seqs(n)[i] ELSE f[i - 1] \o seqs(n)[i]]
      BY <2>2 DEF IsFlattened
    <3> QED BY <1>1, <2>3, <3>1
  <2> DEFINE T == {j \in Nat : j \in 1..n /\ f[j] \notin C}
  <2>5. ASSUME T # {} PROVE FALSE
    <3>1. T \in SUBSET Nat
      OBVIOUS
    <3>2. PICK m \in T : \A j \in T : m <= j
      <4> HIDE DEF T
      <4> QED BY <2>5, <3>1, LeastElement
    <3>3. m \in Nat /\ m \in 1..n /\ f[m] \notin C
      OBVIOUS
    <3>4. f[m] = IF m = 1 THEN code ELSE f[m - 1] \o code
      BY <2>4, <3>3
    <3>5. m # 1
      BY <3>3, <3>4
    <3>6. m - 1 \in Nat /\ m - 1 \in 1..n /\ ~(m <= m - 1)
      BY <3>3, <3>5
    <3>7. m - 1 \notin T
      <4> HIDE DEF T
      <4> QED BY <3>2, <3>6
    <3>8. f[m - 1] \in C
      BY <3>6, <3>7
    <3>9. f[m - 1] \o code \in C
      BY <3>8
    <3> QED BY <3>3, <3>4, <3>5, <3>9
  <2>6. n \in Nat /\ n \in 1..n
    BY <1>4
  <2> QED BY <2>4, <2>5, <2>6
<1> QED BY <1>3, <1>4

LEMMA TimesBracketed ==
  ASSUME NEW n \in Nat, NEW c \in Bracketed
  PROVE  Times(n, c) \in Bracketed
<1>1. \A x, y \in Bracketed : x \o y \in Bracketed
  BY ConcatBracketed
<1> QED BY <1>1, EmptyBracketed, TimesIn

-----------------------------------------------------------------------------
(***************************************************************************)
(* The programs, piece by piece.                                           *)
(***************************************************************************)
LEMMA P2Sems ==
  /\ term_mut \in UserSem
  /\ {testsem, startp2, endp2, endp3, blkp4, synp4, endp4, endp5, endp8,
      endcreate, blkp8, s0} \subseteq UserSem \ {term_mut}
  /\ NoSem \notin UserSem
BY P2Assumption, SemAssumption DEF Sem

LEMMA ProgramNames ==
  Programs = {"p1", "p2", "p3", "p4", "p5", "p6", "p7", "p8root", "child", "p8leaf"}
BY DEF Programs, Code

\* One instruction.
LEMMA InstructionIs ==
  ASSUME NEW op \in Operations, NEW arg \in Arguments,
         op \in {"P", "V"} => arg \in UserSem,
         op = "create" => arg \in Programs,
         op \in {"vector", "trap"} => arg \in TrapTypes,
         op \in {"either", "skip"} => arg \in Nat \ {0}
  PROVE  /\ I(op, arg) \in Seq(Instructions)
         /\ Len(I(op, arg)) = 1
         /\ I(op, arg)[1].op = op /\ I(op, arg)[1].arg = arg
<1> DEFINE r == [op |-> op, arg |-> arg, ie |-> TRUE]
<1>1. r \in [op : Operations, arg : Arguments, ie : BOOLEAN]
  OBVIOUS
<1>2. r.op = op /\ r.arg = arg
  OBVIOUS
<1> HIDE DEF r
<1>3. r \in Instructions
  BY <1>1, <1>2 DEF Instructions, Jumps
<1>4. I(op, arg) = <<r>>
  BY DEF I, r
<1> QED BY <1>2, <1>3, <1>4

LEMMA Single ==
  ASSUME NEW op \in Operations, NEW arg \in Arguments,
         op \in {"P", "V"} => arg \in UserSem \ {term_mut},
         op = "create" => arg \in Programs,
         op \in {"vector", "trap"} => arg \in TrapTypes,
         op \notin {"store", "waitio", "status", "either", "skip"}
  PROVE  I(op, arg) \in Bracketed
<1> DEFINE c == I(op, arg)
<1>1. /\ c \in Seq(Instructions) /\ Len(c) = 1
      /\ c[1].op = op /\ c[1].arg = arg
  BY InstructionIs
<1> HIDE DEF c
<1>2. ~InPrint(c[1]) /\ ~Enters(c[1]) /\ ~Jumps(c[1])
  BY <1>1 DEF InPrint, Enters, Jumps
<1>3. \A i \in 1..Len(c) : WellPlaced(c, i)
  <2>1. \A i \in 1..Len(c) : i = 1
    BY <1>1
  <2> QED BY <1>1, <1>2, <2>1 DEF WellPlaced
<1>4. c \in Bracketed
  BY <1>1, <1>2, <1>3, BracketedIs
<1> QED BY <1>4 DEF c

LEMMA Singles ==
  /\ \A s \in UserSem \ {term_mut} : P(s) \in Bracketed /\ V(s) \in Bracketed
  /\ \A s \in UserSem : I("zero", s) \in Bracketed
  /\ \A program \in Programs : Create(program) \in Bracketed
  /\ \A trap \in TrapTypes : Vector(trap) \in Bracketed /\ Trap(trap) \in Bracketed
  /\ TerminateThread \in Bracketed /\ WaitForClock \in Bracketed
  /\ Error \in Bracketed
  /\ I("synched", NoSem) \in Bracketed /\ I("synch", NoSem) \in Bracketed
  /\ I("skipped", NoSem) \in Bracketed
<1>1. /\ UserSem \subseteq Arguments /\ TrapTypes \subseteq Arguments
      /\ Programs \subseteq Arguments /\ NoSem \in Arguments
  BY DEF Arguments
<1>2. ASSUME NEW op \in {"P", "V"}, NEW s \in UserSem \ {term_mut}
      PROVE  I(op, s) \in Bracketed
  <2>1. op \in Operations /\ s \in Arguments
    BY <1>1 DEF Operations
  <2> QED BY <2>1, Single
<1>3. ASSUME NEW s \in UserSem PROVE I("zero", s) \in Bracketed
  <2>1. "zero" \in Operations /\ s \in Arguments
    BY <1>1 DEF Operations
  <2> QED BY <2>1, Single
<1>4. ASSUME NEW program \in Programs PROVE I("create", program) \in Bracketed
  <2>1. "create" \in Operations /\ program \in Arguments
    BY <1>1 DEF Operations
  <2> QED BY <2>1, Single
<1>5. ASSUME NEW op \in {"vector", "trap"}, NEW trap \in TrapTypes
      PROVE  I(op, trap) \in Bracketed
  <2>1. op \in Operations /\ trap \in Arguments
    BY <1>1 DEF Operations
  <2> QED BY <2>1, Single
<1>6. ASSUME NEW op \in {"terminate", "waitclock", "error", "synch", "synched",
                     "skipped"}
      PROVE  I(op, NoSem) \in Bracketed
  <2>1. op \in Operations /\ NoSem \in Arguments
    BY <1>1 DEF Operations
  <2> QED BY <2>1, Single
<1> QED BY <1>2, <1>3, <1>4, <1>5, <1>6
        DEF P, V, Create, Vector, Trap, TerminateThread, WaitForClock, Error

\* Code that is executed or not.
LEMMA PerhapsBracketed ==
  ASSUME NEW d \in Bracketed
  PROVE  Perhaps(d) \in Bracketed
<1> DEFINE c == I("either", Len(d) + 1)
           e == c \o d
<1>1. /\ d \in Seq(Instructions) /\ Len(d) \in Nat
      /\ d # <<>> => ~InPrint(d[1])
      /\ d = <<>> <=> Len(d) = 0
  <2>1. d \in Seq(Instructions)
    BY DEF Bracketed
  <2> QED BY <2>1, BracketedIs
<1>2. /\ c \in Seq(Instructions) /\ Len(c) = 1
      /\ c[1].op = "either" /\ c[1].arg = Len(d) + 1
  <2>1. /\ "either" \in Operations /\ Len(d) + 1 \in Arguments
        /\ Len(d) + 1 \in Nat \ {0}
    BY <1>1 DEF Operations, Arguments
  <2> QED BY <2>1, InstructionIs
<1> HIDE DEF c
<1>3. /\ e \in Seq(Instructions) /\ Len(e) = Len(c) + Len(d)
      /\ \A i \in 1..Len(c) : e[i] = c[i]
      /\ \A i \in 1..Len(d) : e[i + Len(c)] = d[i]
  <2>1. c \in Seq(Instructions) /\ d \in Seq(Instructions)
    BY <1>1, <1>2
  <2> QED BY <2>1, ConcatIs
<1> HIDE DEF e
<1>4. /\ e \in Seq(Instructions) /\ Len(e) = Len(d) + 1 /\ e[1] = c[1]
      /\ \A i \in 1..Len(d) : e[i + 1] = d[i]
  <2>1. 1 \in 1..Len(c)
    BY <1>2
  <2> QED BY <1>1, <1>2, <1>3, <2>1
<1>5. ~InPrint(e[1]) /\ ~Enters(e[1])
  BY <1>2, <1>4 DEF InPrint, Enters
<1>6. WellPlaced(e, 1)
  <2>1. 1 < Len(e) => ~InPrint(e[1 + 1])
    <3>1. 1 < Len(e) => 1 \in 1..Len(d) /\ d # <<>>
      BY <1>1, <1>4
    <3> QED BY <1>1, <1>4, <3>1
  <2>2. 1 < Len(e) => Follows(e[1], e[1 + 1])
    BY <1>5, <2>1, Apart
  <2>3. e[1].arg = Len(d) + 1 /\ 1 + e[1].arg = Len(e) + 1
    BY <1>1, <1>2, <1>4
  <2>4. 1 + e[1].arg <= Len(e) + 1 /\ ~(1 + e[1].arg <= Len(e))
    BY <1>1, <1>4, <2>3
  <2> QED BY <1>5, <2>2, <2>4 DEF WellPlaced
<1>7. ASSUME NEW i \in 2..Len(e) PROVE WellPlaced(e, i)
  <2>1. PICK j \in 1..Len(d) : i = j + 1
    <3>1. i - 1 \in 1..Len(d) /\ i = (i - 1) + 1
      BY <1>1, <1>4
    <3> QED BY <3>1
  <2>2. e[i] = d[j]
    BY <1>4, <2>1
  <2>3. WellPlaced(d, j)
    BY <1>1, BracketedIs
  <2>4. ASSUME NEW n \in Nat, n >= 1
        PROVE  /\ i + n <= Len(e) + 1 <=> j + n <= Len(d) + 1
               /\ i + n <= Len(e) <=> j + n <= Len(d)
               /\ i < Len(e) <=> j < Len(d)
               /\ i + n <= Len(e) => e[i + n] = d[j + n]
    <3>1. /\ i + n <= Len(e) + 1 <=> j + n <= Len(d) + 1
          /\ i + n <= Len(e) <=> j + n <= Len(d)
          /\ i < Len(e) <=> j < Len(d)
      BY <1>1, <1>4, <2>1
    <3>2. j + n <= Len(d) => j + n \in 1..Len(d) /\ i + n = (j + n) + 1
      <4>1. j \in Nat /\ j >= 1 /\ i = j + 1 /\ Len(d) \in Nat
        BY <1>1, <2>1
      <4> QED BY <2>4, <4>1
    <3>3. j + n <= Len(d) => e[i + n] = d[j + n]
      BY <1>4, <3>2
    <3> QED BY <3>1, <3>3
  <2>5. /\ Enters(e[i]) => i < Len(e)
        /\ i < Len(e) => Follows(e[i], e[i + 1])
    <3>1. /\ i < Len(e) <=> j < Len(d)
          /\ i + 1 <= Len(e) => e[i + 1] = d[j + 1]
      BY <2>4
    <3>2. i < Len(e) => i + 1 <= Len(e)
      BY <1>1, <1>4
    <3> QED BY <2>2, <2>3, <3>1, <3>2 DEF WellPlaced
  <2>6. ASSUME Jumps(e[i])
        PROVE  /\ i + e[i].arg <= Len(e) + 1
               /\ i + e[i].arg <= Len(e) => ~InPrint(e[i + e[i].arg])
    <3>1. PICK n : n = d[j].arg
      OBVIOUS
    <3>2. n \in Nat /\ n >= 1
      BY <1>1, <2>2, <2>6, <3>1, JumpLength
    <3>3. /\ j + n <= Len(d) + 1
          /\ j + n <= Len(d) => ~InPrint(d[j + n])
      BY <2>2, <2>3, <2>6, <3>1 DEF WellPlaced
    <3> QED BY <2>2, <2>4, <3>1, <3>2, <3>3
  <2> QED BY <2>5, <2>6 DEF WellPlaced
<1>8. \A i \in 1..Len(e) : WellPlaced(e, i)
  <2>1. \A i \in 1..Len(e) : i = 1 \/ i \in 2..Len(e)
    BY <1>1, <1>4
  <2> QED BY <1>6, <1>7, <2>1
<1>9. e \in Bracketed
  BY <1>4, <1>5, <1>8, BracketedIs
<1> QED BY <1>9 DEF c, e, Perhaps

LEMMA DelayBracketed == Delay \in Bracketed
<1>1. WaitForClock \in Bracketed
  BY Singles
<1>2. Perhaps(WaitForClock) \in Bracketed
  BY <1>1, PerhapsBracketed
<1> QED BY <1>1, <1>2, ConcatBracketed DEF Delay

\* What print does between its P and its V: stores, each with its WAITIO
\* and its look at the status.
Printed ==
  {c \in Seq(Instructions) :
     \A i \in 1..Len(c) :
       /\ c[i].op \in {"store", "waitio", "status"}
       /\ i = 1 => c[i].op = "store"
       /\ i = Len(c) => c[i].op = "status"
       /\ i < Len(c) => Follows(c[i], c[i + 1])}

LEMMA PrintedMember ==
  ASSUME NEW c \in Seq(Instructions)
  PROVE  c \in Printed <=>
           \A i \in 1..Len(c) :
             /\ c[i].op \in {"store", "waitio", "status"}
             /\ i = 1 => c[i].op = "store"
             /\ i = Len(c) => c[i].op = "status"
             /\ i < Len(c) => Follows(c[i], c[i + 1])
BY DEF Printed

LEMMA ConcatPrinted ==
  ASSUME NEW c \in Printed, NEW d \in Printed
  PROVE  c \o d \in Printed
<1> DEFINE e == c \o d
<1>1. c \in Seq(Instructions) /\ d \in Seq(Instructions)
  BY DEF Printed
<1>2. /\ \A i \in 1..Len(c) :
           /\ c[i].op \in {"store", "waitio", "status"}
           /\ i = 1 => c[i].op = "store"
           /\ i = Len(c) => c[i].op = "status"
           /\ i < Len(c) => Follows(c[i], c[i + 1])
      /\ \A i \in 1..Len(d) :
           /\ d[i].op \in {"store", "waitio", "status"}
           /\ i = 1 => d[i].op = "store"
           /\ i = Len(d) => d[i].op = "status"
           /\ i < Len(d) => Follows(d[i], d[i + 1])
  BY <1>1, PrintedMember
<1>3. /\ e \in Seq(Instructions) /\ Len(e) = Len(c) + Len(d)
      /\ Len(c) \in Nat /\ Len(d) \in Nat
      /\ \A i \in 1..Len(c) : e[i] = c[i]
      /\ \A i \in 1..Len(d) : e[i + Len(c)] = d[i]
  BY <1>1, ConcatIs
<1> HIDE DEF e
<1>4. ASSUME NEW i \in 1..Len(e), i <= Len(c)
      PROVE  /\ e[i].op \in {"store", "waitio", "status"}
             /\ i = 1 => e[i].op = "store"
             /\ i = Len(e) => e[i].op = "status"
             /\ i < Len(e) => Follows(e[i], e[i + 1])
  <2>1. i \in 1..Len(c) /\ e[i] = c[i] /\ (i = Len(e) => i = Len(c))
    BY <1>3, <1>4
  <2>2. CASE i < Len(c)
    <3>1. i + 1 \in 1..Len(c)
      BY <2>1, <2>2
    <3>2. e[i + 1] = c[i + 1]
      BY <1>3, <3>1
    <3> QED BY <1>2, <2>1, <2>2, <3>2
  <2>3. CASE i = Len(c)
    <3>1. c[i].op = "status"
      BY <1>2, <2>1, <2>3
    <3>2. i < Len(e) => Follows(e[i], e[i + 1])
      <4>1. SUFFICES ASSUME i < Len(e) PROVE Follows(e[i], e[i + 1])
        OBVIOUS
      <4>2. 1 \in 1..Len(d) /\ i + 1 = 1 + Len(c)
        BY <1>3, <2>1, <2>3, <4>1
      <4>3. e[i + 1] = d[1] /\ d[1].op = "store"
        BY <1>2, <1>3, <4>2
      <4> QED BY <2>1, <3>1, <4>3 DEF Follows, InPrint, Enters
    <3> QED BY <1>2, <2>1, <3>1, <3>2
  <2> QED BY <1>3, <1>4, <2>2, <2>3
<1>5. ASSUME NEW i \in 1..Len(e), ~(i <= Len(c))
      PROVE  /\ e[i].op \in {"store", "waitio", "status"}
             /\ i = 1 => e[i].op = "store"
             /\ i = Len(e) => e[i].op = "status"
             /\ i < Len(e) => Follows(e[i], e[i + 1])
  <2>1. PICK j \in 1..Len(d) : i = j + Len(c)
    <3>1. i - Len(c) \in 1..Len(d) /\ i = (i - Len(c)) + Len(c)
      BY <1>3, <1>5
    <3> QED BY <3>1
  <2>2. e[i] = d[j]
    BY <1>3, <2>1
  <2>3. /\ i = 1 => j = 1
        /\ i = Len(e) <=> j = Len(d)
        /\ i < Len(e) <=> j < Len(d)
        /\ j < Len(d) => j + 1 \in 1..Len(d) /\ i + 1 = (j + 1) + Len(c)
    <3>1. Len(c) \in Nat /\ Len(d) \in Nat /\ Len(e) = Len(c) + Len(d)
      BY <1>2, <1>3
    <3>2. i = j + Len(c) /\ i \in Int /\ j \in Int /\ 1 <= j /\ j <= Len(d)
      BY <2>1
    <3>3. i = 1 => j = 1
      BY <3>1, <3>2
    <3>4. i = Len(e) <=> j = Len(d)
      BY <3>1, <3>2
    <3>5. i < Len(e) <=> j < Len(d)
      BY <3>1, <3>2
    <3>6. j < Len(d) => j + 1 \in 1..Len(d) /\ i + 1 = (j + 1) + Len(c)
      BY <3>1, <3>2
    <3> QED BY <3>3, <3>4, <3>5, <3>6
  <2>4. j < Len(d) => e[i + 1] = d[j + 1]
    BY <1>3, <2>3
  <2> QED BY <1>2, <2>2, <2>3, <2>4
<1>6. e \in Printed
  BY <1>3, <1>4, <1>5, PrintedMember
<1> QED BY <1>6 DEF e

LEMMA PrintedIs == Times(MSGLEN, Transmit) \in Printed
<1> DEFINE x == I("store", NoSem)
           y == I("waitio", NoSem)
           z == I("status", NoSem)
           xy == x \o y
           c == xy \o z
<1>1. /\ NoSem \in Arguments /\ "store" \in Operations /\ "waitio" \in Operations
      /\ "status" \in Operations
  BY DEF Arguments, Operations
<1>2. x \in Seq(Instructions) /\ Len(x) = 1 /\ x[1].op = "store"
  BY <1>1, InstructionIs
<1>3. y \in Seq(Instructions) /\ Len(y) = 1 /\ y[1].op = "waitio"
  BY <1>1, InstructionIs
<1>4. z \in Seq(Instructions) /\ Len(z) = 1 /\ z[1].op = "status"
  BY <1>1, InstructionIs
<1> HIDE DEF x, y, z
<1>5. xy \in Seq(Instructions) /\ Len(xy) = 2 /\ xy[1] = x[1] /\ xy[2] = y[1]
  <2>1. x \in Seq(Instructions) /\ y \in Seq(Instructions)
    BY <1>2, <1>3
  <2>2. /\ xy \in Seq(Instructions) /\ Len(xy) = Len(x) + Len(y)
        /\ \A i \in 1..Len(x) : xy[i] = x[i]
        /\ \A i \in 1..Len(y) : xy[i + Len(x)] = y[i]
    BY <2>1, ConcatIs
  <2> HIDE DEF xy
  <2>3. 1 \in 1..Len(x) /\ 1 \in 1..Len(y) /\ 1 + Len(x) = 2
    BY <1>2, <1>3
  <2>4. xy[1] = x[1] /\ xy[1 + Len(x)] = y[1]
    BY <2>2, <2>3
  <2> QED BY <1>2, <1>3, <2>2, <2>3, <2>4
<1> HIDE DEF xy
<1>6. /\ c \in Seq(Instructions) /\ Len(c) = 3
      /\ c[1] = x[1] /\ c[2] = y[1] /\ c[3] = z[1]
  <2>1. xy \in Seq(Instructions) /\ z \in Seq(Instructions)
    BY <1>4, <1>5
  <2>2. /\ c \in Seq(Instructions) /\ Len(c) = Len(xy) + Len(z)
        /\ \A i \in 1..Len(xy) : c[i] = xy[i]
        /\ \A i \in 1..Len(z) : c[i + Len(xy)] = z[i]
    BY <2>1, ConcatIs
  <2> HIDE DEF c
  <2>3. 1 \in 1..Len(xy) /\ 2 \in 1..Len(xy) /\ 1 \in 1..Len(z) /\ 1 + Len(xy) = 3
    BY <1>4, <1>5
  <2>4. c[1] = xy[1] /\ c[2] = xy[2] /\ c[1 + Len(xy)] = z[1]
    BY <2>2, <2>3
  <2> QED BY <1>4, <1>5, <2>2, <2>3, <2>4
<1> HIDE DEF c
<1>7. c[1].op = "store" /\ c[2].op = "waitio" /\ c[3].op = "status"
  BY <1>2, <1>3, <1>4, <1>6
<1>8. Follows(c[1], c[2]) /\ Follows(c[2], c[3])
  BY <1>7 DEF Follows, InPrint, Enters
<1>9. ASSUME NEW i \in 1..Len(c)
      PROVE  /\ c[i].op \in {"store", "waitio", "status"}
             /\ i = 1 => c[i].op = "store"
             /\ i = Len(c) => c[i].op = "status"
             /\ i < Len(c) => Follows(c[i], c[i + 1])
  <2>1. i = 1 \/ i = 2 \/ i = 3
    BY <1>6
  <2> QED BY <1>6, <1>7, <1>8, <2>1
<1>10. c \in Printed
  BY <1>6, <1>9, PrintedMember
<1>11. Transmit \in Printed
  BY <1>10 DEF c, xy, x, y, z, Transmit
<1>12. <<>> \in Printed
  BY DEF Printed
<1>13. MSGLEN \in Nat /\ \A s, t \in Printed : s \o t \in Printed
  BY P2Assumption, ConcatPrinted
<1> QED BY <1>11, <1>12, <1>13, TimesIn

\* A message is printed between a P and a V of term_mut.
LEMMA PrintBracketed == print \in Bracketed
<1> DEFINE a == P(term_mut)
           m == Times(MSGLEN, Transmit)
           z == V(term_mut)
           c == a \o m \o z
<1>1. /\ m \in Seq(Instructions)
      /\ \A i \in 1..Len(m) : /\ m[i].op \in {"store", "waitio", "status"}
                              /\ i = 1 => m[i].op = "store"
                              /\ i = Len(m) => m[i].op = "status"
                              /\ i < Len(m) => Follows(m[i], m[i + 1])
  <2>1. m \in Printed
    BY PrintedIs
  <2> HIDE DEF m
  <2>2. m \in Seq(Instructions)
    BY <2>1 DEF Printed
  <2> QED BY <2>1, <2>2, PrintedMember
<1>2. term_mut \in Arguments /\ term_mut \in UserSem
  BY P2Sems DEF Arguments
<1>3. /\ a \in Seq(Instructions) /\ Len(a) = 1
      /\ a[1].op = "P" /\ a[1].arg = term_mut
      /\ z \in Seq(Instructions) /\ Len(z) = 1
      /\ z[1].op = "V" /\ z[1].arg = term_mut
  <2>1. "P" \in Operations /\ "V" \in Operations
    BY DEF Operations
  <2>2. /\ a \in Seq(Instructions) /\ Len(a) = 1
        /\ a[1].op = "P" /\ a[1].arg = term_mut
    BY <1>2, <2>1, InstructionIs DEF P
  <2>3. /\ z \in Seq(Instructions) /\ Len(z) = 1
        /\ z[1].op = "V" /\ z[1].arg = term_mut
    BY <1>2, <2>1, InstructionIs DEF V
  <2> QED BY <2>2, <2>3
<1> HIDE DEF a, m, z
<1>4. /\ c \in Seq(Instructions) /\ Len(m) \in Nat /\ Len(c) = Len(m) + 2
      /\ c[1] = a[1] /\ c[Len(m) + 2] = z[1]
      /\ \A i \in 1..Len(m) : c[i + 1] = m[i]
  <2> DEFINE am == a \o m
  <2>1. /\ am \in Seq(Instructions) /\ Len(m) \in Nat /\ Len(am) = Len(m) + 1
        /\ am[1] = a[1]
        /\ \A i \in 1..Len(m) : am[i + 1] = m[i]
    <3>0. a \in Seq(Instructions) /\ m \in Seq(Instructions)
      BY <1>1, <1>3
    <3>1. /\ am \in Seq(Instructions) /\ Len(am) = Len(a) + Len(m)
          /\ Len(m) \in Nat
          /\ \A i \in 1..Len(a) : am[i] = a[i]
          /\ \A i \in 1..Len(m) : am[i + Len(a)] = m[i]
      BY <3>0, ConcatIs
    <3> HIDE DEF am
    <3>2. 1 \in 1..Len(a)
      BY <1>3
    <3> QED BY <1>3, <3>1, <3>2
  <2> HIDE DEF am
  <2> DEFINE x == am \o z
  <2>2. /\ x \in Seq(Instructions) /\ Len(x) = Len(am) + 1
        /\ \A i \in 1..Len(am) : x[i] = am[i]
        /\ x[Len(am) + 1] = z[1]
    <3>0. am \in Seq(Instructions) /\ z \in Seq(Instructions)
      BY <1>3, <2>1
    <3>1. /\ x \in Seq(Instructions) /\ Len(x) = Len(am) + Len(z)
          /\ \A i \in 1..Len(am) : x[i] = am[i]
          /\ \A i \in 1..Len(z) : x[i + Len(am)] = z[i]
      BY <3>0, ConcatIs
    <3> HIDE DEF x
    <3>2. 1 \in 1..Len(z) /\ 1 + Len(am) = Len(am) + 1
      BY <1>3, <2>1
    <3> QED BY <1>3, <3>1, <3>2
  <2>3. c = am \o z
    BY DEF am
  <2> HIDE DEF c
  <2>4. \A i \in 1..Len(m) : c[i + 1] = m[i]
    BY <2>1, <2>2, <2>3
  <2>5. Len(am) + 1 = Len(m) + 2 /\ 1 \in 1..Len(am)
    BY <2>1
  <2> QED BY <2>1, <2>2, <2>3, <2>4, <2>5
<1> HIDE DEF c
<1>5. ASSUME NEW i \in 2..Len(m) + 1
      PROVE  /\ c[i].op \in {"store", "waitio", "status"}
             /\ i = 2 => c[i].op = "store"
             /\ i = Len(m) + 1 => c[i].op = "status"
             /\ i < Len(m) + 1 => Follows(c[i], c[i + 1])
  <2>1. PICK j \in 1..Len(m) : i = j + 1
    <3>1. i - 1 \in 1..Len(m) /\ i = (i - 1) + 1
      BY <1>4
    <3> QED BY <3>1
  <2>2. c[i] = m[j] /\ (j + 1 \in 1..Len(m) => c[i + 1] = m[j + 1])
    BY <1>4, <2>1
  <2>3. /\ i = 2 => j = 1
        /\ i = Len(m) + 1 => j = Len(m)
        /\ i < Len(m) + 1 => j < Len(m) /\ j + 1 \in 1..Len(m)
    BY <1>4, <2>1
  <2> QED BY <1>1, <2>2, <2>3
<1>6. /\ ~InPrint(c[1]) /\ Enters(c[1]) /\ c[1].op = "P"
      /\ InPrint(c[Len(m) + 2]) /\ ~Enters(c[Len(m) + 2]) /\ c[Len(m) + 2].op = "V"
  BY <1>3, <1>4 DEF InPrint, Enters
<1> USE DEF Jumps
<1>7. ASSUME NEW i \in 1..Len(c)
      PROVE  /\ Enters(c[i]) => i < Len(c)
             /\ i < Len(c) => Follows(c[i], c[i + 1])
             /\ ~Jumps(c[i])
  <2>1. CASE i = Len(m) + 2
    BY <1>4, <1>6, <2>1
  <2>2. CASE i = 1
    <3>1. CASE Len(m) = 0
      BY <1>4, <1>6, <2>2, <3>1 DEF Follows
    <3>2. CASE Len(m) # 0
      <4>1. 2 \in 2..Len(m) + 1 /\ i + 1 = 2 /\ i < Len(c)
        BY <1>4, <2>2, <3>2
      <4>2. c[2].op = "store"
        BY <1>5, <4>1
      <4>3. InPrint(c[2])
        BY <4>2 DEF InPrint
      <4> QED BY <1>6, <2>2, <4>1, <4>2, <4>3 DEF Follows
    <3> QED BY <3>1, <3>2
  <2>3. CASE i \in 2..Len(m) + 1
    <3>1. c[i].op \in {"store", "waitio", "status"} /\ i < Len(c)
      BY <1>4, <1>5, <2>3
    <3>2. CASE i = Len(m) + 1
      <4>1. c[i].op = "status" /\ i + 1 = Len(m) + 2
        BY <1>4, <1>5, <2>3, <3>2
      <4>2. Enters(c[i])
        BY <4>1 DEF Enters
      <4> QED BY <1>6, <3>1, <4>1, <4>2 DEF Follows
    <3>3. CASE i # Len(m) + 1
      <4>1. i < Len(m) + 1
        BY <1>4, <2>3, <3>3
      <4> QED BY <1>5, <2>3, <3>1, <4>1
    <3> QED BY <3>2, <3>3
  <2>4. i = 1 \/ i = Len(m) + 2 \/ i \in 2..Len(m) + 1
    BY <1>4
  <2> QED BY <2>1, <2>2, <2>3, <2>4
<1>8. \A i \in 1..Len(c) : WellPlaced(c, i)
  BY <1>7 DEF WellPlaced
<1>9. c \in Bracketed
  BY <1>4, <1>6, <1>8, BracketedIs
<1> QED BY <1>9 DEF c, a, m, z, print

\* What interrupts can do or not does not matter to print.
LEMMA DisabledIs ==
  ASSUME NEW c \in Seq(Instructions)
  PROVE  /\ Disabled(c) \in Seq(Instructions) /\ Len(Disabled(c)) = Len(c)
         /\ \A i \in 1..Len(c) : /\ Disabled(c)[i].op = c[i].op
                                /\ Disabled(c)[i].arg = c[i].arg
<1> DEFINE d == Disabled(c)
<1>1. d = [i \in 1..Len(c) |-> [c[i] EXCEPT !.ie = FALSE]] /\ Len(c) \in Nat
  BY DEF Disabled
<1>2. ASSUME NEW i \in 1..Len(c)
      PROVE  d[i] \in Instructions /\ d[i].op = c[i].op /\ d[i].arg = c[i].arg
  <2>1. d[i] = [c[i] EXCEPT !.ie = FALSE] /\ c[i] \in Instructions
    BY <1>1
  <2> QED BY <2>1 DEF Instructions, Jumps
<1> HIDE DEF d
<1>3. d \in [1..Len(c) -> Instructions]
  BY <1>1, <1>2
<1>4. d \in Seq(Instructions) /\ Len(d) = Len(c)
  BY <1>1, <1>3
<1> QED BY <1>2, <1>4 DEF d

LEMMA DisabledBracketed ==
  ASSUME NEW c \in Bracketed
  PROVE  Disabled(c) \in Bracketed
<1> DEFINE d == Disabled(c)
<1>1. c \in Seq(Instructions) /\ Len(c) \in Nat
  BY DEF Bracketed
<1>2. /\ d \in Seq(Instructions) /\ Len(d) = Len(c)
      /\ \A i \in 1..Len(c) : d[i].op = c[i].op /\ d[i].arg = c[i].arg
  BY <1>1, DisabledIs
<1> HIDE DEF d
<1>3. ASSUME NEW i \in 1..Len(c)
      PROVE  /\ InPrint(d[i]) <=> InPrint(c[i])
             /\ Enters(d[i]) <=> Enters(c[i])
             /\ Jumps(d[i]) <=> Jumps(c[i])
  <2>1. d[i].op = c[i].op /\ d[i].arg = c[i].arg
    BY <1>2
  <2> QED BY <2>1, Zenon DEF InPrint, Enters, Jumps
<1>4. /\ c # <<>> => ~InPrint(c[1])
      /\ \A i \in 1..Len(c) : WellPlaced(c, i)
  BY <1>1, BracketedIs
<1>5. d # <<>> => ~InPrint(d[1])
  BY <1>1, <1>2, <1>3, <1>4
<1>6. ASSUME NEW i \in 1..Len(d) PROVE WellPlaced(d, i)
  <2>1. i \in 1..Len(c) /\ WellPlaced(c, i)
    BY <1>2, <1>4
  <2>2. /\ Enters(d[i]) => i < Len(d)
        /\ i < Len(d) => Follows(d[i], d[i + 1])
    <3>1. i < Len(c) => i + 1 \in 1..Len(c)
      BY <1>1, <2>1
    <3>2. Enters(d[i]) <=> Enters(c[i])
      BY <1>3, <2>1
    <3>3. ASSUME i < Len(c) PROVE Follows(d[i], d[i + 1])
      <4>1. PICK k \in 1..Len(c) : k = i + 1
        BY <3>1, <3>3
      <4>2. Follows(c[i], c[k])
        BY <2>1, <3>3, <4>1 DEF WellPlaced
      <4>3. (InPrint(d[k]) <=> InPrint(c[k])) /\ d[k].op = c[k].op /\ d[i].op = c[i].op
        BY <1>2, <1>3, <2>1
      <4>4. Follows(d[i], d[k])
        BY <3>2, <4>2, <4>3, Zenon DEF Follows
      <4> QED BY <4>1, <4>4
    <3> QED BY <1>2, <2>1, <3>2, <3>3 DEF WellPlaced
  <2>3. ASSUME Jumps(d[i])
        PROVE  /\ i + d[i].arg <= Len(d) + 1
               /\ i + d[i].arg <= Len(d) => ~InPrint(d[i + d[i].arg])
    <3>1. PICK n : n = c[i].arg
      OBVIOUS
    <3>2. Jumps(c[i]) /\ d[i].arg = n
      <4>1. Jumps(d[i]) <=> Jumps(c[i])
        BY <1>3, <2>1
      <4> QED BY <1>2, <2>1, <2>3, <3>1, <4>1
    <3>3. n \in Nat /\ n >= 1
      BY <1>1, <2>1, <3>1, <3>2, JumpLength
    <3>4. i + n <= Len(c) + 1 /\ (i + n <= Len(c) => ~InPrint(c[i + n]))
      BY <2>1, <3>1, <3>2 DEF WellPlaced
    <3>5. i + n <= Len(c) => i + n \in 1..Len(c)
      BY <1>1, <2>1, <3>3
    <3>6. i + n <= Len(c) => ~InPrint(d[i + n])
      <4>1. SUFFICES ASSUME i + n <= Len(c) PROVE ~InPrint(d[i + n])
        OBVIOUS
      <4>2. PICK k \in 1..Len(c) : k = i + n
        BY <3>5, <4>1
      <4>3. InPrint(d[k]) <=> InPrint(c[k])
        BY <1>3
      <4> QED BY <3>4, <4>1, <4>2, <4>3
    <3> QED BY <1>2, <3>2, <3>4, <3>6
  <2> QED BY <2>2, <2>3 DEF WellPlaced
<1>7. d \in Bracketed
  BY <1>2, <1>5, <1>6, BracketedIs
<1> QED BY <1>7 DEF d

LEMMA SkipBracketed == Skip \in Bracketed
<1> DEFINE a == Disabled(I("skip", 2))
           z == I("skipped", NoSem)
           c == a \o z
<1>1. /\ NoSem \in Arguments /\ 2 \in Arguments
      /\ "skip" \in Operations /\ "skipped" \in Operations
  BY DEF Arguments, Operations
<1>2. /\ a \in Seq(Instructions) /\ Len(a) = 1
      /\ a[1].op = "skip" /\ a[1].arg = 2
  <2> DEFINE x == I("skip", 2)
  <2>1. /\ x \in Seq(Instructions) /\ Len(x) = 1
        /\ x[1].op = "skip" /\ x[1].arg = 2
    BY <1>1, InstructionIs
  <2> HIDE DEF x
  <2>2. 1 \in 1..Len(x)
    BY <2>1
  <2>3. /\ Disabled(x) \in Seq(Instructions) /\ Len(Disabled(x)) = 1
        /\ Disabled(x)[1].op = "skip" /\ Disabled(x)[1].arg = 2
    BY <2>1, <2>2, DisabledIs
  <2> QED BY <2>3 DEF x
<1>3. z \in Seq(Instructions) /\ Len(z) = 1 /\ z[1].op = "skipped"
  BY <1>1, InstructionIs
<1> HIDE DEF a, z
<1>4. c \in Seq(Instructions) /\ Len(c) = 2 /\ c[1] = a[1] /\ c[2] = z[1]
  <2>1. a \in Seq(Instructions) /\ z \in Seq(Instructions)
    BY <1>2, <1>3
  <2>2. /\ c \in Seq(Instructions) /\ Len(c) = Len(a) + Len(z)
        /\ \A i \in 1..Len(a) : c[i] = a[i]
        /\ \A i \in 1..Len(z) : c[i + Len(a)] = z[i]
    BY <2>1, ConcatIs
  <2> HIDE DEF c
  <2>3. 1 \in 1..Len(a) /\ 1 \in 1..Len(z) /\ 1 + Len(a) = 2
    BY <1>2, <1>3
  <2>4. c[1] = a[1] /\ c[1 + Len(a)] = z[1]
    BY <2>2, <2>3
  <2> QED BY <1>2, <1>3, <2>2, <2>3, <2>4
<1> HIDE DEF c
<1>5. /\ ~InPrint(c[1]) /\ ~Enters(c[1]) /\ c[1].arg = 2
      /\ ~InPrint(c[2]) /\ ~Enters(c[2]) /\ ~Jumps(c[2])
  BY <1>2, <1>3, <1>4 DEF InPrint, Enters, Jumps
<1>6. WellPlaced(c, 1)
  BY <1>4, <1>5, Apart DEF WellPlaced
<1>7. WellPlaced(c, 2)
  BY <1>4, <1>5 DEF WellPlaced
<1>8. \A i \in 1..Len(c) : WellPlaced(c, i)
  <2>1. \A i \in 1..Len(c) : i = 1 \/ i = 2
    BY <1>4
  <2> QED BY <1>6, <1>7, <2>1
<1>9. c \in Bracketed
  BY <1>4, <1>5, <1>8, BracketedIs
<1> QED BY <1>9 DEF a, z, c, Skip

-----------------------------------------------------------------------------
\* A program: it ends in an "error", past which nothing executes or jumps.
Program(c) ==
  /\ c \in Bracketed /\ Len(c) > 0 /\ c[Len(c)].op = "error"
  /\ \A i \in 1..Len(c) : Jumps(c[i]) => i + c[i].arg <= Len(c)

LEMMA ProgramIs ==
  ASSUME NEW c \in Bracketed
  PROVE  Program(c \o Error)
<1> DEFINE d == c \o Error
<1>1. NoSem \in Arguments /\ "error" \in Operations
  BY DEF Arguments, Operations
<1>2. Error \in Seq(Instructions) /\ Len(Error) = 1 /\ Error[1].op = "error"
  BY <1>1, InstructionIs DEF Error
<1>3. c \in Seq(Instructions) /\ Error \in Seq(Instructions)
  BY <1>2 DEF Bracketed
<1>4. /\ d \in Seq(Instructions) /\ Len(d) = Len(c) + Len(Error) /\ Len(c) \in Nat
      /\ \A i \in 1..Len(c) : d[i] = c[i]
      /\ \A i \in 1..Len(Error) : d[i + Len(c)] = Error[i]
  BY <1>3, ConcatIs
<1>5. d \in Bracketed
  BY ConcatBracketed, Singles
<1> HIDE DEF d
<1>6. Len(d) > 0 /\ 1 \in 1..Len(Error) /\ 1 + Len(c) = Len(d)
  BY <1>2, <1>4
<1>7. d[Len(d)].op = "error"
  BY <1>2, <1>4, <1>6
<1>8. ASSUME NEW i \in 1..Len(d), Jumps(d[i]) PROVE i + d[i].arg <= Len(d)
  <2>1. i # Len(d)
    BY <1>7, <1>8 DEF Jumps
  <2>2. i \in 1..Len(c)
    BY <1>2, <1>4, <2>1
  <2>3. d[i] = c[i] /\ Len(c) + 1 = Len(d)
    BY <1>2, <1>4, <2>2
  <2>4. WellPlaced(c, i)
    BY <1>3, <2>2, BracketedIs
  <2> QED BY <1>8, <2>3, <2>4 DEF WellPlaced
<1>9. Program(d)
  BY <1>5, <1>6, <1>7, <1>8 DEF Program
<1> QED BY <1>9 DEF d

LEMMA AllPrograms == \A program \in Programs : Program(Code[program])
<1>1. \A c, d \in Bracketed : c \o d \in Bracketed
  BY ConcatBracketed
<1>2. /\ print \in Bracketed /\ Delay \in Bracketed /\ Handler \in Bracketed
      /\ Skip \in Bracketed /\ Perhaps(print) \in Bracketed
  BY PrintBracketed, DelayBracketed, DisabledBracketed, SkipBracketed, PerhapsBracketed
     DEF Handler
<1>3. /\ P(startp2) \in Bracketed /\ P(endp2) \in Bracketed /\ P(endp3) \in Bracketed
      /\ P(endp5) \in Bracketed /\ P(blkp4) \in Bracketed /\ P(endp8) \in Bracketed
      /\ P(s0) \in Bracketed /\ P(synp4) \in Bracketed /\ P(endp4) \in Bracketed
      /\ P(endcreate) \in Bracketed /\ P(blkp8) \in Bracketed
  BY P2Sems, Singles
<1>4. /\ V(testsem) \in Bracketed /\ V(startp2) \in Bracketed /\ V(s0) \in Bracketed
      /\ V(endp2) \in Bracketed /\ V(endp3) \in Bracketed /\ V(synp4) \in Bracketed
      /\ V(endp4) \in Bracketed /\ V(blkp4) \in Bracketed /\ V(endp5) \in Bracketed
      /\ V(endp8) \in Bracketed /\ V(endcreate) \in Bracketed
  BY P2Sems, Singles
<1>5. /\ Create("p2") \in Bracketed /\ Create("p3") \in Bracketed
      /\ Create("p4") \in Bracketed /\ Create("p5") \in Bracketed
      /\ Create("p6") \in Bracketed /\ Create("p7") \in Bracketed
      /\ Create("p8root") \in Bracketed /\ Create("child") \in Bracketed
      /\ Create("p8leaf") \in Bracketed
  BY ProgramNames, Singles
<1>6. /\ Vector("PROGTRAP") \in Bracketed /\ Vector("TLBTRAP") \in Bracketed
      /\ Vector("SYSTRAP") \in Bracketed
      /\ Trap("PROGTRAP") \in Bracketed /\ Trap("TLBTRAP") \in Bracketed
      /\ Trap("SYSTRAP") \in Bracketed
  BY Singles DEF TrapTypes
<1>7. /\ TerminateThread \in Bracketed /\ WaitForClock \in Bracketed
      /\ I("synched", NoSem) \in Bracketed /\ I("synch", NoSem) \in Bracketed
      /\ I("zero", s0) \in Bracketed
  BY P2Sems, Singles
<1>8. /\ Times(P8LOOP, Create("p8root") \o P(endp8)) \in Bracketed
      /\ Times(CLOCKLOOP, WaitForClock) \in Bracketed
      /\ Times(4, P(endcreate)) \in Bracketed
      /\ Times(MAXSEM + 1, V(s0) \o P(s0) \o I("zero", s0)) \in Bracketed
  <2>1. P8LOOP \in Nat /\ CLOCKLOOP \in Nat /\ 4 \in Nat /\ MAXSEM + 1 \in Nat
    BY P2Assumption
  <2>2. /\ Create("p8root") \o P(endp8) \in Bracketed
        /\ V(s0) \o P(s0) \o I("zero", s0) \in Bracketed
    BY <1>1, <1>3, <1>4, <1>5, <1>7
  <2> QED BY <1>3, <1>7, <2>1, <2>2, TimesBracketed
<1>9. Program(p1)
  BY <1>1, <1>2, <1>3, <1>4, <1>5, <1>6, <1>7, <1>8, ProgramIs, Zenon DEF p1
<1>10. Program(p2)
  BY <1>1, <1>2, <1>3, <1>4, <1>7, <1>8, ProgramIs, Zenon DEF p2
<1>11. Program(p3)
  BY <1>1, <1>2, <1>4, <1>7, <1>8, ProgramIs, Zenon DEF p3
<1>12. Program(p4)
  BY <1>1, <1>2, <1>3, <1>4, <1>5, <1>7, ProgramIs, Zenon DEF p4
<1>13. Program(p5)
  BY <1>1, <1>2, <1>3, <1>4, <1>6, ProgramIs, Zenon DEF p5, p5b, p5sys
<1>14. Program(p6) /\ Program(p7)
  BY <1>1, <1>2, <1>6, ProgramIs, Zenon DEF p6, p7
<1>15. Program(p8root)
  BY <1>1, <1>2, <1>4, <1>5, <1>7, <1>8, ProgramIs, Zenon DEF p8root
<1>16. Program(child) /\ Program(p8leaf)
  BY <1>1, <1>2, <1>3, <1>4, <1>5, ProgramIs, Zenon DEF child, p8leaf
<1> QED BY <1>9, <1>10, <1>11, <1>12, <1>13, <1>14, <1>15, <1>16, ProgramNames
        DEF Code

-----------------------------------------------------------------------------
(***************************************************************************)
(* The types of the programs, and that their steps are the nucleus's.      *)
(***************************************************************************)
P2Type ==
  /\ prog \in [Proc -> Programs]
  /\ pc \in [Proc -> Nat]
  /\ \A p \in Proc : pc[p] <= Len(Code[prog[p]])

\* What a process executes.
LEMMA InstructionAt ==
  ASSUME P2Type, NEW p \in Proc, pc[p] # Aborted
  PROVE  /\ pc[p] \in 1..Len(Code[prog[p]])
         /\ Code[prog[p]] \in Bracketed
         /\ At(p) = Code[prog[p]][pc[p]] /\ At(p) \in Instructions
<1>1. prog[p] \in Programs /\ pc[p] \in Nat /\ pc[p] <= Len(Code[prog[p]])
  BY DEF P2Type
<1>2. Code[prog[p]] \in Bracketed /\ Code[prog[p]] \in Seq(Instructions)
  BY <1>1, AllPrograms DEF Program, Bracketed
<1>3. pc[p] \in 1..Len(Code[prog[p]])
  BY <1>1, <1>2 DEF Aborted
<1> QED BY <1>2, <1>3 DEF At

\* Where it goes on from there.
LEMMA NextInstruction ==
  ASSUME P2Type, NEW p \in Proc, pc[p] # Aborted
  PROVE  /\ At(p).op # "error" =>
              /\ pc[p] + 1 \in 1..Len(Code[prog[p]])
              /\ Follows(At(p), Code[prog[p]][pc[p] + 1])
         /\ Jumps(At(p)) =>
              /\ pc[p] + At(p).arg \in 1..Len(Code[prog[p]])
              /\ ~InPrint(Code[prog[p]][pc[p] + At(p).arg])
<1> DEFINE c == Code[prog[p]]
           i == pc[p]
<1>1. /\ i \in 1..Len(c) /\ c \in Bracketed /\ c \in Seq(Instructions)
      /\ At(p) = c[i] /\ Len(c) \in Nat
  <2>1. i \in 1..Len(c) /\ c \in Bracketed /\ At(p) = c[i]
    BY InstructionAt
  <2>2. c \in Seq(Instructions)
    BY <2>1 DEF Bracketed
  <2> HIDE DEF c, i
  <2> QED BY <2>1, <2>2
<1>2. Program(c)
  BY AllPrograms DEF P2Type
<1> HIDE DEF c, i
<1>3. WellPlaced(c, i)
  BY <1>1, BracketedIs
<1>4. c[i].op # "error" => i + 1 \in 1..Len(c) /\ Follows(c[i], c[i + 1])
  <2>1. c[i].op # "error" => i < Len(c)
    BY <1>1, <1>2 DEF Program
  <2>2. i < Len(c) => i + 1 \in 1..Len(c)
    BY <1>1
  <2> QED BY <1>3, <2>1, <2>2 DEF WellPlaced
<1>5. ASSUME Jumps(c[i])
      PROVE  i + c[i].arg \in 1..Len(c) /\ ~InPrint(c[i + c[i].arg])
  <2>1. PICK n : n = c[i].arg
    OBVIOUS
  <2>2. n \in Nat
    BY <1>1, <1>5, <2>1, JumpLength
  <2>3. i + n <= Len(c)
    BY <1>1, <1>2, <1>5, <2>1 DEF Program
  <2>4. ~InPrint(c[i + n])
    BY <1>3, <1>5, <2>1, <2>3 DEF WellPlaced
  <2>5. i + n \in 1..Len(c)
    BY <1>1, <2>2, <2>3
  <2> QED BY <2>1, <2>4, <2>5
<1> QED BY <1>1, <1>4, <1>5 DEF c, i

\* The first instruction of a program is outside print.
LEMMA FirstInstruction ==
  ASSUME NEW program \in Programs
  PROVE  /\ 1 <= Len(Code[program]) /\ Len(Code[program]) \in Nat
         /\ ~InPrint(Code[program][1])
<1> DEFINE c == Code[program]
<1>1. c \in Bracketed /\ Len(c) > 0 /\ c \in Seq(Instructions)
  BY AllPrograms DEF Program, Bracketed
<1> HIDE DEF c
<1>2. c # <<>> /\ Len(c) \in Nat
  BY <1>1
<1> QED BY <1>1, <1>2, BracketedIs DEF c

LEMMA ExecAt ==
  ASSUME TypeInv, P2Type, NEW op, Exec(op)
  PROVE  /\ mode = "run" /\ curProc \in Proc /\ pc[curProc] # Aborted
         /\ Instruction = At(curProc)
         /\ Instruction \in Instructions /\ Instruction.op = op
<1>1. mode = "run" /\ curProc \in Proc /\ pc[curProc] # Aborted
  BY DEF Exec, TypeInv, RunInv
<1>2. Instruction = At(curProc) /\ Instruction.op = op
  BY DEF Exec, Instruction
<1>3. At(curProc) \in Instructions
  BY <1>1, InstructionAt
<1> QED BY <1>1, <1>2, <1>3

\* Every step of the test is one of the nucleus, or of none of its concern.
LEMMA P2IsNucleus ==
  ASSUME TypeInv, P2Type, [P2Next]_p2vars
  PROVE  [Next]_vars
<1>1. Terminal \in Devices /\ VectorTypes = TrapTypes
  BY P2Assumption
<1>2. CASE ExecP \/ ExecV
  <2>1. Exec("P") \/ Exec("V")
    BY <1>2 DEF ExecP, ExecV
  <2>2. Instruction.arg \in UserSem
    BY <2>1, ExecAt DEF Instructions
  <2> QED BY <1>2, <2>2 DEF ExecP, ExecV, Next, SystemCall
<1>3. CASE ExecWaitClock \/ ExecWaitIO \/ ExecStore \/ ExecTerminate
           \/ ExecCreate \/ ExecCreateRefused
  BY <1>1, <1>3 DEF ExecWaitClock, ExecWaitIO, ExecStore, ExecTerminate, ExecCreate,
                    ExecCreateRefused, Next, SystemCall
<1>4. CASE ExecTrap \/ ExecVector
  <2>1. Exec("trap") \/ Exec("vector")
    BY <1>4 DEF ExecTrap, ExecVector
  <2>2. Instruction.arg \in TrapTypes
    BY <2>1, ExecAt DEF Instructions
  <2> QED BY <1>1, <1>4, <2>2 DEF ExecTrap, ExecVector, Next, SystemCall
<1>5. CASE ExecSynch \/ ExecStatus \/ ExecTest
  BY <1>5 DEF ExecSynch, ExecStatus, ExecTest
<1>6. CASE KillGoesOn \/ Finished \/ QuantumEnds \/ ClockTicks
           \/ TerminalInterrupts \/ TerminalDone
  BY <1>1, <1>6 DEF KillGoesOn, Finished, QuantumEnds, ClockTicks, TerminalInterrupts,
                    TerminalDone, Next
<1>7. CASE UNCHANGED p2vars
  BY <1>7 DEF p2vars
<1> QED BY <1>2, <1>3, <1>4, <1>5, <1>6, <1>7 DEF P2Next, Step

\* p is between the P and the V of print, or blocked in that P.
Inside(p) == pc[p] # Aborted /\ InPrint(At(p))

\* p has started the terminal and comes to the WAITIO.
Waits(p) == pc[p] # Aborted /\ At(p).op = "waitio"

\* p's WAITIO is behind it, and it has yet to look at the status.
Checks(p) == pc[p] # Aborted /\ At(p).op = "status"

\* The current process goes from instruction to instruction.
Moves(n) ==
  /\ curProc \in Proc /\ pc[curProc] # Aborted
  /\ n \in Nat /\ n <= Len(Code[prog[curProc]])
  /\ prog' = prog /\ pc' = [pc EXCEPT ![curProc] = n]
  /\ n # Aborted => Follows(At(curProc), Code[prog[curProc]][n])

LEMMA WaitsInside ==
  \A p : (Waits(p) \/ Checks(p) => Inside(p)) /\ (Waits(p)' \/ Checks(p)' => Inside(p)')
BY DEF Waits, Checks, Inside, InPrint

LEMMA MoveKeeps ==
  ASSUME P2Type, NEW n, Moves(n)
  PROVE  /\ P2Type'
         /\ \A p \in Proc :
              /\ p # curProc => /\ Inside(p)' <=> Inside(p)
                                /\ Waits(p)' <=> Waits(p)
                                /\ Checks(p)' <=> Checks(p)
              /\ p = curProc => /\ Inside(p)' <=> n # Aborted /\ Enters(At(p))
                                /\ Waits(p)' <=> n # Aborted /\ At(p).op = "store"
                                /\ Checks(p)' <=> n # Aborted /\ At(p).op = "waitio"
<1> USE DEF Moves
<1>1. P2Type'
  BY DEF P2Type
<1>2. ASSUME NEW p \in Proc, p # curProc
      PROVE  /\ Inside(p)' <=> Inside(p)
             /\ Waits(p)' <=> Waits(p)
             /\ Checks(p)' <=> Checks(p)
  BY <1>2 DEF P2Type, Inside, Waits, Checks, At
<1>3. ASSUME NEW p \in Proc, p = curProc
      PROVE  /\ Inside(p)' <=> n # Aborted /\ Enters(At(p))
             /\ Waits(p)' <=> n # Aborted /\ At(p).op = "store"
             /\ Checks(p)' <=> n # Aborted /\ At(p).op = "waitio"
  <2>1. pc'[p] = n /\ prog'[p] = prog[p]
    BY <1>3 DEF P2Type
  <2>2. /\ Inside(p)' <=> n # Aborted /\ InPrint(Code[prog[p]][n])
        /\ Waits(p)' <=> n # Aborted /\ Code[prog[p]][n].op = "waitio"
        /\ Checks(p)' <=> n # Aborted /\ Code[prog[p]][n].op = "status"
    BY <2>1 DEF Inside, Waits, Checks, At, Aborted
  <2> QED BY <1>3, <2>2 DEF Follows
<1> QED BY <1>1, <1>2, <1>3

LEMMA GoOnMoves ==
  ASSUME TypeInv, P2Type, NEW op, Exec(op), op # "error", GoOn, prog' = prog
  PROVE  Moves(pc[curProc] + 1)
<1>1. /\ curProc \in Proc /\ pc[curProc] # Aborted
      /\ At(curProc).op = op
  BY ExecAt
<1>2. /\ pc[curProc] + 1 \in 1..Len(Code[prog[curProc]])
      /\ Follows(At(curProc), Code[prog[curProc]][pc[curProc] + 1])
  BY <1>1, NextInstruction
<1>3. pc[curProc] + 1 \in Nat
  BY <1>1 DEF P2Type
<1> QED BY <1>1, <1>2, <1>3 DEF Moves, GoOn, Goto

LEMMA AbortMoves ==
  ASSUME TypeInv, P2Type, NEW op, Exec(op), Goto(Aborted), prog' = prog
  PROVE  Moves(Aborted)
<1>1. /\ curProc \in Proc /\ pc[curProc] # Aborted
  BY ExecAt
<1>2. Aborted \in Nat /\ Aborted <= Len(Code[prog[curProc]])
  BY <1>1 DEF Aborted, P2Type
<1> QED BY <1>1, <1>2 DEF Moves, Goto

-----------------------------------------------------------------------------
(***************************************************************************)
(* Who is inside print after each step.                                    *)
(***************************************************************************)

\* An instruction that leaves term_mut alone keeps a process where it is.
LEMMA OtherInstruction ==
  ASSUME NEW ins, ~(ins.op \in {"P", "V"} /\ ins.arg = term_mut)
  PROVE  Enters(ins) <=> InPrint(ins)
BY DEF Enters, InPrint

\* The steps that matter to term_mut: its P and its V, ...
Takes ==
  /\ Passeren(term_mut) /\ ~Inside(curProc)
  /\ \A p \in Proc : Inside(p)' <=> Inside(p) \/ p = curProc
Gives ==
  /\ Verhogen(term_mut) /\ Inside(curProc)
  /\ \A p \in Proc : Inside(p)' <=> Inside(p) /\ p # curProc

\* ... and the others: nobody comes into print or out of it, and only the
\* death of a process that is blocked touches the semaphore.
Untouched(s) == sem'[s] = sem[s] /\ procQ'[s] = procQ[s]
Steady ==
  \A p \in Proc : /\ p \notin pcbFree => (Inside(p)' <=> Inside(p))
                  /\ p \in pcbFree \ pcbFree' => ~Inside(p)'
Outside == Steady /\ (Untouched(term_mut) \/ ReapBlocked)

\* Nobody comes to a WAITIO or from one.
StillWaits ==
  \A p \in Proc : p \notin pcbFree => (Waits(p)' <=> Waits(p)) /\ (Checks(p)' => Checks(p))

LEMMA TermMutSem ==
  term_mut \in UserSem /\ term_mut \in Sem /\ term_mut \notin DeviceSem
BY P2Sems, SemFacts

LEMMA MoveWaits ==
  ASSUME TypeInv, P2Type, NEW op, Exec(op), op \notin {"store", "waitio"},
         NEW n, Moves(n)
  PROVE  StillWaits
<1>1. Instruction = At(curProc) /\ Instruction.op = op
  BY ExecAt
<1>2. \A p \in Proc :
        /\ p # curProc => (Waits(p)' <=> Waits(p)) /\ (Checks(p)' <=> Checks(p))
        /\ p = curProc => /\ Waits(p)' <=> n # Aborted /\ At(p).op = "store"
                          /\ Checks(p)' <=> n # Aborted /\ At(p).op = "waitio"
  BY MoveKeeps
<1>3. ~Waits(curProc) /\ At(curProc).op \notin {"store", "waitio"}
  BY <1>1 DEF Waits
<1> QED BY <1>2, <1>3 DEF StillWaits

\* Where the current process goes on: as it was, but for a P or a V of term_mut.
LEMMA MoveSteady ==
  ASSUME TypeInv, P2Type, NEW op, Exec(op), NEW n, Moves(n),
         ~(op \in {"P", "V"} /\ Instruction.arg = term_mut),
         n = Aborted => ~Enters(Instruction),
         pcbFree \subseteq pcbFree'
  PROVE  P2Type' /\ Steady /\ (op \notin {"store", "waitio"} => StillWaits)
<1>1. /\ curProc \in Proc /\ pc[curProc] # Aborted
      /\ Instruction = At(curProc) /\ Instruction.op = op
  BY ExecAt
<1>2. /\ P2Type'
      /\ \A p \in Proc :
           /\ p # curProc => (Inside(p)' <=> Inside(p))
           /\ p = curProc => (Inside(p)' <=> n # Aborted /\ Enters(At(p)))
  BY MoveKeeps
<1>3. Enters(At(curProc)) <=> InPrint(At(curProc))
  BY <1>1, OtherInstruction
<1>4. Inside(curProc) <=> Enters(At(curProc))
  BY <1>1, <1>3 DEF Inside
<1>5. ASSUME NEW p \in Proc PROVE Inside(p)' <=> Inside(p)
  <2>1. CASE p = curProc
    BY <1>1, <1>2, <1>4, <2>1
  <2>2. CASE p # curProc
    BY <1>2, <2>2
  <2> QED BY <2>1, <2>2
<1> QED BY <1>2, <1>5, MoveWaits DEF Steady

LEMMA StandSteady ==
  ASSUME P2Type, UNCHANGED <<prog, pc>>, pcbFree \subseteq pcbFree'
  PROVE  P2Type' /\ Steady /\ StillWaits
<1>1. P2Type'
  BY DEF P2Type
<1>2. ASSUME NEW p \in Proc
      PROVE  /\ Inside(p)' <=> Inside(p)
             /\ Waits(p)' <=> Waits(p)
             /\ Checks(p)' <=> Checks(p)
  BY DEF Inside, Waits, Checks, At
<1> QED BY <1>1, <1>2 DEF Steady, StillWaits

\* The P and the V of other semaphores.
LEMMA OtherSem ==
  ASSUME TypeOK, NEW s \in Sem, s # term_mut, Passeren(s) \/ Verhogen(s)
  PROVE  Untouched(term_mut) /\ pcbFree' = pcbFree
<1>1. pcbFree' = pcbFree
  BY DEF Passeren, Verhogen, procVars
<1>2. sem'[term_mut] = sem[term_mut]
  BY TermMutSem DEF Passeren, Verhogen, TypeOK
<1>3. procQ'[term_mut] = procQ[term_mut]
  <2>1. CASE Passeren(s)
    BY <2>1, TermMutSem DEF Passeren, BlockCurProc, TypeOK
  <2>2. CASE Verhogen(s)
    BY <2>2, TermMutSem DEF Verhogen, TypeOK
  <2> QED BY <2>1, <2>2
<1> QED BY <1>1, <1>2, <1>3 DEF Untouched

\* The P and the V of the pseudo-clock and of devices.
LEMMA DeviceSems ==
  ASSUME TypeOK,
         WaitClock \/ IntervalTimer
           \/ \E d \in Devices : WaitIO(d) \/ DeviceInterrupt(d)
  PROVE  Untouched(term_mut) /\ pcbFree' = pcbFree
<1>1. term_mut # Clock /\ term_mut \in Sem /\ \A d \in Devices : term_mut # d
  BY TermMutSem DEF DeviceSem
<1>2. CASE WaitClock
  BY <1>1, <1>2 DEF WaitClock, BlockCurProc, TypeOK, Untouched, procVars, queueVars
<1>3. CASE IntervalTimer
  BY <1>1, <1>3 DEF IntervalTimer, TypeOK, Untouched, procVars
<1>4. ASSUME NEW d \in Devices, WaitIO(d)
      PROVE  Untouched(term_mut) /\ pcbFree' = pcbFree
  BY <1>1, <1>4 DEF WaitIO, BlockCurProc, TypeOK, Untouched, procVars, queueVars
<1>5. ASSUME NEW d \in Devices, DeviceInterrupt(d)
      PROVE  Untouched(term_mut) /\ pcbFree' = pcbFree
  <2>1. pcbFree' = pcbFree /\ sem' = [sem EXCEPT ![d] = @ + 1]
    BY <1>5 DEF DeviceInterrupt, procVars, VDevice
  <2>2. procQ' = procQ \/ procQ' = [procQ EXCEPT ![d] = Tail(@)]
    BY <1>5 DEF DeviceInterrupt
  <2> QED BY <1>1, <2>1, <2>2 DEF TypeOK, Untouched
<1> QED BY <1>2, <1>3, <1>4, <1>5

\* What else leaves the semaphores alone, and what it does to the free list.
LEMMA SemsAlone ==
  /\ Terminate \/ CreateRefused \/ Terminated \/ KillChild \/ ReapNeverBlocked
       \/ LocalTimer \/ StayStopped \/ UNCHANGED vars
     => Untouched(term_mut) /\ pcbFree' = pcbFree
  /\ \A t : SpecTrap(t) \/ Exception(t) => Untouched(term_mut) /\ pcbFree' = pcbFree
  /\ \A d : StartIO(d) \/ DeviceDone(d) => Untouched(term_mut) /\ pcbFree' = pcbFree
  /\ ReapReady \/ ReapRunning => Untouched(term_mut)
  /\ ReapReady \/ ReapRunning \/ ReapBlocked => pcbFree' = pcbFree \cup {Doomed}
<1>1. Terminate \/ CreateRefused \/ Terminated \/ KillChild \/ ReapNeverBlocked
         \/ LocalTimer \/ StayStopped \/ UNCHANGED vars
        => Untouched(term_mut) /\ pcbFree' = pcbFree
  BY DEF Terminate, CreateRefused, Terminated, KillChild, ReapNeverBlocked,
              LocalTimer, StayStopped, vars, queueVars, procVars, Untouched
<1>2. \A t : SpecTrap(t) \/ Exception(t) => Untouched(term_mut) /\ pcbFree' = pcbFree
  BY DEF SpecTrap, Exception, queueVars, procVars, Untouched
<1>3. \A d : StartIO(d) \/ DeviceDone(d) => Untouched(term_mut) /\ pcbFree' = pcbFree
  BY DEF StartIO, DeviceDone, queueVars, procVars, Untouched
<1>4. ReapReady \/ ReapRunning => Untouched(term_mut)
  BY DEF ReapReady, ReapRunning, Untouched
<1>5. ReapReady \/ ReapRunning \/ ReapBlocked => pcbFree' = pcbFree \cup {Doomed}
  BY DEF ReapReady, ReapRunning, ReapBlocked, Reap
<1> QED BY <1>1, <1>2, <1>3, <1>4, <1>5

LEMMA TakesStep ==
  ASSUME TypeInv, P2Type, ExecP, Instruction.arg = term_mut
  PROVE  P2Type' /\ Takes /\ StillWaits
<1>1. /\ Exec("P") /\ Passeren(term_mut)
      /\ Moves(pc[curProc] + 1) /\ pc[curProc] + 1 # Aborted
  BY GoOnMoves DEF ExecP, Same, TypeInv, TypeOK, P2Type, Aborted, Exec, RunInv
<1>2. /\ curProc \in Proc /\ Instruction = At(curProc) /\ Instruction.op = "P"
  BY <1>1, ExecAt
<1>3. /\ P2Type'
      /\ \A p \in Proc :
           /\ p # curProc => (Inside(p)' <=> Inside(p))
           /\ p = curProc => (Inside(p)' <=> Enters(At(p)))
  BY <1>1, MoveKeeps
<1>4. Enters(At(curProc)) /\ ~InPrint(At(curProc))
  BY <1>2 DEF Enters, InPrint
<1>5. ~Inside(curProc)
  BY <1>4 DEF Inside
<1>6. ASSUME NEW p \in Proc PROVE Inside(p)' <=> Inside(p) \/ p = curProc
  BY <1>3, <1>4
<1>7. StillWaits
  BY <1>1, MoveWaits
<1> QED BY <1>1, <1>3, <1>5, <1>6, <1>7 DEF Takes

LEMMA GivesStep ==
  ASSUME TypeInv, P2Type, ExecV, Instruction.arg = term_mut
  PROVE  P2Type' /\ Gives /\ StillWaits
<1>1. /\ Exec("V") /\ Verhogen(term_mut)
      /\ Moves(pc[curProc] + 1)
  BY GoOnMoves DEF ExecV, Same
<1>2. /\ curProc \in Proc /\ pc[curProc] # Aborted
      /\ Instruction = At(curProc) /\ Instruction.op = "V"
  BY <1>1, ExecAt
<1>3. /\ P2Type'
      /\ \A p \in Proc :
           /\ p # curProc => (Inside(p)' <=> Inside(p))
           /\ p = curProc => (Inside(p)' => Enters(At(p)))
  BY <1>1, MoveKeeps
<1>4. ~Enters(At(curProc)) /\ InPrint(At(curProc))
  BY <1>2 DEF Enters, InPrint
<1>5. Inside(curProc)
  BY <1>2, <1>4 DEF Inside
<1>6. ASSUME NEW p \in Proc PROVE Inside(p)' <=> Inside(p) /\ p # curProc
  BY <1>3, <1>4
<1>7. StillWaits
  BY <1>1, MoveWaits
<1> QED BY <1>1, <1>3, <1>5, <1>6, <1>7 DEF Gives

\* SYS1: the child begins outside print, its parent stays outside.
LEMMA CreateSteady ==
  ASSUME StructInv, P2Type, ExecCreate
  PROVE  P2Type' /\ Outside /\ StillWaits
<1>0. TypeInv /\ TypeOK /\ Placed /\ Exec("create")
  BY PlacedIff DEF StructInv, TypeInv, ExecCreate
<1>1. PICK kid \in pcbFree : pcbFree' = pcbFree \ {kid}
  BY DEF ExecCreate, CreateProcess
<1>2. pcbFree \ pcbFree' = {kid} /\ kid \in Proc
  BY <1>0, <1>1 DEF TypeOK
<1>3. /\ prog' = [prog EXCEPT ![kid] = Instruction.arg]
      /\ pc' = [pc EXCEPT ![curProc] = pc[curProc] + 1, ![kid] = 1]
  BY <1>2 DEF ExecCreate
<1>4. /\ curProc \in Proc /\ pc[curProc] # Aborted
      /\ At(curProc).op = "create" /\ Instruction.arg \in Programs
  BY <1>0, ExecAt DEF Instructions
<1>5. curProc # kid
  <2>1. curProc \in Executing
    BY <1>0, <1>4, ProcAssumption DEF Executing, Exec
  <2> QED BY <1>0, <1>1, <1>4, <2>1 DEF Placed
<1>6. /\ pc[curProc] + 1 \in 1..Len(Code[prog[curProc]])
      /\ ~InPrint(Code[prog[curProc]][pc[curProc] + 1])
  <2>1. ~Enters(At(curProc))
    BY <1>4 DEF Enters
  <2> QED BY <1>4, <2>1, NextInstruction DEF Follows
<1>7. /\ 1 <= Len(Code[Instruction.arg])
      /\ ~InPrint(Code[Instruction.arg][1])
  BY <1>4, FirstInstruction
<1>8. /\ \A p \in Proc : /\ p # kid => prog'[p] = prog[p]
                         /\ p \notin {kid, curProc} => pc'[p] = pc[p]
      /\ prog'[kid] = Instruction.arg /\ pc'[kid] = 1
      /\ pc'[curProc] = pc[curProc] + 1
  BY <1>2, <1>3, <1>4, <1>5 DEF P2Type
<1>9. P2Type'
  <2>1. prog' \in [Proc -> Programs] /\ pc' \in [Proc -> Nat]
    BY <1>2, <1>3, <1>4, <1>6 DEF P2Type
  <2>2. ASSUME NEW p \in Proc PROVE pc'[p] <= Len(Code[prog'[p]])
    <3>1. CASE p = kid
      BY <1>7, <1>8, <3>1
    <3>2. CASE p = curProc
      BY <1>5, <1>6, <1>8, <3>2
    <3>3. CASE p \notin {kid, curProc}
      BY <1>8, <3>3 DEF P2Type
    <3> QED BY <3>1, <3>2, <3>3
  <2> QED BY <2>1, <2>2 DEF P2Type
<1>10. ASSUME NEW p \in Proc, p # kid
       PROVE  /\ Inside(p)' <=> Inside(p)
              /\ Waits(p)' <=> Waits(p)
              /\ Checks(p)' <=> Checks(p)
  <2>1. CASE p = curProc
    <3>1. ~Inside(p)
      BY <1>4, <2>1 DEF Inside, InPrint
    <3>2. ~Inside(p)'
      BY <1>5, <1>6, <1>8, <2>1 DEF Inside, At
    <3> QED BY <3>1, <3>2, WaitsInside
  <2>2. CASE p # curProc
    BY <1>8, <1>10, <2>2 DEF Inside, Waits, Checks, At
  <2> QED BY <2>1, <2>2
<1>11. ~Inside(kid)'
  BY <1>7, <1>8 DEF Inside, At
<1>12. Steady /\ StillWaits
  BY <1>1, <1>2, <1>10, <1>11 DEF Steady, StillWaits
<1>13. Untouched(term_mut)
  BY DEF ExecCreate, CreateProcess, Untouched
<1> QED BY <1>9, <1>12, <1>13 DEF Outside

\* Who has waited for the terminal finds the status RECVD, if the nucleus has
\* not panicked over his WAITIO.
StatusInv ==
  mode # "panicExcep" =>
    \A p \in Proc : p \notin pcbFree /\ Checks(p) => p \in recvd \cup BlockedOn(Terminal)

LEMMA TerminalSem ==
  /\ Terminal \in Devices /\ Terminal \in Sem /\ Terminal \in DeviceSem
  /\ Terminal \notin UserSem /\ Terminal # Clock /\ Terminal # term_mut
BY SemFacts, P2Assumption, TermMutSem

\* Who runs is not free and not queued for the terminal.
LEMMA TerminalFree ==
  ASSUME StructInv, mode = "run"
  PROVE  curProc \notin BlockedOn(Terminal) /\ curProc \notin pcbFree
<1>1. TypeInv /\ TypeOK /\ Placed
  BY PlacedIff DEF StructInv, TypeInv
<1>2. curProc \in Proc /\ curProc \in Executing
  BY <1>1, ProcAssumption DEF TypeInv, RunInv, Executing
<1> QED BY <1>1, <1>2, TerminalSem DEF Placed

\* So the check of print never fails.
LEMMA StatusNow ==
  ASSUME StructInv, P2Type, StatusInv, Exec("status")
  PROVE  curProc \in recvd
<1>1. TypeInv /\ mode = "run"
  BY DEF StructInv, Exec
<1>2. curProc \in Proc /\ Checks(curProc)
  BY <1>1, ExecAt DEF Checks
<1> QED BY <1>1, <1>2, TerminalFree DEF StatusInv

LEMMA StatusSteady ==
  ASSUME StructInv, P2Type, StatusInv, ExecStatus
  PROVE  Exec("status") /\ GoOn /\ prog' = prog /\ UNCHANGED vars
<1>1. Exec("status")
  BY DEF ExecStatus
<1>2. curProc \in recvd
  BY <1>1, StatusNow
<1> QED BY <1>1, <1>2 DEF ExecStatus

LEMMA P2Step ==
  ASSUME StructInv, P2Type, StatusInv, [P2Next]_p2vars
  PROVE  /\ P2Type' /\ (Takes \/ Gives \/ Outside)
         /\ StillWaits \/ ExecStore \/ ExecWaitIO
<1>0. TypeInv /\ TypeOK /\ Terminal \in Devices
  BY P2Assumption DEF StructInv, TypeInv
<1> DEFINE Here == pcbFree \subseteq pcbFree' /\ (Untouched(term_mut) \/ ReapBlocked)
<1>1. ASSUME NEW op, Exec(op), op \notin {"error", "P", "V"}, Here,
             prog' = prog, GoOn \/ (Goto(Aborted) /\ op \in {"create", "synched", "zero"})
      PROVE  P2Type' /\ Outside /\ (op \notin {"store", "waitio"} => StillWaits)
  <2>1. CASE GoOn
    <3>1. Moves(pc[curProc] + 1)
      BY <1>0, <1>1, <2>1, GoOnMoves
    <3>2. pc[curProc] + 1 # Aborted
      BY <1>0, <1>1, ExecAt DEF P2Type, Aborted
    <3> QED BY <1>0, <1>1, <3>1, <3>2, MoveSteady DEF Outside
  <2>2. CASE Goto(Aborted) /\ op \in {"create", "synched", "zero"}
    <3>1. Moves(Aborted)
      BY <1>0, <1>1, <2>2, AbortMoves
    <3>2. ~Enters(Instruction)
      BY <1>0, <1>1, <2>2, ExecAt DEF Enters
    <3> QED BY <1>0, <1>1, <3>1, <3>2, MoveSteady DEF Outside
  <2> QED BY <1>1, <2>1, <2>2
<1>2. ASSUME UNCHANGED <<prog, pc>>, Here PROVE P2Type' /\ Outside /\ StillWaits
  BY <1>2, StandSteady DEF Outside
<1>3. CASE ExecP \/ ExecV
  <2>1. CASE Instruction.arg = term_mut
    BY <1>0, <1>3, <2>1, TakesStep, GivesStep
  <2>2. CASE Instruction.arg # term_mut
    <3>1. PICK op \in {"P", "V"} :
            Exec(op) /\ GoOn /\ prog' = prog
      BY <1>3 DEF ExecP, ExecV, Same
    <3>2. Instruction.arg \in Sem
      BY <1>0, <3>1, ExecAt, SemFacts DEF Instructions
    <3>3. Untouched(term_mut) /\ pcbFree' = pcbFree
      BY <1>0, <1>3, <2>2, <3>2, OtherSem DEF ExecP, ExecV
    <3>4. Moves(pc[curProc] + 1)
      BY <1>0, <3>1, GoOnMoves
    <3>5. pc[curProc] + 1 # Aborted
      BY <1>0, <3>1, ExecAt DEF P2Type, Aborted
    <3> QED BY <1>0, <2>2, <3>1, <3>3, <3>4, <3>5, MoveSteady DEF Outside
  <2> QED BY <2>1, <2>2
<1>4. CASE ExecWaitClock \/ ExecWaitIO
  <2>1. Untouched(term_mut) /\ pcbFree' = pcbFree
    BY <1>0, <1>4, DeviceSems DEF ExecWaitClock, ExecWaitIO
  <2>2. /\ Exec("waitclock") \/ (Exec("waitio") /\ ExecWaitIO)
        /\ GoOn /\ prog' = prog
    BY <1>4 DEF ExecWaitClock, ExecWaitIO, Same
  <2>3. Here
    BY <2>1
  <2>4. CASE Exec("waitclock")
    BY <1>1, <2>2, <2>3, <2>4
  <2>5. CASE Exec("waitio") /\ ExecWaitIO
    BY <1>1, <2>2, <2>3, <2>5
  <2> QED BY <2>2, <2>4, <2>5
<1>5. CASE ExecStore
  BY <1>1, <1>5, SemsAlone DEF ExecStore, Same
<1>6. CASE ExecTerminate
  BY <1>2, <1>6, SemsAlone DEF ExecTerminate, Same
<1>7. CASE ExecCreate
  BY <1>7, CreateSteady
<1>8. CASE ExecCreateRefused
  BY <1>1, <1>8, SemsAlone DEF ExecCreateRefused, Same
<1>9. CASE ExecTrap \/ ExecVector
  <2>1. Untouched(term_mut) /\ pcbFree' = pcbFree
    BY <1>9, SemsAlone DEF ExecTrap, ExecVector
  <2>2. /\ Exec("trap") \/ Exec("vector")
        /\ GoOn \/ UNCHANGED pc
        /\ prog' = prog
    BY <1>9 DEF ExecTrap, ExecVector, GoOnIfAlive, Same
  <2> QED BY <1>1, <1>2, <2>1, <2>2
<1>10. CASE ExecSynch
  <2>1. Untouched(term_mut) /\ pcbFree' = pcbFree
    BY <1>10, SemsAlone DEF ExecSynch
  <2> QED BY <1>1, <1>10, <2>1 DEF ExecSynch
<1>11. CASE ExecStatus
  <2>1. Exec("status") /\ GoOn /\ prog' = prog /\ UNCHANGED vars
    BY <1>11, StatusSteady
  <2>2. Untouched(term_mut) /\ pcbFree' = pcbFree
    BY <2>1, SemsAlone
  <2> QED BY <1>1, <2>1, <2>2
<1>12. CASE ExecTest
  <2>1. Untouched(term_mut) /\ pcbFree' = pcbFree /\ prog' = prog
    BY <1>12, SemsAlone DEF ExecTest
  <2>2. \/ (Exec("synched") \/ Exec("zero")) /\ (GoOn \/ Goto(Aborted))
        \/ Exec("either") /\ GoOn
        \/ /\ Exec("either") \/ Exec("skip")
           /\ Goto(pc[curProc] + Instruction.arg)
    BY <1>12 DEF ExecTest, GoOn
  <2>3. CASE (Exec("synched") \/ Exec("zero")) /\ (GoOn \/ Goto(Aborted))
    BY <1>1, <2>1, <2>3
  <2>4. CASE Exec("either") /\ GoOn
    BY <1>1, <2>1, <2>4
  <2>5. CASE /\ Exec("either") \/ Exec("skip")
             /\ Goto(pc[curProc] + Instruction.arg)
    <3>1. PICK op \in {"either", "skip"} : Exec(op)
      BY <2>5
    <3>2. /\ curProc \in Proc /\ pc[curProc] # Aborted
          /\ Instruction = At(curProc) /\ Instruction.op = op
      BY <1>0, <3>1, ExecAt
    <3>3. PICK n : n = pc[curProc] + Instruction.arg
      OBVIOUS
    <3>4. /\ n \in 1..Len(Code[prog[curProc]])
          /\ ~InPrint(Code[prog[curProc]][n])
      BY <3>1, <3>2, <3>3, NextInstruction DEF Jumps
    <3>5. ~Enters(At(curProc))
      BY <3>2 DEF Enters
    <3>6. Follows(At(curProc), Code[prog[curProc]][n])
      BY <3>4, <3>5, Apart
    <3>7. n \in Nat /\ n <= Len(Code[prog[curProc]]) /\ n # Aborted
      BY <3>4 DEF Aborted
    <3>8. Moves(n)
      BY <2>1, <2>5, <3>2, <3>3, <3>6, <3>7 DEF Moves, Goto
    <3> QED BY <1>0, <2>1, <3>1, <3>7, <3>8, MoveSteady DEF Outside
  <2> QED BY <2>2, <2>3, <2>4, <2>5
<1>13. CASE KillGoesOn
  <2>1. Here
    BY <1>13, SemsAlone DEF KillGoesOn, Kill
  <2> QED BY <1>2, <1>13, <2>1 DEF KillGoesOn, Unmoved
<1>14. CASE Finished \/ QuantumEnds \/ TerminalDone \/ UNCHANGED p2vars
  <2>1. Here
    BY <1>14, SemsAlone DEF Finished, QuantumEnds, TerminalDone, p2vars
  <2> QED BY <1>2, <1>14, <2>1 DEF Finished, QuantumEnds, TerminalDone, p2vars, Unmoved
<1>15. CASE ClockTicks \/ TerminalInterrupts
  <2>1. Here
    BY <1>0, <1>15, DeviceSems DEF ClockTicks, TerminalInterrupts
  <2> QED BY <1>2, <1>15, <2>1 DEF ClockTicks, TerminalInterrupts, Unmoved
<1> QED BY <1>3, <1>4, <1>5, <1>6, <1>7, <1>8, <1>9, <1>10, <1>11, <1>12, <1>13, <1>14,
           <1>15 DEF P2Next, Step

-----------------------------------------------------------------------------
(***************************************************************************)
(* The store, the WAITIO and the look at the status.                       *)
(***************************************************************************)
\* The store, after which the process has to wait for the terminal, ...
LEMMA StoreStep ==
  ASSUME TypeInv, P2Type, ExecStore
  PROVE  /\ mode = "run" /\ curProc \in Proc /\ StartIO(Terminal)
         /\ Inside(curProc) /\ ~Waits(curProc)
         /\ \A p \in Proc : /\ p # curProc => (Waits(p)' <=> Waits(p))
                            /\ p = curProc => Waits(p)'
                            /\ Checks(p)' => Checks(p)
                            /\ Inside(p)' <=> Inside(p)
<1>1. Exec("store") /\ GoOn /\ prog' = prog /\ StartIO(Terminal) /\ mode = "run"
  BY DEF ExecStore, Same, Exec
<1>2. /\ curProc \in Proc /\ pc[curProc] # Aborted
      /\ At(curProc).op = "store"
  BY <1>1, ExecAt
<1>3. Moves(pc[curProc] + 1) /\ pc[curProc] + 1 # Aborted
  BY <1>1, <1>2, GoOnMoves DEF P2Type, Aborted
<1>4. \A p \in Proc :
        /\ p # curProc => /\ Inside(p)' <=> Inside(p)
                          /\ Waits(p)' <=> Waits(p)
                          /\ Checks(p)' <=> Checks(p)
        /\ p = curProc => /\ Inside(p)' <=> Enters(At(p))
                          /\ Waits(p)' <=> At(p).op = "store"
                          /\ Checks(p)' <=> At(p).op = "waitio"
  BY <1>3, MoveKeeps
<1>5. Inside(curProc) /\ ~Waits(curProc) /\ Enters(At(curProc))
  BY <1>2 DEF Inside, Waits, InPrint, Enters
<1> QED BY <1>1, <1>2, <1>4, <1>5

\* ... and the WAITIO.
LEMMA WaitIOStep ==
  ASSUME TypeInv, P2Type, ExecWaitIO
  PROVE  /\ mode = "run" /\ curProc \in Proc /\ WaitIO(Terminal)
         /\ Inside(curProc) /\ Waits(curProc)
         /\ \A p \in Proc : /\ p # curProc => /\ Waits(p)' <=> Waits(p)
                                              /\ Checks(p)' <=> Checks(p)
                            /\ p = curProc => ~Waits(p)'
                            /\ Inside(p)' <=> Inside(p)
<1>1. Exec("waitio") /\ GoOn /\ prog' = prog /\ WaitIO(Terminal) /\ mode = "run"
  BY DEF ExecWaitIO, Same, Exec
<1>2. /\ curProc \in Proc /\ pc[curProc] # Aborted
      /\ At(curProc).op = "waitio"
  BY <1>1, ExecAt
<1>3. Moves(pc[curProc] + 1) /\ pc[curProc] + 1 # Aborted
  BY <1>1, <1>2, GoOnMoves DEF P2Type, Aborted
<1>4. \A p \in Proc :
        /\ p # curProc => /\ Inside(p)' <=> Inside(p)
                          /\ Waits(p)' <=> Waits(p)
                          /\ Checks(p)' <=> Checks(p)
        /\ p = curProc => /\ Inside(p)' <=> Enters(At(p))
                          /\ Waits(p)' <=> At(p).op = "store"
                          /\ Checks(p)' <=> At(p).op = "waitio"
  BY <1>3, MoveKeeps
<1>5. Inside(curProc) /\ Waits(curProc) /\ Enters(At(curProc))
  BY <1>2 DEF Inside, Waits, InPrint, Enters
<1> QED BY <1>1, <1>2, <1>4, <1>5

\* What the other steps do to the terminal.
Aside == UNCHANGED <<dev, issuer, strayV>> /\ Untouched(Terminal)

LEMMA TerminalActs ==
  ASSUME TypeInv, P2Type, [P2Next]_p2vars
  PROVE  \/ ExecStore \/ ExecWaitIO \/ Aside
         \/ ReapReady \/ ReapBlocked \/ ReapRunning
         \/ TerminalInterrupts \/ TerminalDone
<1>0. TypeOK
  BY DEF TypeInv
<1>1. ASSUME UNCHANGED <<sem, procQ>>, UNCHANGED <<dev, issuer, strayV>> PROVE Aside
  BY <1>1 DEF Aside, Untouched
<1>2. CASE ExecP \/ ExecV
  <2>1. Exec("P") \/ Exec("V")
    BY <1>2 DEF ExecP, ExecV
  <2>2. Instruction.arg \in UserSem
    BY <2>1, ExecAt DEF Instructions
  <2>3. PICK s \in Sem : s # Terminal /\ (Passeren(s) \/ Verhogen(s))
    BY <1>2, <2>2, TerminalSem, SemFacts DEF ExecP, ExecV
  <2>4. UNCHANGED <<dev, issuer, strayV>>
    BY <2>3 DEF Passeren, Verhogen, devVars
  <2>5. sem'[Terminal] = sem[Terminal]
    BY <1>0, <2>3, TerminalSem DEF Passeren, Verhogen, TypeOK
  <2>6. procQ'[Terminal] = procQ[Terminal]
    BY <1>0, <2>3, TerminalSem DEF Passeren, Verhogen, BlockCurProc, TypeOK
  <2> QED BY <2>4, <2>5, <2>6 DEF Aside, Untouched
<1>3. CASE ExecWaitClock
  <2>1. WaitClock
    BY <1>3 DEF ExecWaitClock
  <2>2. UNCHANGED <<dev, issuer, strayV>>
    BY <2>1 DEF WaitClock, devVars
  <2>3. sem'[Terminal] = sem[Terminal]
    BY <1>0, <2>1, TerminalSem, SemFacts DEF WaitClock, TypeOK
  <2>4. procQ'[Terminal] = procQ[Terminal]
    BY <1>0, <2>1, TerminalSem, SemFacts DEF WaitClock, BlockCurProc, queueVars, TypeOK
  <2> QED BY <2>2, <2>3, <2>4 DEF Aside, Untouched
<1>4. CASE ClockTicks
  <2>1. IntervalTimer
    BY <1>4 DEF ClockTicks
  <2>2. UNCHANGED <<dev, issuer, strayV>>
    BY <2>1 DEF IntervalTimer, devVars
  <2>3. sem'[Terminal] = sem[Terminal]
    BY <1>0, <2>1, TerminalSem, SemFacts DEF IntervalTimer, TypeOK
  <2>4. procQ'[Terminal] = procQ[Terminal]
    BY <1>0, <2>1, TerminalSem, SemFacts DEF IntervalTimer, TypeOK
  <2> QED BY <2>2, <2>3, <2>4 DEF Aside, Untouched
<1>5. CASE ExecTerminate \/ ExecCreate \/ ExecCreateRefused
  BY <1>1, <1>5 DEF ExecTerminate, ExecCreate, ExecCreateRefused, Terminate,
                    CreateProcess, CreateRefused, vars, queueVars, devVars
<1>6. CASE ExecTrap \/ ExecVector
  BY <1>1, <1>6 DEF ExecTrap, ExecVector, Exception, SpecTrap, queueVars, devVars
<1>7. CASE ExecSynch \/ ExecStatus \/ ExecTest \/ UNCHANGED p2vars
  BY <1>1, <1>7 DEF ExecSynch, ExecStatus, ExecTest, p2vars, vars, queueVars, devVars
<1>8. CASE Finished \/ QuantumEnds
  BY <1>1, <1>8 DEF Finished, StayStopped, QuantumEnds, LocalTimer, vars, queueVars,
                    devVars
<1>9. CASE KillGoesOn
  <2>1. CASE KillChild \/ ReapNeverBlocked \/ Terminated
    BY <1>1, <2>1 DEF KillChild, ReapNeverBlocked, Terminated, queueVars, devVars
  <2> QED BY <1>9, <2>1 DEF KillGoesOn, Kill
<1> QED BY <1>2, <1>3, <1>4, <1>5, <1>6, <1>7, <1>8, <1>9 DEF P2Next, Step

LEMMA PanicStays ==
  ASSUME mode = "panicExcep", [P2Next]_p2vars
  PROVE  mode' = "panicExcep"
<1>1. CASE UNCHANGED p2vars
  BY <1>1 DEF p2vars, vars, procVars
<1>2. CASE Step
  BY <1>2 DEF Step, ExecP, ExecV, ExecWaitClock, ExecWaitIO, ExecStore, ExecTerminate,
              ExecCreate, ExecCreateRefused, ExecTrap, ExecVector, ExecSynch, ExecStatus,
              ExecTest, Exec
<1>3. CASE KillGoesOn
  BY <1>3 DEF KillGoesOn, Kill, KillChild, Terminated, ReapReady, ReapBlocked,
              ReapRunning, ReapNeverBlocked, Childless
<1>4. CASE Finished
  BY <1>4 DEF Finished, StayStopped, vars, procVars
<1>5. CASE QuantumEnds \/ ClockTicks \/ TerminalInterrupts
  BY <1>5 DEF QuantumEnds, ClockTicks, TerminalInterrupts, InterruptsOn
<1>6. CASE TerminalDone
  BY <1>6 DEF TerminalDone, DeviceDone, procVars
<1> QED BY <1>1, <1>2, <1>3, <1>4, <1>5, <1>6 DEF P2Next

\* Who leaves the queue of the terminal has been given a status, or is dead.
LEMMA LeavesTerminal ==
  ASSUME StructInv, P2Type, [P2Next]_p2vars, ~ExecWaitIO
  PROVE  \A p \in BlockedOn(Terminal) :
           \/ p \in BlockedOn(Terminal)' \/ p \in pcbFree'
           \/ TerminalInterrupts /\ p \in recvd'
<1>0. TypeInv /\ TypeOK
  BY DEF StructInv, TypeInv
<1>1. ASSUME procQ'[Terminal] = procQ[Terminal]
      PROVE  BlockedOn(Terminal)' = BlockedOn(Terminal)
  BY <1>1 DEF BlockedOn
<1>2. CASE ExecStore \/ Aside \/ TerminalDone
  <2>1. procQ'[Terminal] = procQ[Terminal]
    BY <1>2 DEF ExecStore, StartIO, Aside, Untouched, TerminalDone, DeviceDone, queueVars
  <2> QED BY <1>1, <2>1
<1>3. CASE ReapReady \/ ReapRunning
  <2>1. procQ'[Terminal] = procQ[Terminal]
    BY <1>3 DEF ReapReady, ReapRunning
  <2> QED BY <1>1, <2>1
<1>4. CASE ReapBlocked
  <2>1. PICK s \in Sem : s = p_semAdd[Doomed] /\ Leaves(s, Doomed)
    BY <1>4, ReapLeaves
  <2>2. PICK v : v = Doomed
    OBVIOUS
  <2>3. pcbFree' = pcbFree \cup {v}
    BY <1>4, <2>2, SemsAlone
  <2>4. CASE s = Terminal
    <3>1. BlockedOn(Terminal)' = BlockedOn(Terminal) \ {v}
      BY <2>1, <2>2, <2>4 DEF Leaves
    <3> QED BY <2>3, <3>1
  <2>5. CASE s # Terminal
    <3>1. procQ'[Terminal] = procQ[Terminal]
      BY <1>0, <2>1, <2>5, TerminalSem DEF Leaves, TypeOK
    <3> QED BY <1>1, <3>1
  <2> QED BY <2>4, <2>5
<1>5. CASE TerminalInterrupts
  BY <1>5 DEF TerminalInterrupts
<1> QED BY <1>0, <1>2, <1>3, <1>4, <1>5, TerminalActs

LEMMA StatusStep ==
  ASSUME StructInv, P2Type, StatusInv, [P2Next]_p2vars
  PROVE  StatusInv'
<1>0. /\ TypeInv /\ P2Type' /\ (Takes \/ Gives \/ Outside)
      /\ StillWaits \/ ExecStore \/ ExecWaitIO
  BY P2Step DEF StructInv
<1>1. SUFFICES ASSUME mode' # "panicExcep", NEW p \in Proc,
                      p \notin pcbFree', Checks(p)'
               PROVE  p \in recvd' \/ p \in BlockedOn(Terminal)'
  BY DEF StatusInv
<1>2. mode # "panicExcep"
  BY <1>1, PanicStays
<1>3. CASE ExecWaitIO
  <2>1. PICK c : c = curProc
    OBVIOUS
  <2>2. /\ mode = "run" /\ c \in Proc /\ WaitIO(Terminal)
        /\ \A q \in Proc : q # c => (Checks(q)' <=> Checks(q))
    BY <1>0, <1>3, <2>1, WaitIOStep
  <2>3. recvd' = recvd \ {c} /\ pcbFree' = pcbFree
    BY <1>3, <2>1, <2>2 DEF ExecWaitIO, WaitIO, procVars
  <2>4. BlockCurProc(Terminal, softBlkCount')
    BY <1>1, <2>2 DEF WaitIO
  <2>5. Joins(Terminal, curProc)
    BY <1>0, <2>2, <2>4, BlockJoins, TerminalSem
  <2>6. BlockedOn(Terminal)' = BlockedOn(Terminal) \cup {c}
    BY <2>1, <2>5 DEF Joins
  <2> QED BY <1>1, <1>2, <2>2, <2>3, <2>6 DEF StatusInv
<1>4. ASSUME ~ExecWaitIO PROVE p \in recvd' \/ p \in BlockedOn(Terminal)'
  <2>1. p \notin pcbFree
    <3>1. SUFFICES ASSUME p \in pcbFree PROVE FALSE
      OBVIOUS
    <3>2. Outside
      BY <1>0, <1>1, <3>1 DEF Takes, Gives, Passeren, Verhogen, procVars
    <3> QED BY <1>1, <3>1, <3>2, WaitsInside DEF Outside, Steady
  <2>2. Checks(p)
    <3>1. CASE StillWaits
      BY <1>1, <2>1, <3>1 DEF StillWaits
    <3>2. CASE ExecStore
      BY <1>0, <1>1, <3>2, StoreStep
    <3> QED BY <1>0, <1>4, <3>1, <3>2
  <2>3. p \in recvd \/ p \in BlockedOn(Terminal)
    BY <1>2, <2>1, <2>2 DEF StatusInv
  <2>4. p \in recvd => p \in recvd'
    <3>1. CASE ExecStatus
      <4>1. /\ Exec("status") /\ Moves(pc[curProc] + 1) /\ curProc \in Proc
            /\ At(curProc).op = "status"
        BY <1>0, <3>1, StatusSteady, GoOnMoves, ExecAt
      <4>2. p # curProc
        BY <1>1, <4>1, MoveKeeps
      <4> QED BY <3>1, <4>2 DEF ExecStatus
    <3>2. CASE TerminalInterrupts
      BY <3>2 DEF TerminalInterrupts
    <3>3. CASE ~ExecStatus /\ ~TerminalInterrupts
      BY <1>4, <3>3
         DEF P2Next, Step, ExecP, ExecV, ExecWaitClock, ExecStore, ExecTerminate,
             ExecCreate, ExecCreateRefused, ExecTrap, ExecVector, ExecSynch, ExecTest,
             KillGoesOn, Finished, QuantumEnds, ClockTicks, TerminalDone, Same, Unmoved,
             p2vars
    <3> QED BY <3>1, <3>2, <3>3
  <2> QED BY <1>0, <1>1, <1>4, <2>3, <2>4, LeavesTerminal
<1> QED BY <1>3, <1>4

-----------------------------------------------------------------------------
(***************************************************************************)
(* Mutual exclusion.                                                       *)
(***************************************************************************)

\* Who is queued for term_mut has its P behind him.
QueuedInside == \A p \in BlockedOn(term_mut) : Inside(p)

MutexInv == TerminalMutex /\ QueuedInside

LEMMA PrintingIs ==
  \A p : /\ Printing(p) <=> /\ p \notin pcbFree
                             /\ p \notin BlockedOn(term_mut) /\ Inside(p)
         /\ Printing(p)' <=> /\ p \notin pcbFree'
                              /\ p \notin BlockedOn(term_mut)' /\ Inside(p)'
BY DEF Printing, Alive, Inside

\* Where the processes queued for term_mut are, and how many.
LEMMA MutexQueue ==
  ASSUME StructInv, UserSemInv
  PROVE  /\ TypeInv /\ TypeOK /\ sem[term_mut] \in Int
         /\ BlockedOn(term_mut) \subseteq Proc
         /\ \A p \in BlockedOn(term_mut) : p \notin pcbFree /\ p \notin Executing
         /\ mode = "run" =>
              /\ curProc \in Proc /\ curProc \notin pcbFree
              /\ curProc \notin BlockedOn(term_mut)
         /\ procQ[term_mut] # <<>> <=> sem[term_mut] < 0
<1>1. TypeInv /\ TypeOK /\ Placed
  BY PlacedIff DEF StructInv, TypeInv
<1>2. BlockedOn(term_mut) \subseteq Proc
  BY <1>1, PlacesTyped, TermMutSem
<1>3. \A p \in BlockedOn(term_mut) : p \notin pcbFree /\ p \notin Executing
  BY <1>1, <1>2, TermMutSem DEF Placed
<1>4. ASSUME mode = "run"
      PROVE  /\ curProc \in Proc /\ curProc \notin pcbFree
             /\ curProc \notin BlockedOn(term_mut)
  <2>1. curProc \in Proc /\ curProc \in Executing
    BY <1>1, <1>4, ProcAssumption DEF TypeInv, RunInv, Executing
  <2> QED BY <1>1, <1>3, <2>1 DEF Placed
<1>5. /\ Len(procQ[term_mut]) \in Nat /\ sem[term_mut] \in Int
      /\ procQ[term_mut] = <<>> <=> Len(procQ[term_mut]) = 0
  BY <1>1, TermMutSem, QueueLengths
<1>6. Len(procQ[term_mut]) = IF sem[term_mut] < 0 THEN -sem[term_mut] ELSE 0
  BY TermMutSem DEF UserSemInv
<1>7. procQ[term_mut] # <<>> <=> sem[term_mut] < 0
  BY <1>5, <1>6
<1> QED BY <1>1, <1>2, <1>3, <1>4, <1>5, <1>7

\* The P enters, or joins the queue.
LEMMA TakesMutex ==
  ASSUME StructInv, UserSemInv, MutexInv, Takes
  PROVE  MutexInv' /\ (TerminalHeld => TerminalHeld')
<1>1. PICK c : c = curProc
  OBVIOUS
<1>2. /\ mode = "run" /\ pcbFree' = pcbFree
      /\ sem' = [sem EXCEPT ![term_mut] = @ - 1]
  BY DEF Takes, Passeren, procVars
<1>3. /\ c \in Proc /\ c \notin pcbFree /\ c \notin BlockedOn(term_mut)
      /\ BlockedOn(term_mut) \subseteq Proc /\ sem[term_mut] \in Int /\ TypeOK
  BY <1>1, <1>2, MutexQueue
<1>4. sem'[term_mut] = sem[term_mut] - 1
  BY <1>2, <1>3, TermMutSem DEF TypeOK
<1>5. ~Inside(c) /\ \A p \in Proc : Inside(p)' <=> Inside(p) \/ p = c
  BY <1>1 DEF Takes
<1>6. ~Printing(c)
  BY <1>5, PrintingIs
<1>7. CASE sem[term_mut] = 1 /\ \A p \in Proc : ~Printing(p)
  <2>1. sem'[term_mut] = 0
    BY <1>4, <1>7
  <2>2. procQ' = procQ
    BY <2>1 DEF Takes, Passeren
  <2>3. BlockedOn(term_mut)' = BlockedOn(term_mut)
    BY <2>2 DEF BlockedOn
  <2>4. \A p \in Proc : Printing(p)' <=> p = c
    BY <1>2, <1>3, <1>5, <1>7, <2>3, PrintingIs
  <2>5. TerminalMutex' /\ TerminalHeld'
    BY <1>3, <2>1, <2>4 DEF TerminalMutex, TerminalHeld
  <2>6. QueuedInside'
    BY <1>3, <1>5, <2>3 DEF QueuedInside, MutexInv
  <2> QED BY <2>5, <2>6 DEF MutexInv
<1>8. CASE /\ sem[term_mut] <= 0
           /\ \A p, q \in Proc : Printing(p) /\ Printing(q) => p = q
  <2>1. sem'[term_mut] < 0 /\ sem'[term_mut] <= 0
    BY <1>3, <1>4, <1>8
  <2>2. BlockCurProc(term_mut, softBlkCount)
    BY <2>1 DEF Takes, Passeren
  <2>3. Joins(term_mut, curProc)
    BY <1>2, <2>2, BlockJoins, TermMutSem
  <2>4. BlockedOn(term_mut)' = BlockedOn(term_mut) \cup {c}
    BY <1>1, <2>3 DEF Joins
  <2>5. \A p \in Proc : Printing(p)' <=> Printing(p)
    BY <1>2, <1>5, <1>6, <2>4, PrintingIs
  <2>6. TerminalMutex' /\ (TerminalHeld => TerminalHeld')
    BY <1>8, <2>1, <2>5 DEF TerminalMutex, TerminalHeld
  <2>7. QueuedInside'
    BY <1>3, <1>5, <2>4 DEF QueuedInside, MutexInv
  <2> QED BY <2>6, <2>7 DEF MutexInv
<1> QED BY <1>7, <1>8 DEF MutexInv, TerminalMutex

\* The V, which only the printing process executes, hands over to the first of
\* the queue.
LEMMA GivesMutex ==
  ASSUME StructInv, UserSemInv, MutexInv, Gives
  PROVE  MutexInv' /\ TerminalHeld'
<1>1. PICK c : c = curProc
  OBVIOUS
<1>2. /\ mode = "run" /\ pcbFree' = pcbFree
      /\ sem' = [sem EXCEPT ![term_mut] = @ + 1]
  BY DEF Gives, Verhogen, procVars
<1>3. /\ c \in Proc /\ c \notin pcbFree /\ c \notin BlockedOn(term_mut)
      /\ BlockedOn(term_mut) \subseteq Proc /\ sem[term_mut] \in Int /\ TypeOK
      /\ \A p \in BlockedOn(term_mut) : p \notin pcbFree
      /\ procQ[term_mut] # <<>> <=> sem[term_mut] < 0
  BY <1>1, <1>2, MutexQueue
<1>4. sem'[term_mut] = sem[term_mut] + 1
  BY <1>2, <1>3, TermMutSem DEF TypeOK
<1>5. Inside(c) /\ \A p \in Proc : Inside(p)' <=> Inside(p) /\ p # c
  BY <1>1 DEF Gives
<1>6. Printing(c)
  BY <1>3, <1>5, PrintingIs
<1>7. /\ sem[term_mut] <= 0
      /\ \A p \in Proc : Printing(p) => p = c
  BY <1>3, <1>6 DEF MutexInv, TerminalMutex
<1>8. CASE sem[term_mut] = 0
  <2>1. sem'[term_mut] = 1 /\ procQ[term_mut] = <<>>
    BY <1>3, <1>4, <1>8
  <2>2. procQ' = procQ
    BY <2>1 DEF Gives, Verhogen
  <2>3. BlockedOn(term_mut)' = BlockedOn(term_mut)
    BY <2>2 DEF BlockedOn
  <2>4. \A p \in Proc : ~Printing(p)'
    BY <1>2, <1>5, <1>7, <2>3, PrintingIs
  <2>5. TerminalMutex' /\ TerminalHeld'
    BY <2>1, <2>4 DEF TerminalMutex, TerminalHeld
  <2>6. QueuedInside'
    BY <1>3, <1>5, <2>3 DEF QueuedInside, MutexInv
  <2> QED BY <2>5, <2>6 DEF MutexInv
<1>9. CASE sem[term_mut] < 0
  <2>1. sem'[term_mut] <= 0 /\ procQ[term_mut] # <<>>
    BY <1>3, <1>4, <1>9
  <2>2. procQ' = [procQ EXCEPT ![term_mut] = Tail(procQ[term_mut])]
    BY <2>1 DEF Gives, Verhogen, Releases
  <2>3. PICK h : h = Head(procQ[term_mut])
    OBVIOUS
  <2>4. Leaves(term_mut, h)
    BY <2>1, <2>2, <2>3, TailLeaves, TermMutSem
  <2>5. BlockedOn(term_mut)' = BlockedOn(term_mut) \ {h} /\ h \in BlockedOn(term_mut)
    BY <2>4 DEF Leaves
  <2>6. h \in Proc /\ h \notin pcbFree /\ h # c /\ Inside(h)
    BY <1>3, <2>5 DEF QueuedInside, MutexInv
  <2>7. \A p \in Proc : Printing(p)' <=> p = h
    BY <1>2, <1>5, <1>7, <2>5, <2>6, PrintingIs
  <2>8. TerminalMutex' /\ TerminalHeld'
    BY <2>1, <2>6, <2>7 DEF TerminalMutex, TerminalHeld
  <2>9. QueuedInside'
    BY <1>3, <1>5, <2>5 DEF QueuedInside, MutexInv
  <2> QED BY <2>8, <2>9 DEF MutexInv
<1> QED BY <1>3, <1>7, <1>8, <1>9

\* Elsewhere nothing changes, except that a waiter may be killed.
LEMMA OutsideMutex ==
  ASSUME StructInv, UserSemInv, MutexInv, Outside
  PROVE  MutexInv' /\ (TerminalHeld /\ SparesPrinters => TerminalHeld')
<1>1. /\ BlockedOn(term_mut) \subseteq Proc /\ sem[term_mut] \in Int /\ TypeOK
      /\ \A p \in BlockedOn(term_mut) : p \notin pcbFree
      /\ procQ[term_mut] # <<>> <=> sem[term_mut] < 0
  BY MutexQueue
<1>2. ASSUME Untouched(term_mut)
      PROVE  MutexInv' /\ (TerminalHeld /\ SparesPrinters => TerminalHeld')
  <2>1. BlockedOn(term_mut)' = BlockedOn(term_mut) /\ sem'[term_mut] = sem[term_mut]
    BY <1>2 DEF Untouched, BlockedOn
  <2>2. \A p \in Proc : Printing(p)' => Printing(p)
    BY <2>1, PrintingIs DEF Outside, Steady
  <2>3. \A p \in Proc : Printing(p) /\ p \notin pcbFree' => Printing(p)'
    BY <2>1, PrintingIs DEF Outside, Steady
  <2>4. TerminalMutex'
    BY <2>1, <2>2 DEF MutexInv, TerminalMutex
  <2>5. QueuedInside'
    BY <1>1, <2>1 DEF MutexInv, QueuedInside, Outside, Steady
  <2>6. TerminalHeld /\ SparesPrinters => TerminalHeld'
    BY <2>1, <2>3 DEF TerminalHeld, SparesPrinters
  <2> QED BY <2>4, <2>5, <2>6 DEF MutexInv
<1>3. CASE ReapBlocked
  <2>1. PICK s \in Sem : s = p_semAdd[Doomed] /\ Leaves(s, Doomed)
    BY <1>3, ReapLeaves
  <2>2. PICK v : v = Doomed
    OBVIOUS
  <2>3. /\ pcbFree' = pcbFree \cup {v}
        /\ \/ IsDeviceSem(s) /\ sem' = sem
           \/ ~IsDeviceSem(s) /\ sem' = [sem EXCEPT ![s] = @ + 1]
    BY <1>3, <2>1, <2>2 DEF ReapBlocked, Reap
  <2>4. PICK q \in Seq(Proc) : procQ' = [procQ EXCEPT ![s] = q]
    BY <2>1 DEF Leaves
  <2>5. CASE s # term_mut
    <3>1. Untouched(term_mut)
      BY <1>1, <2>3, <2>4, <2>5, TermMutSem DEF Untouched, TypeOK
    <3> QED BY <1>2, <3>1
  <2>6. CASE s = term_mut
    <3>1. /\ BlockedOn(term_mut)' = BlockedOn(term_mut) \ {v}
          /\ v \in BlockedOn(term_mut)
      BY <2>1, <2>2, <2>6 DEF Leaves
    <3>2. sem'[term_mut] = sem[term_mut] + 1
      BY <1>1, <2>3, <2>6, TermMutSem DEF IsDeviceSem, TypeOK
    <3>3. procQ[term_mut] # <<>>
      <4>1. procQ[term_mut] \in Seq(Proc)
        BY <1>1, TermMutSem DEF TypeOK
      <4> QED BY <3>1, <4>1, ToSetDef DEF BlockedOn
    <3>4. sem[term_mut] <= 0 /\ sem'[term_mut] <= 0
      BY <1>1, <3>2, <3>3
    <3>5. \A p \in Proc : Printing(p)' => Printing(p)
      BY <2>3, <3>1, PrintingIs DEF Outside, Steady
    <3>6. \A p \in Proc : Printing(p) /\ p \notin pcbFree' => Printing(p)'
      BY <3>1, PrintingIs DEF Outside, Steady
    <3>7. TerminalMutex'
      <4>1. \A p, q_ \in Proc : Printing(p) /\ Printing(q_) => p = q_
        BY DEF MutexInv, TerminalMutex
      <4> QED BY <3>4, <3>5, <4>1 DEF TerminalMutex
    <3>8. QueuedInside'
      BY <1>1, <3>1 DEF MutexInv, QueuedInside, Outside, Steady
    <3>9. TerminalHeld /\ SparesPrinters => TerminalHeld'
      BY <3>4, <3>6 DEF TerminalHeld, SparesPrinters
    <3> QED BY <3>7, <3>8, <3>9 DEF MutexInv
  <2> QED BY <2>5, <2>6
<1> QED BY <1>2, <1>3 DEF Outside
\* Every step keeps mutual exclusion, and one that kills nobody who prints
\* leaves somebody to give term_mut back.
LEMMA MutexStep ==
  ASSUME StructInv, UserSemInv, P2Type, StatusInv, MutexInv, [P2Next]_p2vars
  PROVE  MutexInv' /\ (TerminalHeld /\ SparesPrinters => TerminalHeld')
<1>1. Takes \/ Gives \/ Outside
  BY P2Step
<1> QED BY <1>1, TakesMutex, GivesMutex, OutsideMutex

LEMMA P2Start ==
  ASSUME P2Init
  PROVE  Init /\ CountInv /\ P2Type /\ StatusInv /\ MutexInv /\ TerminalHeld
<1>1. Init /\ CountInv /\ TypeOK
  BY CountInit DEF P2Init, CountInv, StructInv, TypeInv
<1>2. "p1" \in Programs
  BY ProgramNames
<1>3. 1 <= Len(Code["p1"]) /\ ~InPrint(Code["p1"][1])
  BY <1>2, FirstInstruction
<1>4. \A p \in Proc : prog[p] = "p1" /\ pc[p] = 1
  BY DEF P2Init
<1>5. P2Type
  <2>1. prog \in [Proc -> Programs] /\ pc \in [Proc -> Nat]
    BY <1>2 DEF P2Init
  <2> QED BY <1>3, <1>4, <2>1 DEF P2Type
<1>6. \A p \in Proc : ~Inside(p)
  BY <1>3, <1>4 DEF Inside, At
<1>7. sem[term_mut] = 1
  BY TermMutSem DEF P2Init
<1>8. BlockedOn(term_mut) = {}
  <2>1. procQ[term_mut] = <<>>
    BY <1>1, TermMutSem DEF Init
  <2>2. ToSet(procQ[term_mut]) = {}
    BY <2>1 DEF ToSet
  <2> QED BY <2>2 DEF BlockedOn
<1>9. MutexInv /\ TerminalHeld
  BY <1>6, <1>7, <1>8, PrintingIs
     DEF MutexInv, TerminalMutex, QueuedInside, TerminalHeld
<1>10. StatusInv
  BY <1>6, WaitsInside DEF StatusInv
<1> QED BY <1>1, <1>5, <1>9, <1>10

P2Inv == CountInv /\ P2Type /\ StatusInv /\ MutexInv

LEMMA P2InvStep ==
  ASSUME P2Inv, [P2Next]_p2vars
  PROVE  P2Inv' /\ [Next]_vars
<1>1. /\ CountInv /\ P2Type /\ StatusInv /\ MutexInv
      /\ StructInv /\ UserSemInv /\ TypeInv
  BY DEF P2Inv, CountInv, StructInv
<1>2. [Next]_vars
  BY <1>1, P2IsNucleus
<1>3. CountInv'
  BY <1>1, <1>2, CountStep
<1>4. P2Type' /\ StatusInv' /\ MutexInv'
  BY <1>1, P2Step, StatusStep, MutexStep
<1> QED BY <1>2, <1>3, <1>4 DEF P2Inv

LEMMA P2Correct == P2Spec => []P2Inv
<1>1. P2Init => P2Inv
  BY P2Start DEF P2Inv
<1>2. P2Inv /\ [P2Next]_p2vars => P2Inv'
  BY P2InvStep
<1> QED BY <1>1, <1>2, PTL DEF P2Spec

\* The whole test, in every interleaving, only does to the nucleus what the
\* nucleus module allows.
THEOREM P2ImplementsNucleus == P2Spec => Spec
<1>1. P2Init => Init
  BY P2Start
<1>2. P2Inv /\ [P2Next]_p2vars => [Next]_vars
  BY P2InvStep
<1> QED BY <1>1, <1>2, P2Correct, PTL DEF P2Spec, Spec

\* A process that looks at the status of its character finds RECVD, whichever
\* processes have waited for the terminal since and however fast it is: the
\* PANIC in print is never reached.
THEOREM StatusReceived == P2Spec => [](Exec("status") => curProc \in recvd)
<1>1. P2Inv => (Exec("status") => curProc \in recvd)
  BY StatusNow DEF P2Inv, CountInv
<1> QED BY <1>1, P2Correct, PTL

\* At most one process prints, ...
THEOREM PrintExcludes == P2Spec => []TerminalMutex
<1>1. P2Inv => TerminalMutex
  BY DEF P2Inv, MutexInv
<1> QED BY <1>1, P2Correct, PTL

\* ... and as long as nobody is killed between the P and the V of print,
\* somebody prints who will give term_mut back.
THEOREM TermMutKept == P2Spec /\ PrintersSurvive => []TerminalHeld
<1>1. P2Init => TerminalHeld
  BY P2Start
<1>2. TerminalHeld /\ P2Inv /\ [P2Next]_p2vars /\ [SparesPrinters]_p2vars => TerminalHeld'
  <2>1. ASSUME TerminalHeld, P2Inv, [P2Next]_p2vars, SparesPrinters
        PROVE  TerminalHeld'
    <3>1. StructInv /\ UserSemInv /\ P2Type /\ StatusInv /\ MutexInv
      BY <2>1 DEF P2Inv, CountInv
    <3> QED BY <2>1, <3>1, MutexStep
  <2>2. ASSUME TerminalHeld, UNCHANGED p2vars PROVE TerminalHeld'
    BY <2>2 DEF TerminalHeld, Printing, Alive, BlockedOn, InPrint, At, p2vars, vars, procVars
  <2> QED BY <2>1, <2>2
<1> QED BY <1>1, <1>2, P2Correct, PTL DEF P2Spec, PrintersSurvive
-----------------------------------------------------------------------------
(***************************************************************************)
(* The terminal, as long as nobody is killed who prints.  Its operation is *)
(* always somebody's: it is the process that has yet to call WAITIO, or    *)
(* the one that is queued, and either one prints.                          *)
(***************************************************************************)
TerminalInv ==
  /\ \A p \in Proc : issuer[Terminal] = p <=> p \notin pcbFree /\ Waits(p)
  /\ dev[Terminal] # "idle" => issuer[Terminal] # NoProc \/ procQ[Terminal] # <<>>
  /\ issuer[Terminal] # NoProc => dev[Terminal] = "busy"
  /\ \A p \in BlockedOn(Terminal) : Inside(p) /\ ~Waits(p)
  /\ \A p \in BlockedOn(term_mut) : ~Waits(p)
  /\ procQ[Terminal] = <<>> => sem[Terminal] = 0
  /\ strayV = 0

LEMMA TerminalFacts ==
  ASSUME StructInv, UserSemInv, DevInv, MutexInv, TerminalInv
  PROVE  /\ issuer[Terminal] \in Proc \cup {NoProc}
         /\ BlockedOn(Terminal) \subseteq Proc
         /\ \A p \in Proc : issuer[Terminal] = p => Printing(p)
         /\ \A p \in BlockedOn(Terminal) : p \notin pcbFree /\ Printing(p)
         /\ \A p, q \in Proc : Printing(p) /\ Printing(q) => p = q
         /\ procQ[Terminal] # <<>> =>
              /\ \E p \in Proc : p \in BlockedOn(Terminal)
              /\ Len(procQ[Terminal]) = 1 /\ sem[Terminal] = -1
              /\ issuer[Terminal] = NoProc
<1>1. TypeInv /\ TypeOK /\ Placed
  BY PlacedIff DEF StructInv, TypeInv
<1>2. issuer[Terminal] \in Proc \cup {NoProc} /\ procQ[Terminal] \in Seq(Proc)
  BY <1>1, TerminalSem DEF TypeOK
<1>3. BlockedOn(Terminal) \subseteq Proc
  BY <1>1, PlacesTyped, TerminalSem
<1>4. ASSUME NEW p \in Proc, issuer[Terminal] = p PROVE Printing(p)
  <2>1. p \notin pcbFree /\ Waits(p)
    BY <1>4 DEF TerminalInv
  <2>2. p \notin BlockedOn(term_mut)
    BY <2>1 DEF TerminalInv
  <2> QED BY <2>1, <2>2, WaitsInside, PrintingIs
<1>5. ASSUME NEW p \in BlockedOn(Terminal) PROVE p \notin pcbFree /\ Printing(p)
  <2>1. p \notin pcbFree /\ p \notin BlockedOn(term_mut)
    BY <1>1, <1>3, TerminalSem, TermMutSem DEF Placed
  <2>2. Inside(p)
    BY DEF TerminalInv
  <2> QED BY <2>1, <2>2, PrintingIs
<1>6. \A p, q \in Proc : Printing(p) /\ Printing(q) => p = q
  BY DEF MutexInv, TerminalMutex
<1>7. ASSUME procQ[Terminal] # <<>>
      PROVE  /\ \E p \in Proc : p \in BlockedOn(Terminal)
             /\ Len(procQ[Terminal]) = 1 /\ sem[Terminal] = -1
             /\ issuer[Terminal] = NoProc
  <2>1. Len(procQ[Terminal]) = 1 /\ sem[Terminal] = -1
    BY <1>7, TerminalSem DEF DevInv, DevSem
  <2>2. PICK p \in Proc : p \in BlockedOn(Terminal)
    <3>1. BlockedOn(Terminal) # {}
      BY <1>2, <1>7, ToSetDef DEF BlockedOn
    <3> QED BY <1>3, <3>1
  <2>3. Printing(p) /\ ~Waits(p)
    BY <1>5, <2>2 DEF TerminalInv
  <2>4. ASSUME issuer[Terminal] # NoProc PROVE FALSE
    <3>1. PICK q \in Proc : issuer[Terminal] = q
      BY <1>2, <2>4
    <3>2. Printing(q) /\ Waits(q)
      BY <1>4, <3>1 DEF TerminalInv
    <3> QED BY <1>6, <2>3, <3>2
  <2> QED BY <2>1, <2>2, <2>4
<1> QED BY <1>2, <1>3, <1>4, <1>5, <1>6, <1>7

\* Nobody joins the queue of term_mut but the process that executes the P.
LEMMA MutexQueueStep ==
  ASSUME StructInv, Takes \/ Gives \/ Outside
  PROVE  \A p \in BlockedOn(term_mut)' :
           p \in BlockedOn(term_mut) \/ (mode = "run" /\ p = curProc /\ ~Inside(p))
<1>1. TypeOK /\ procQ[term_mut] \in Seq(Proc)
  BY TermMutSem DEF StructInv, TypeInv, TypeOK
<1>2. ASSUME procQ'[term_mut] = procQ[term_mut]
      PROVE  BlockedOn(term_mut)' = BlockedOn(term_mut)
  BY <1>2 DEF BlockedOn
<1>3. CASE Takes
  <2>1. PICK c : c = curProc
    OBVIOUS
  <2>2. \/ procQ' = procQ
        \/ mode = "run" /\ BlockCurProc(term_mut, softBlkCount)
    BY <1>3 DEF Takes, Passeren
  <2>3. CASE mode = "run" /\ BlockCurProc(term_mut, softBlkCount)
    <3>1. Joins(term_mut, curProc)
      BY <2>3, BlockJoins, TermMutSem
    <3>2. BlockedOn(term_mut)' = BlockedOn(term_mut) \cup {c}
      BY <2>1, <3>1 DEF Joins
    <3> QED BY <1>3, <2>1, <2>3, <3>2 DEF Takes
  <2> QED BY <1>2, <2>2, <2>3
<1>4. CASE Gives
  <2>1. \/ procQ' = procQ
        \/ /\ procQ[term_mut] # <<>>
           /\ procQ' = [procQ EXCEPT ![term_mut] = Tail(procQ[term_mut])]
    BY <1>1, <1>4 DEF Gives, Verhogen, Releases
  <2>2. CASE /\ procQ[term_mut] # <<>>
             /\ procQ' = [procQ EXCEPT ![term_mut] = Tail(procQ[term_mut])]
    <3>1. PICK h : h = Head(procQ[term_mut])
      OBVIOUS
    <3>2. Leaves(term_mut, h)
      BY <2>2, <3>1, TailLeaves, TermMutSem
    <3> QED BY <3>2 DEF Leaves
  <2> QED BY <1>2, <2>1, <2>2
<1>5. CASE Outside
  <2>1. CASE Untouched(term_mut)
    BY <1>2, <2>1 DEF Untouched
  <2>2. CASE ReapBlocked
    <3>1. PICK s \in Sem : s = p_semAdd[Doomed] /\ Leaves(s, Doomed)
      BY <2>2, ReapLeaves
    <3>2. PICK v : v = Doomed
      OBVIOUS
    <3>3. CASE s = term_mut
      <4>1. BlockedOn(term_mut)' = BlockedOn(term_mut) \ {v}
        BY <3>1, <3>2, <3>3 DEF Leaves
      <4> QED BY <4>1
    <3>4. CASE s # term_mut
      <4>1. procQ'[term_mut] = procQ[term_mut]
        BY <1>1, <3>1, <3>4, TermMutSem DEF Leaves, TypeOK
      <4> QED BY <1>2, <4>1
    <3> QED BY <3>3, <3>4
  <2> QED BY <1>5, <2>1, <2>2 DEF Outside
<1> QED BY <1>3, <1>4, <1>5

\* What a step keeps that neither starts the terminal nor waits for it.
LEMMA OthersKeep ==
  ASSUME StructInv, UserSemInv, DevInv, MutexInv, TerminalInv, StillWaits,
         Takes \/ Gives \/ Outside, SparesPrinters,
         issuer'[Terminal] = issuer[Terminal]
  PROVE  /\ \A p \in Proc : issuer'[Terminal] = p <=> p \notin pcbFree' /\ Waits(p)'
         /\ \A p \in BlockedOn(term_mut)' : ~Waits(p)'
         /\ \A p \in BlockedOn(Terminal) : Inside(p)' /\ ~Waits(p)'
<1>1. /\ \A p \in BlockedOn(term_mut) : p \in Proc /\ p \notin pcbFree /\ ~Waits(p)
      /\ mode = "run" => curProc \in Proc /\ curProc \notin pcbFree
  BY MutexQueue DEF TerminalInv
<1>2. ASSUME NEW p \in Proc, p \in pcbFree, p \notin pcbFree' PROVE ~Waits(p)'
  <2>1. pcbFree' # pcbFree
    BY <1>2
  <2>2. Outside
    BY <2>1 DEF Takes, Gives, Passeren, Verhogen, procVars
  <2> QED BY <1>2, <2>2, WaitsInside DEF Outside, Steady
<1>3. ASSUME NEW p \in Proc
      PROVE  issuer'[Terminal] = p <=> p \notin pcbFree' /\ Waits(p)'
  <2>1. issuer[Terminal] = p <=> p \notin pcbFree /\ Waits(p)
    BY DEF TerminalInv
  <2>2. issuer[Terminal] = p => p \notin pcbFree'
    BY TerminalFacts DEF SparesPrinters
  <2> QED BY <1>2, <2>1, <2>2 DEF StillWaits
<1>4. ASSUME NEW p \in BlockedOn(term_mut)' PROVE ~Waits(p)'
  <2>1. p \in BlockedOn(term_mut) \/ (mode = "run" /\ p = curProc /\ ~Inside(p))
    BY MutexQueueStep
  <2>2. p \in Proc /\ p \notin pcbFree /\ ~Waits(p)
    BY <1>1, <2>1, WaitsInside
  <2> QED BY <2>2 DEF StillWaits
<1>5. ASSUME NEW p \in BlockedOn(Terminal) PROVE Inside(p)' /\ ~Waits(p)'
  <2>1. /\ p \in Proc /\ p \notin pcbFree /\ Printing(p)
        /\ Inside(p) /\ ~Waits(p)
    BY TerminalFacts DEF TerminalInv
  <2>2. ~Waits(p)'
    BY <2>1 DEF StillWaits
  <2>3. Gives => p # curProc
    <3>1. SUFFICES ASSUME Gives, p = curProc PROVE FALSE
      OBVIOUS
    <3>2. mode = "run"
      BY <3>1 DEF Gives, Verhogen
    <3> QED BY <3>1, <3>2, TerminalFree
  <2>4. Inside(p)'
    BY <2>1, <2>3 DEF Takes, Gives, Outside, Steady
  <2> QED BY <2>2, <2>4
<1> QED BY <1>3, <1>4, <1>5

LEMMA ServedNow ==
  ASSUME StructInv, UserSemInv, DevInv, P2Type, MutexInv, TerminalInv
  PROVE  TerminalServed
<1>1. PICK c : c = curProc
  OBVIOUS
<1>2. ASSUME NEW op, Exec(op), op \in {"store", "waitio"}
      PROVE  /\ c \in Proc /\ c \notin pcbFree /\ c \notin BlockedOn(Terminal)
             /\ Printing(c) /\ (Waits(c) <=> op = "waitio")
  <2>1. TypeInv /\ mode = "run"
    BY <1>2 DEF StructInv, Exec
  <2>2. /\ c \in Proc /\ c \notin pcbFree /\ c \notin BlockedOn(term_mut)
        /\ c \notin BlockedOn(Terminal)
    BY <1>1, <2>1, MutexQueue, TerminalFree
  <2>3. pc[c] # Aborted /\ At(c).op = op
    BY <1>1, <1>2, <2>1, ExecAt
  <2>4. Inside(c) /\ (Waits(c) <=> op = "waitio")
    BY <1>2, <2>3 DEF Inside, InPrint, Waits
  <2> QED BY <2>2, <2>4, PrintingIs
<1>3. ASSUME Exec("store")
      PROVE  dev[Terminal] = "idle" /\ issuer[Terminal] = NoProc
  <2>1. /\ c \in Proc /\ c \notin BlockedOn(Terminal)
        /\ Printing(c) /\ ~Waits(c)
    BY <1>2, <1>3
  <2>2. procQ[Terminal] = <<>>
    BY <2>1, TerminalFacts
  <2>3. issuer[Terminal] = NoProc
    <3>1. SUFFICES ASSUME NEW q \in Proc, issuer[Terminal] = q PROVE FALSE
      BY TerminalFacts
    <3>2. Printing(q) /\ Waits(q)
      BY <3>1, TerminalFacts DEF TerminalInv
    <3> QED BY <2>1, <3>2, TerminalFacts
  <2> QED BY <2>2, <2>3 DEF TerminalInv
<1>4. ASSUME Exec("waitio")
      PROVE  issuer[Terminal] = curProc /\ sem[Terminal] = 0
  <2>1. c \in Proc /\ c \notin pcbFree /\ Waits(c)
    BY <1>2, <1>4
  <2>2. issuer[Terminal] = c /\ c # NoProc
    BY <2>1, SemFacts DEF TerminalInv
  <2>3. procQ[Terminal] = <<>>
    BY <2>2, TerminalFacts
  <2> QED BY <1>1, <2>2, <2>3 DEF TerminalInv
<1> QED BY <1>3, <1>4 DEF TerminalServed, TerminalInv
\* A step that spares who prints keeps the terminal's part of the invariant.
LEMMA TerminalStep ==
  ASSUME SlowTerminal, StructInv, UserSemInv, DevInv, P2Type, StatusInv, MutexInv,
         TerminalInv, [P2Next]_p2vars, SparesPrinters
  PROVE  TerminalInv'
<1>0. /\ TypeInv /\ TypeOK
      /\ Takes \/ Gives \/ Outside
      /\ StillWaits \/ ExecStore \/ ExecWaitIO
  BY P2Step DEF StructInv, TypeInv
<1>1. CASE ExecStore
  <2>1. PICK c : c = curProc
    OBVIOUS
  <2>2. /\ mode = "run" /\ c \in Proc /\ StartIO(Terminal)
        /\ \A p \in Proc : /\ p # c => (Waits(p)' <=> Waits(p))
                           /\ p = c => Waits(p)'
                           /\ Inside(p)' <=> Inside(p)
    BY <1>0, <1>1, <2>1, StoreStep
  <2>3. /\ dev[Terminal] = "idle" /\ issuer[Terminal] = NoProc
        /\ dev'[Terminal] = "busy" /\ issuer'[Terminal] = c /\ c # NoProc
        /\ procQ' = procQ /\ sem' = sem /\ strayV' = strayV /\ pcbFree' = pcbFree
    BY <1>0, <2>1, <2>2, TerminalSem, SemFacts
       DEF StartIO, TypeOK, queueVars, procVars
  <2>4. /\ BlockedOn(Terminal)' = BlockedOn(Terminal)
        /\ BlockedOn(term_mut)' = BlockedOn(term_mut)
    BY <2>3 DEF BlockedOn
  <2>5. /\ c \notin pcbFree /\ c \notin BlockedOn(term_mut) /\ c \notin BlockedOn(Terminal)
        /\ BlockedOn(term_mut) \subseteq Proc /\ BlockedOn(Terminal) \subseteq Proc
    BY <2>1, <2>2, MutexQueue, TerminalFree, TerminalFacts
  <2>6. \A p \in Proc : issuer'[Terminal] = p <=> p \notin pcbFree' /\ Waits(p)'
    BY <2>2, <2>3, <2>5, SemFacts DEF TerminalInv
  <2>7. \A p \in BlockedOn(Terminal)' : Inside(p)' /\ ~Waits(p)'
    BY <2>2, <2>4, <2>5 DEF TerminalInv
  <2>8. \A p \in BlockedOn(term_mut)' : ~Waits(p)'
    BY <2>2, <2>4, <2>5 DEF TerminalInv
  <2> QED BY <2>3, <2>6, <2>7, <2>8 DEF TerminalInv
<1>2. CASE ExecWaitIO
  <2>1. PICK c : c = curProc
    OBVIOUS
  <2>2. /\ mode = "run" /\ c \in Proc /\ WaitIO(Terminal)
        /\ Inside(c) /\ Waits(c)
        /\ \A p \in Proc : /\ p # c => (Waits(p)' <=> Waits(p))
                           /\ p = c => ~Waits(p)'
                           /\ Inside(p)' <=> Inside(p)
    BY <1>0, <1>2, <2>1, WaitIOStep
  <2>3. /\ c \notin pcbFree /\ c \notin BlockedOn(term_mut) /\ c # NoProc
        /\ BlockedOn(term_mut) \subseteq Proc /\ BlockedOn(Terminal) \subseteq Proc
    BY <2>1, <2>2, MutexQueue, TerminalFacts, SemFacts
  <2>4. issuer[Terminal] = c /\ procQ[Terminal] = <<>> /\ sem[Terminal] = 0
    BY <2>2, <2>3, TerminalFacts DEF TerminalInv
  <2>5. /\ sem'[Terminal] = -1 /\ sem'[Terminal] < 0 /\ issuer'[Terminal] = NoProc
        /\ dev' = dev /\ strayV' = strayV /\ pcbFree' = pcbFree
    BY <1>0, <2>2, <2>4, TerminalSem DEF WaitIO, TypeOK, procVars
  <2>6. Joins(Terminal, curProc)
    <3>1. BlockCurProc(Terminal, softBlkCount')
      BY <2>2, <2>5 DEF WaitIO
    <3> QED BY <2>2, <3>1, BlockJoins, TerminalSem
  <2>7. /\ BlockedOn(Terminal)' = BlockedOn(Terminal) \cup {c}
        /\ procQ'[Terminal] # <<>>
    <3>1. Len(procQ'[Terminal]) = 1
      BY <2>4, <2>6 DEF Joins
    <3> QED BY <2>1, <2>6, <3>1 DEF Joins
  <2>8. BlockedOn(term_mut)' = BlockedOn(term_mut)
    <3>1. Untouched(term_mut)
      BY <1>0, <2>2, DeviceSems, TerminalSem
    <3> QED BY <3>1 DEF Untouched, BlockedOn
  <2>9. \A p \in Proc : issuer'[Terminal] = p <=> p \notin pcbFree' /\ Waits(p)'
    <3>1. \A p \in Proc : p # NoProc
      BY SemFacts
    <3>2. ASSUME NEW p \in Proc, p \notin pcbFree, Waits(p) PROVE p = c
      BY <2>4, <3>2 DEF TerminalInv
    <3> QED BY <2>2, <2>5, <3>1, <3>2
  <2>10. \A p \in BlockedOn(Terminal)' : Inside(p)' /\ ~Waits(p)'
    BY <2>2, <2>3, <2>7 DEF TerminalInv
  <2>11. \A p \in BlockedOn(term_mut)' : ~Waits(p)'
    BY <2>2, <2>3, <2>8 DEF TerminalInv
  <2> QED BY <2>5, <2>7, <2>9, <2>10, <2>11 DEF TerminalInv
<1>3. ASSUME StillWaits, issuer'[Terminal] = issuer[Terminal],
             BlockedOn(Terminal)' \subseteq BlockedOn(Terminal),
             dev'[Terminal] # "idle" =>
               issuer[Terminal] # NoProc \/ procQ'[Terminal] # <<>>,
             issuer[Terminal] # NoProc => dev'[Terminal] = "busy",
             procQ'[Terminal] = <<>> => sem'[Terminal] = 0,
             strayV' = strayV
      PROVE  TerminalInv'
  <2>1. /\ \A p \in Proc : issuer'[Terminal] = p <=> p \notin pcbFree' /\ Waits(p)'
        /\ \A p \in BlockedOn(term_mut)' : ~Waits(p)'
        /\ \A p \in BlockedOn(Terminal) : Inside(p)' /\ ~Waits(p)'
    BY <1>0, <1>3, OthersKeep
  <2> QED BY <1>3, <2>1 DEF TerminalInv
<1>4. ASSUME StillWaits, Untouched(Terminal), issuer'[Terminal] = issuer[Terminal],
             dev' = dev, strayV' = strayV
      PROVE  TerminalInv'
  <2>1. BlockedOn(Terminal)' = BlockedOn(Terminal)
    BY <1>4 DEF Untouched, BlockedOn
  <2> QED BY <1>3, <1>4, <2>1 DEF TerminalInv, Untouched
<1>5. ASSUME StillWaits, Aside PROVE TerminalInv'
  BY <1>4, <1>5 DEF Aside
<1>6. ASSUME StillWaits, ReapReady \/ ReapBlocked \/ ReapRunning PROVE TerminalInv'
  <2>1. PICK v : v = Doomed
    OBVIOUS
  <2>2. /\ v \in Proc /\ pcbFree' = pcbFree \cup {v}
        /\ issuer' = [d \in Devices |-> IF issuer[d] = v THEN NoProc ELSE issuer[d]]
        /\ dev' = dev /\ strayV' = strayV
    BY <1>0, <1>6, <2>1, DoomedType
       DEF ReapReady, ReapBlocked, ReapRunning, Childless, Reap
  <2>3. ~Printing(v)
    BY <2>2 DEF SparesPrinters
  <2>4. issuer'[Terminal] = issuer[Terminal]
    BY <2>2, <2>3, TerminalSem, TerminalFacts
  <2>5. CASE ReapReady \/ ReapRunning
    <3>1. Untouched(Terminal)
      BY <2>5 DEF ReapReady, ReapRunning, Untouched
    <3> QED BY <1>4, <1>6, <2>2, <2>4, <3>1
  <2>6. CASE ReapBlocked
    <3>1. PICK s \in Sem : s = p_semAdd[Doomed] /\ Leaves(s, Doomed)
      BY <2>6, ReapLeaves
    <3>2. s # Terminal
      BY <2>1, <2>3, <3>1, TerminalFacts DEF Leaves
    <3>3. procQ'[Terminal] = procQ[Terminal]
      BY <1>0, <3>1, <3>2, TerminalSem DEF Leaves, TypeOK
    <3>4. sem'[Terminal] = sem[Terminal]
      BY <1>0, <2>6, <3>1, <3>2, TerminalSem DEF ReapBlocked, TypeOK
    <3> QED BY <1>4, <1>6, <2>2, <2>4, <3>3, <3>4 DEF Untouched
  <2> QED BY <1>6, <2>5, <2>6
<1>7. ASSUME StillWaits, TerminalInterrupts PROVE TerminalInv'
  <2>1. /\ DeviceInterrupt(Terminal) /\ dev[Terminal] = "done" /\ issuer' = issuer
        /\ dev'[Terminal] = "idle" /\ sem'[Terminal] = sem[Terminal] + 1
    BY <1>0, <1>7, TerminalSem DEF TerminalInterrupts, DeviceInterrupt, VDevice, TypeOK
  <2>2. issuer[Terminal] = NoProc /\ procQ[Terminal] # <<>>
    BY <2>1 DEF TerminalInv
  <2>3. Len(procQ[Terminal]) = 1 /\ sem[Terminal] = -1
    BY <2>2, TerminalFacts
  <2>4. sem'[Terminal] = 0
    BY <2>1, <2>3
  <2>5. /\ procQ' = [procQ EXCEPT ![Terminal] = Tail(procQ[Terminal])]
        /\ strayV' = strayV
    BY <2>1, <2>2, <2>4 DEF DeviceInterrupt, Releases
  <2>6. PICK h : h = Head(procQ[Terminal])
    OBVIOUS
  <2>7. Leaves(Terminal, h)
    BY <2>2, <2>5, <2>6, TailLeaves, TerminalSem
  <2>8. BlockedOn(Terminal)' \subseteq BlockedOn(Terminal)
    BY <2>7 DEF Leaves
  <2> QED BY <1>3, <1>7, <2>1, <2>2, <2>4, <2>5, <2>8
<1>8. ASSUME StillWaits, TerminalDone PROVE TerminalInv'
  <2>1. /\ issuer[Terminal] = NoProc /\ dev[Terminal] = "busy" /\ issuer' = issuer
        /\ procQ' = procQ /\ sem' = sem /\ strayV' = strayV
    BY <1>8 DEF TerminalDone, DeviceDone, queueVars
  <2>2. procQ[Terminal] # <<>>
    BY <2>1 DEF TerminalInv
  <2>3. BlockedOn(Terminal)' = BlockedOn(Terminal)
    BY <2>1 DEF BlockedOn
  <2> QED BY <1>3, <1>8, <2>1, <2>2, <2>3
<1> QED BY <1>0, <1>1, <1>2, <1>5, <1>6, <1>7, <1>8, TerminalActs

LEMMA TerminalStart ==
  ASSUME P2Init PROVE TerminalInv
<1>1. P2Type /\ TypeOK /\ Init
  BY P2Start DEF CountInv, StructInv, TypeInv
<1>2. 1 <= Len(Code["p1"]) /\ ~InPrint(Code["p1"][1])
  BY FirstInstruction, ProgramNames
<1>3. \A p \in Proc : ~Inside(p)
  BY <1>2 DEF P2Init, Inside, At
<1>4. /\ dev[Terminal] = "idle" /\ issuer[Terminal] = NoProc /\ strayV = 0
      /\ procQ[Terminal] = <<>> /\ procQ[term_mut] = <<>>
      /\ sem[Terminal] = 0
  BY <1>1, TerminalSem, TermMutSem DEF Init
<1>5. BlockedOn(Terminal) = {} /\ BlockedOn(term_mut) = {}
  <2>1. ToSet(<<>>) = {}
    BY DEF ToSet
  <2> QED BY <1>4, <2>1 DEF BlockedOn
<1>6. \A p \in Proc : ~Waits(p) /\ p # NoProc
  BY <1>3, WaitsInside, SemFacts
<1> QED BY <1>4, <1>5, <1>6 DEF TerminalInv

\* With a terminal slower than a quantum, and as long as nobody is killed between
\* the P and the V of print, the terminal is idle at every store and every
\* interrupt of it finds its waiter.
THEOREM PrintServed ==
  ASSUME SlowTerminal PROVE P2Spec /\ PrintersSurvive => []TerminalServed
<1>1. P2Init => TerminalInv
  BY TerminalStart
<1>2. TerminalInv /\ P2Inv /\ [P2Next]_p2vars /\ [SparesPrinters]_p2vars => TerminalInv'
  <2>1. SUFFICES ASSUME TerminalInv, P2Inv, [P2Next]_p2vars, [SparesPrinters]_p2vars
                 PROVE  TerminalInv'
    OBVIOUS
  <2>2. SparesPrinters
    <3>1. CASE UNCHANGED p2vars
      BY <3>1 DEF SparesPrinters, Printing, Alive, p2vars, vars, procVars
    <3> QED BY <2>1, <3>1
  <2>3. StructInv /\ UserSemInv /\ DevInv /\ P2Type /\ StatusInv /\ MutexInv
    BY <2>1 DEF P2Inv, CountInv
  <2> QED BY <2>1, <2>2, <2>3, TerminalStep
<1>3. P2Inv /\ TerminalInv => TerminalServed
  BY ServedNow DEF P2Inv, CountInv
<1> QED BY <1>1, <1>2, <1>3, P2Correct, PTL DEF P2Spec, PrintersSurvive
=============================================================================
