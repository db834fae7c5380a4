----------------------------- MODULE TimedNucleus -----------------------------
(***************************************************************************)
(* The nucleus and its two timers.  Time passes in units: one in a Tick of *)
(* a program or of WAIT, `h` in a handler, which masks interrupts.  Both   *)
(* timers count down all the while, in WAIT too; their interrupt is        *)
(* pending at 0, and is taken before the program goes on.                  *)
(*                                                                         *)
(* The nucleus sets startTOD whenever it loads a state (loadState) and     *)
(* reads the time since then as stopTOD - startTOD: `since`.               *)
(***************************************************************************)
EXTENDS Nucleus

CONSTANTS QUANTUMTIME,   \* the time slice
          INTERVALTIME,  \* between two ticks of the pseudo-clock
          MAXINT,        \* what the local timer is set to for WAIT
          HandlerTimes,  \* how long a handler may take
          MaxCuts        \* bound: how far the histories count

\* h/const.h lines 37 and 38: a quantum is shorter than an interval.
ASSUME TimeAssumption ==
  /\ {QUANTUMTIME, INTERVALTIME, MAXINT} \subseteq Nat \ {0}
  /\ QUANTUMTIME <= INTERVALTIME /\ INTERVALTIME < MAXINT
  /\ HandlerTimes \subseteq Nat \ {0} /\ MaxCuts \in Nat

VARIABLES
  timer,     \* the local timer
  interval,  \* the interval timer
  since,     \* stopTOD - startTOD, were the time of day read now
  ranFor,    \* history: how long curProc has executed since its dispatch
  cuts       \* history: the interrupts that returned to it

timeVars == <<timer, interval, since, ranFor, cuts>>
tvars == <<vars, timeVars>>

After(h, count) == IF count > h THEN count - h ELSE 0
-----------------------------------------------------------------------------
\* The histories stop at their bounds.
Count(n, limit) == IF n < limit THEN n + 1 ELSE n

Elapse(h) == interval' = After(h, interval)

\* loadState(oldSys), at the end of a system call that does not block: the
\* quantum goes on, startTOD is set.
\* Mutant of Reload: every load starts a quantum.
ReloadRestarts(h) ==
  /\ timer' = QUANTUMTIME /\ since' = 0
  /\ UNCHANGED <<ranFor, cuts>>
Reload(h) ==
  /\ timer' = After(h, timer) /\ since' = 0
  /\ UNCHANGED <<ranFor, cuts>>

\* nextVictim: a quantum for the process dispatched, none for WAIT.
\* Mutant of TimerFor: WAIT is entered with the timer as it is.
TimerNotParked == IF mode' = "run" THEN QUANTUMTIME ELSE timer
TimerFor ==
  CASE mode' = "run" -> QUANTUMTIME
    [] mode' = "wait" -> MAXINT
    [] OTHER -> timer
Schedule == timer' = TimerFor /\ since' = 0 /\ ranFor' = 0 /\ cuts' = 0

\* The end of intHandler: "return stolen time".
TimeLeft == IF since < QUANTUMTIME THEN QUANTUMTIME - since ELSE timer

\* (A trap in the handler, its waiter killed, is passed up or kills.)
Return(h) ==
  \/ /\ curProc # NoProc /\ strayV' = strayV
     /\ timer' = TimeLeft /\ since' = 0 /\ cuts' = Count(cuts, MaxCuts)
     /\ UNCHANGED ranFor
  \/ curProc # NoProc /\ strayV' # strayV /\ Reload(h)
  \/ curProc = NoProc /\ Schedule
-----------------------------------------------------------------------------
Pending == timer = 0 \/ interval = 0 \/ \E d \in Devices : dev[d] = "done"

Tick ==
  /\ mode \in {"run", "wait"} /\ ~Pending
  /\ interval' = interval - 1 /\ timer' = timer - 1
  /\ IF mode = "run"
       THEN /\ since' = since + 1
            /\ ranFor' = Count(ranFor, QUANTUMTIME * (MaxCuts + 1))
       ELSE UNCHANGED <<since, ranFor>>
  /\ UNCHANGED <<vars, cuts>>

\* A system call or a trap: back to the process, or to nextVictim.
Call(h) ==
  /\ ~Pending
  /\ SystemCall \/ \E t \in TrapTypes : Exception(t)
  /\ IF mode' \in {"run", "kill"} /\ curProc' = curProc
       THEN Reload(h)
       ELSE Schedule
  /\ Elapse(h)

Store == ~Pending /\ (\E d \in Devices : StartIO(d)) /\ UNCHANGED timeVars

\* The last step of a kill, or a trap that is passed up, leaves the handler.
KillStep(h) ==
  /\ Kill
  /\ \/ mode' = "kill" /\ UNCHANGED timeVars
     \/ noose = <<>> /\ Schedule /\ Elapse(h)
     \/ noose # <<>> /\ mode' # "kill" /\ Reload(h) /\ Elapse(h)

\* The interrupts, in order of priority.  When line 1 finds no process its
\* handler works on curProc = NULL: a trap of the nucleus.
QuantumEnd(h) ==
  /\ timer = 0 /\ Interruptible
  /\ IF mode = "run"
       THEN LocalTimer /\ Schedule
       ELSE /\ InnocentOrNoose("PROGTRAP")
            /\ UNCHANGED <<queueVars, procVars, devVars, curProc,
                           p_exceptionConfig, sem, softBlkCount, waiting>>
            /\ UNCHANGED <<timer, since, ranFor, cuts>>
  /\ Elapse(h)

ClockTick ==
  /\ timer # 0 /\ interval = 0
  /\ IntervalTimer
  /\ Return(0)
  /\ interval' = INTERVALTIME

IOInterrupt(h) ==
  /\ timer # 0 /\ interval # 0
  /\ \E d \in Devices : DeviceInterrupt(d)
  /\ Return(h) /\ Elapse(h)

Done == (\E d \in Devices : DeviceDone(d)) /\ UNCHANGED timeVars
TimeStops == StayStopped /\ UNCHANGED timeVars

TInit ==
  /\ Init
  /\ timer = QUANTUMTIME /\ interval = INTERVALTIME
  /\ since = 0 /\ ranFor = 0 /\ cuts = 0

Handle(h) == Call(h) \/ KillStep(h) \/ QuantumEnd(h) \/ IOInterrupt(h)

TNext ==
  \/ Tick \/ Store \/ Done \/ TimeStops \/ ClockTick
  \/ \E h \in HandlerTimes : Handle(h)

TSpec == TInit /\ [][TNext]_tvars

(***************************************************************************)
(* Fairness.  Time passes, the nucleus runs on, devices complete, pending  *)
(* interrupts are taken.  That quanta end is a consequence.                *)
(***************************************************************************)
TFairSpec ==
  /\ TSpec
  /\ WF_tvars(Tick) /\ WF_tvars(ClockTick) /\ WF_tvars(Done)
  /\ WF_tvars(\E h \in HandlerTimes :
                KillStep(h) \/ QuantumEnd(h) \/ IOInterrupt(h))
-----------------------------------------------------------------------------
\* A process runs with at most a quantum on the timer, of which `since` is
\* spent; and line 1 never finds the nucleus idle: another interrupt ends each
\* WAIT before the local timer has run down (scheduler.c, 93).
TimerInv ==
  /\ mode = "run" => timer + since <= QUANTUMTIME
  /\ mode = "wait" => timer # 0

\* Interrupts postpone the end of a quantum, but each by a quantum at most.
QuantumBound == ranFor <= QUANTUMTIME * (cuts + 1)
=============================================================================
