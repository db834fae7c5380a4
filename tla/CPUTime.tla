------------------------------- MODULE CPUTime -------------------------------
(***************************************************************************)
(* What the timed nucleus charges its processes.  p_CPUTime is an unsigned *)
(* word, here of W bits, and cpu_t, in which GETCPUTIME answers, a signed  *)
(* one.  A process is charged stopTOD - startTOD when it blocks and when   *)
(* its quantum ends, and nothing when loadState sets startTOD in between;  *)
(* a process that an interrupt releases is charged the time its release    *)
(* took as start - end, which is negative.                                 *)
(***************************************************************************)
EXTENDS TimedNucleus

CONSTANT W  \* the width of a word, in bits

VARIABLES
  p_CPUTime,  \* the field of each PCB
  reading     \* history: the last answer of GETCPUTIME

cvars == <<tvars, p_CPUTime, reading>>

Charge(p, time) == [p_CPUTime EXCEPT ![p] = (@ + time) % 2^W]
\* The word n as a cpu_t.
Signed(n) == IF n < 2^(W - 1) THEN n ELSE n - 2^W
-----------------------------------------------------------------------------
\* blockCurProc charges the caller; allocPcb clears the time of a new process.
Calls(h) ==
  /\ Call(h)
  /\ LET born == pcbFree \ pcbFree'
         charged == IF curProc' = curProc THEN p_CPUTime
                                          ELSE Charge(curProc, since + h)
         Cleared(f) == [p \in Proc |-> IF p \in born THEN 0 ELSE f[p]] IN
       p_CPUTime' = Cleared(charged) /\ reading' = Cleared(reading)

\* SYS6: the answer includes the time since startTOD, which loadState then sets.
\* The sum is unsigned, the answer a cpu_t.
GetCPUTime(h) ==
  /\ mode = "run" /\ ~Pending
  /\ reading' = [reading EXCEPT ![curProc] =
                   Signed((p_CPUTime[curProc] + since + h) % 2^W)]
  /\ Reload(h) /\ Elapse(h)
  /\ UNCHANGED <<vars, p_CPUTime>>

QuantumCharged(h) ==
  /\ QuantumEnd(h)
  /\ p_CPUTime' = Charge(curProc, since)
  /\ UNCHANGED reading

\* The process released by an interrupt pays for h units of the handler.
IOCharged(h) ==
  /\ IOInterrupt(h)
  /\ p_CPUTime' = [p \in Proc |->
       IF \E d \in Devices : p \in BlockedOn(d) /\ p \notin ToSet(procQ'[d])
         THEN (p_CPUTime[p] - h) % 2^W
         ELSE p_CPUTime[p]]
  /\ UNCHANGED reading

ClockCharged ==
  /\ ClockTick
  /\ \E pay \in [BlockedOn(Clock) -> HandlerTimes] :
       p_CPUTime' = [p \in Proc |->
         IF p \in BlockedOn(Clock) THEN (p_CPUTime[p] - pay[p]) % 2^W
                                   ELSE p_CPUTime[p]]
  /\ UNCHANGED reading

Uncharged ==
  /\ Tick \/ Store \/ Done \/ TimeStops \/ \E h \in HandlerTimes : KillStep(h)
  /\ UNCHANGED <<p_CPUTime, reading>>

CInit ==
  /\ TInit
  /\ p_CPUTime = [p \in Proc |-> 0]
  /\ reading = [p \in Proc |-> 0]

CNext ==
  \/ ClockCharged \/ Uncharged
  \/ \E h \in HandlerTimes :
       Calls(h) \/ GetCPUTime(h) \/ QuantumCharged(h) \/ IOCharged(h)

CSpec == CInit /\ [][CNext]_cvars
-----------------------------------------------------------------------------
\* GETCPUTIME, "the processor time of the requesting process": what a process
\* is told does not go back while it lives.
ReadingsGrow ==
  [][\A p \in Proc : p \notin pcbFree => reading'[p] >= reading[p]]_cvars
=============================================================================
