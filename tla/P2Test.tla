------------------------------- MODULE P2Test -------------------------------
(***************************************************************************)
(* The nucleus running its test program, phase2/p2test.c: the processes    *)
(* p1 to p7 and the p8 tree, with the semaphores they share.               *)
(*                                                                         *)
(* A program is a sequence of instructions, of which a system call, a      *)
(* trap, a store to the terminal and a test of a global are one each, and  *)
(* `ie` says whether interrupts are enabled: they are not in p5's trap     *)
(* handlers.  Their control flow being fixed, handlers stand in line with  *)
(* the code that traps.                                                    *)
(*                                                                         *)
(* What the test takes for granted about time is said where it is used: a  *)
(* quantum lets a process execute an instruction (LocalTimer's `fresh`),   *)
(* and the terminal is slower than the way from the store of a command to  *)
(* WAITIO, even, if SlowTerminal, when the quantum ends on that way.  What *)
(* GETCPUTIME tells p2 and p3 is left open, with the messages they print   *)
(* about it (see CPUTime); the terminal transmits without errors.          *)
(***************************************************************************)
EXTENDS Nucleus

CONSTANTS term_mut, testsem, startp2, endp2, endp3, blkp4, synp4, endp4,
          endp5, endp8, endcreate, blkp8, s0,
          Terminal,     \* the transmitter of terminal 0
          SlowTerminal, \* it is slower than a quantum (TerminalDone)
          MAXSEM,       \* p2's V's and P's are of s[0] to s[MAXSEM]
          MSGLEN,       \* bound: the characters of a message
          CLOCKLOOP,    \* p3's waits for the clock
          P8LOOP        \* the incarnations of p8root

ASSUME P2Assumption ==
  /\ LET others == {testsem, startp2, endp2, endp3, blkp4, synp4, endp4, endp5,
                    endp8, endcreate, blkp8, s0}
     IN  UserSem = others \cup {term_mut} /\ term_mut \notin others
  /\ Devices = {Terminal} /\ VectorTypes = TrapTypes /\ Proc \subseteq Nat
  /\ {MSGLEN, CLOCKLOOP, P8LOOP, MAXSEM} \subseteq Nat /\ SlowTerminal \in BOOLEAN

VARIABLES
  prog,       \* the program a PCB executes
  pc,         \* the index of its next instruction
  p1p2synch,  \* the global by which p1 and p2 check their order
  recvd,      \* who has RECVD in v0, from his WAITIO to his look at it
  fresh       \* no instruction was executed since the last dispatch

p2vars == <<vars, prog, pc, p1p2synch, recvd, fresh>>
-----------------------------------------------------------------------------
(***************************************************************************)
(* The programs.                                                           *)
(***************************************************************************)
I(op, arg) == <<[op |-> op, arg |-> arg, ie |-> TRUE]>>
P(s) == I("P", s)
V(s) == I("V", s)
Create(program) == I("create", program)
Vector(trap) == I("vector", trap)
Trap(trap) == I("trap", trap)
TerminateThread == I("terminate", NoSem)
WaitForClock == I("waitclock", NoSem)
\* What follows prints "error" and PANICs, or leaves the program: a process
\* must never come to execute it.
Error == I("error", NoSem)

Times(n, code) == FlattenSeq([i \in 1..n |-> code])
Perhaps(code) == I("either", Len(code) + 1) \o code

\* A character: its status has to be RECVD.
Transmit == I("store", NoSem) \o I("waitio", NoSem) \o I("status", NoSem)

\* Mutant of print: without term_mut.
printUnlocked == Times(MSGLEN, Transmit)
print == P(term_mut) \o Times(MSGLEN, Transmit) \o V(term_mut)

\* A delay of at least half a clock interval: if the first tick comes sooner,
\* the wait for the second one is long enough.
\* Mutant of Delay: none.
DelayNone == <<>>
Delay == Perhaps(WaitForClock) \o WaitForClock

p1 ==
  V(testsem) \o print \o Create("p2") \o print \o V(startp2) \o P(endp2)
  \o I("synched", NoSem)
  \o Create("p3") \o print \o P(endp3)
  \o Create("p4") \o Create("p5") \o Create("p6") \o Create("p7")
  \o P(endp5) \o print \o P(blkp4)
  \o Times(P8LOOP, Create("p8root") \o P(endp8))
  \o print \o Trap("PROGTRAP") \o Error

\* The semaphores s[0] to s[MAXSEM] are p2's alone, and 0 between its rounds:
\* s0 stands for each in turn.  The verdict on SYS6 is "p2 is OK", or "p2 blew
\* it!" after one or both of its reasons.
p2 ==
  P(startp2) \o print \o Times(MAXSEM + 1, V(s0) \o P(s0) \o I("zero", s0))
  \o print \o Perhaps(print) \o Perhaps(print) \o print
  \o I("synch", NoSem) \o V(endp2) \o TerminateThread \o Error

\* The last message is "CPU time correctly maintained", or that it is not.
p3 ==
  Delay \o print \o Times(CLOCKLOOP, WaitForClock) \o print
  \o V(endp3) \o TerminateThread \o Error

p4 ==
  print \o V(synp4) \o P(blkp4) \o P(synp4) \o Create("p4") \o P(synp4)
  \o print \o V(endp4) \o TerminateThread \o Error

Disabled(code) == [i \in 1..Len(code) |-> [code[i] EXCEPT !.ie = FALSE]]
\* p5prog and p5mm: print, and return to what follows in p5.
Handler == Disabled(print)
\* p5sys adds 4 to a PC that the nucleus has advanced: an instruction behind
\* the system call, in the library's SYSCALL, is skipped.
Skip == Disabled(I("skip", 2)) \o I("skipped", NoSem)
p5sys == Handler \o Skip

p5b == Trap("SYSTRAP") \o p5sys
p5 ==
  print \o Vector("PROGTRAP") \o Vector("TLBTRAP") \o Vector("SYSTRAP")
  \o Trap("PROGTRAP") \o Handler        \* a bus error, and p5prog
  \o Trap("TLBTRAP") \o Handler         \* p5a, and p5mm
  \o p5b \o Trap("PROGTRAP") \o Handler \* p5b: P is privileged in user mode
  \o p5b \o P(endp4)                    \* p5b again, in kernel mode
  \o Delay \o V(blkp4) \o V(endp5) \o Vector("PROGTRAP") \o Error

p6 == print \o Trap("SYSTRAP") \o Error
p7 == print \o Trap("PROGTRAP") \o Error

p8root ==
  print \o Create("child") \o Create("child") \o Times(4, P(endcreate))
  \o V(endp8) \o TerminateThread \o Error

child == print \o Create("p8leaf") \o Create("p8leaf") \o P(blkp8) \o Error

\* Mutants of p8leaf: it signals before it prints; it does not print.
p8leafSignalsFirst == V(endcreate) \o print \o P(blkp8) \o Error
p8leafSilent == V(endcreate) \o P(blkp8) \o Error
p8leaf == print \o V(endcreate) \o P(blkp8) \o Error

Code == [p1 |-> p1, p2 |-> p2, p3 |-> p3, p4 |-> p4, p5 |-> p5, p6 |-> p6,
         p7 |-> p7, p8root |-> p8root, child |-> child, p8leaf |-> p8leaf]

At(p) == Code[prog[p]][pc[p]]
Instruction == At(curProc)
-----------------------------------------------------------------------------
(***************************************************************************)
(* The current process executes its next instruction.                      *)
(***************************************************************************)
Goto(n) == pc' = [pc EXCEPT ![curProc] = n]
GoOn == Goto(pc[curProc] + 1)
\* Where a test of the program that fails goes: print "error", PANIC.
Aborted == 0

\* The processor after a step: a process just dispatched is fresh.
Dispatched == fresh' = (curProc' # curProc \/ mode' # "run")

Exec(op) == mode = "run" /\ pc[curProc] # Aborted /\ Instruction.op = op
Same == UNCHANGED <<prog, p1p2synch, recvd>>

ExecP == Exec("P") /\ Passeren(Instruction.arg) /\ GoOn /\ Same
ExecV == Exec("V") /\ Verhogen(Instruction.arg) /\ GoOn /\ Same
ExecWaitClock == Exec("waitclock") /\ WaitClock /\ GoOn /\ Same
ExecWaitIO ==
  /\ Exec("waitio") /\ WaitIO(Terminal) /\ GoOn
  /\ recvd' = recvd \ {curProc}
  /\ UNCHANGED <<prog, p1p2synch>>
ExecStore == Exec("store") /\ StartIO(Terminal) /\ GoOn /\ Same
ExecTerminate == Exec("terminate") /\ Terminate /\ Same /\ UNCHANGED pc

\* SYS1: which free PCB is taken makes no difference.  Without one p1 reports
\* an "error in process termination"; p4, p8root and child do not look.
ExecCreate ==
  /\ Exec("create")
  /\ CreateProcess
  /\ \A child_ \in pcbFree \ pcbFree' :
       /\ \A q \in pcbFree : child_ <= q
       /\ prog' = [prog EXCEPT ![child_] = Instruction.arg]
       /\ pc' = [pc EXCEPT ![curProc] = @ + 1, ![child_] = 1]
  /\ UNCHANGED <<p1p2synch, recvd>>
ExecCreateRefused ==
  /\ Exec("create") /\ CreateRefused /\ Same
  /\ IF Instruction.arg = "p8root" THEN Goto(Aborted) ELSE GoOn

\* A trap and SYS5 go on in line, or the process is terminated.
GoOnIfAlive == IF mode' = "run" THEN GoOn ELSE UNCHANGED pc
ExecTrap ==
  Exec("trap") /\ Exception(Instruction.arg) /\ GoOnIfAlive /\ Same
ExecVector ==
  Exec("vector") /\ SpecTrap(Instruction.arg) /\ GoOnIfAlive /\ Same

\* Steps outside the nucleus.
ExecSynch ==
  /\ Exec("synch")
  /\ p1p2synch' = TRUE
  /\ GoOn
  /\ UNCHANGED <<vars, prog, recvd>>
ExecStatus ==
  /\ Exec("status")
  /\ IF curProc \in recvd THEN GoOn ELSE Goto(Aborted)
  /\ recvd' = recvd \ {curProc}
  /\ UNCHANGED <<vars, prog, p1p2synch>>
ExecTest ==
  /\ \/ /\ Exec("synched")
        /\ IF p1p2synch THEN GoOn ELSE Goto(Aborted)
     \/ /\ Exec("zero")
        /\ IF sem[Instruction.arg] = 0 THEN GoOn ELSE Goto(Aborted)
     \/ /\ Exec("either")
        /\ \E n \in {1, Instruction.arg} : Goto(pc[curProc] + n)
     \/ Exec("skip") /\ Goto(pc[curProc] + Instruction.arg)
  /\ UNCHANGED <<vars, prog, p1p2synch, recvd>>

Step ==
  /\ \/ ExecP \/ ExecV \/ ExecWaitClock \/ ExecWaitIO \/ ExecStore
     \/ ExecTerminate \/ ExecCreate \/ ExecCreateRefused
     \/ ExecTrap \/ ExecVector \/ ExecSynch \/ ExecStatus \/ ExecTest
  /\ Dispatched
-----------------------------------------------------------------------------
(***************************************************************************)
(* Interrupts and devices.                                                 *)
(***************************************************************************)
InterruptsOn == mode = "wait" \/ (mode = "run" /\ Instruction.ie)

Unmoved == UNCHANGED <<prog, pc, p1p2synch, recvd>>

QuantumEnds ==
  InterruptsOn /\ ~fresh /\ LocalTimer /\ fresh' = TRUE /\ Unmoved
ClockTicks == InterruptsOn /\ IntervalTimer /\ UNCHANGED fresh /\ Unmoved
\* p->p_s.s_v0 = status, if there is a waiter.
TerminalInterrupts ==
  /\ InterruptsOn /\ DeviceInterrupt(Terminal)
  /\ recvd' = recvd \cup (BlockedOn(Terminal) \ BlockedOn(Terminal)')
  /\ UNCHANGED fresh /\ UNCHANGED <<prog, pc, p1p2synch>>
\* The issuer of the command has come to WAITIO, unless his quantum ended
\* before and the terminal is the faster one.
TerminalDone ==
  /\ issuer[Terminal] = NoProc \/ (~SlowTerminal /\ issuer[Terminal] # curProc)
  /\ DeviceDone(Terminal)
  /\ UNCHANGED fresh /\ Unmoved

KillGoesOn == Kill /\ fresh' = TRUE /\ Unmoved

Finished == StayStopped /\ UNCHANGED fresh /\ Unmoved

P2Init ==
  /\ sem = [s \in Sem |-> IF s \in {term_mut, blkp4} THEN 1 ELSE 0]
  /\ curProc = CHOOSE p \in Proc : \A q \in Proc : p <= q
  /\ Init
  /\ prog = [p \in Proc |-> "p1"]
  /\ pc = [p \in Proc |-> 1]
  /\ p1p2synch = FALSE
  /\ recvd = {}
  /\ fresh = TRUE

P2Next ==
  \/ Step \/ KillGoesOn \/ Finished
  \/ QuantumEnds \/ ClockTicks \/ TerminalInterrupts \/ TerminalDone

P2Spec == P2Init /\ [][P2Next]_p2vars

\* Programs and nucleus run on, the terminal completes, a pending interrupt is
\* taken in the end.  Nothing is assumed of the local timer.
P2FairSpec ==
  /\ P2Spec
  /\ WF_p2vars(Step) /\ WF_p2vars(KillGoesOn) /\ WF_p2vars(TerminalDone)
  /\ SF_p2vars(ClockTicks) /\ SF_p2vars(TerminalInterrupts)
-----------------------------------------------------------------------------
(***************************************************************************)
(* Properties.                                                             *)
(***************************************************************************)
Alive(p) == p \notin pcbFree
FirstP == CHOOSE p \in Proc : \A q \in Proc : p <= q

\* The test passes in every interleaving, but for its opinion on GETCPUTIME: no
\* other check of a program fails, the status of each character included,
\* none goes on where it should have been terminated, the nucleus does not
\* PANIC, and it HALTs only once p1 has come to its last trap.
TestPasses ==
  /\ mode \notin {"panicSched", "panicExcep", "fallthrough"}
  /\ mode = "run" => pc[curProc] # Aborted /\ Instruction.op # "error"
  /\ mode = "halt" => pc[FirstP] = Len(p1) - 1

\* Between the P and the V of print, the P not having blocked.
InPrint(instruction) ==
  \/ instruction.op \in {"store", "waitio", "status"}
  \/ instruction.op = "V" /\ instruction.arg = term_mut
Printing(p) ==
  /\ Alive(p) /\ p \notin BlockedOn(term_mut)
  /\ pc[p] # Aborted /\ InPrint(At(p))

\* At most one process prints, and none while term_mut is free: though p5
\* prints in its trap handlers, and waiters for term_mut are killed.
TerminalMutex ==
  \/ sem[term_mut] = 1 /\ \A p \in Proc : ~Printing(p)
  \/ sem[term_mut] <= 0 /\ \A p, q \in Proc : Printing(p) /\ Printing(q) => p = q

\* The test kills nobody between the P and the V of print, ...
SparesPrinters == \A p \in Proc : Printing(p) => p \notin pcbFree'
PrintersSurvive == [][SparesPrinters]_p2vars

\* ... so that term_mut is never lost: while it is taken somebody prints, who
\* will give it back.
TerminalHeld == sem[term_mut] <= 0 => \E p \in Proc : Printing(p)

\* What term_mut is for: no store meets a terminal that is at work or has an
\* answer nobody has asked for, each WAITIO waits for the caller's own store,
\* and every interrupt of the terminal finds its waiter.
TerminalServed ==
  /\ Exec("store") => dev[Terminal] = "idle" /\ issuer[Terminal] = NoProc
  /\ Exec("waitio") => issuer[Terminal] = curProc /\ sem[Terminal] = 0
  /\ strayV = 0

\* "if p4 and offspring are really dead, this will increment blkp4": p5's delay
\* is long enough for the processes that were ready when it began.
P4DeadBeforeV ==
  Exec("V") /\ Instruction.arg = blkp4 =>
    \A p \in Proc : Alive(p) => prog[p] # "p4"

\* The test kills ready, running and blocked processes, but none that waits for
\* the terminal and none that has yet to block: it does not reach the states
\* in which a kill is lost.
KillsAreSafe ==
  \A p \in ToSet(noose) : p_semAdd[p] # NoSem /\ p \notin BlockedOn(Terminal)

\* WAITIO after the interrupt is an "unhandled niche case that doesn't appear in
\* testing": it does, if the quantum ends behind the store of a character and
\* the terminal is done before the process runs again.
NicheCaseAbsent == mode # "panicExcep"

\* The test comes to its end.
TestHalts == <>(mode = "halt")
=============================================================================
