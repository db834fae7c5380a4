------------------------------- MODULE Terminal -------------------------------
(***************************************************************************)
(* How intHandler finds out which device interrupts and whose semaphore to *)
(* V (phase2/interrupts.c, findSem of phase2/initial.c), for devices on    *)
(* several lines.  A terminal is two subdevices with a status each but one *)
(* bit in interrupt_dev.                                                   *)
(*                                                                         *)
(* A program starts an operation and calls WAITIO for it, which is one     *)
(* step here; a pending interrupt is taken before the next program step.   *)
(***************************************************************************)
EXTENDS Integers, Sequences, FiniteSetsExt

CONSTANTS Lines,     \* interrupt lines in use
          DevNums,   \* device numbers in use on each line
          MAXSEMS,   \* semaphores, the last one being the pseudo-clock's
          OneActive  \* a terminal reads or writes, not both at a time

LINENUMOFFSET == 3
TERMINT == 7
DEVPERINT == 8
READY == 1
BUSY == 3
DONE == 5  \* CHAR TRANSMITTED, CHAR RECEIVED; other devices become READY

ASSUME LineAssumption ==
  /\ Lines \subseteq LINENUMOFFSET..TERMINT
  /\ DevNums \subseteq 0..DEVPERINT - 1
  /\ MAXSEMS = 49
ASSUME OneActiveAssumption == OneActive \in BOOLEAN

\* The subdevices: what a program names in WAITIO.
Sub == [line : Lines, dev : DevNums, read : BOOLEAN]
SubDevices == {s \in Sub : s.read => s.line = TERMINT}

VARIABLES
  status,      \* the status register of each subdevice
  pending,     \* the subdevices whose interrupt has not been acknowledged
  semaphores,
  waiting,     \* the operations that the processes queued on a semaphore await
  v0           \* what the last process released got for an answer

tvars == <<status, pending, semaphores, waiting, v0>>
-----------------------------------------------------------------------------
\* Mutant of FindSem: a read uses the next device's semaphore.
FindSemNext(line, dev, isRead) ==
  (line - LINENUMOFFSET) * DEVPERINT + dev + (IF isRead THEN 1 ELSE 0)
FindSem(line, dev, isRead) ==
  (line - LINENUMOFFSET + (IF isRead THEN 1 ELSE 0)) * DEVPERINT + dev
SemOf(sub) == FindSem(sub.line, sub.dev, sub.read)

\* The lowest line, and on it the lowest device, with an interrupt pending.
FindLineIndex == Min({s.line : s \in pending})
FindDeviceIndex(line) == Min({s.dev : s \in {r \in pending : r.line = line}})

Writer(line, dev) == [line |-> line, dev |-> dev, read |-> FALSE]
Reader(line, dev) == [line |-> line, dev |-> dev, read |-> TRUE]

\* A transmitter that is not READY is taken for the one that interrupts.
\* Mutant of IsReadTerm: called after ack, which has made the writer READY.
IsReadTermAfterAck(line, dev) == line = TERMINT
IsReadTerm(line, dev) ==
  line = TERMINT /\ status[Writer(line, dev)] = READY

\* handleTerminal: the register that is read and acknowledged.
\* Mutant of Acked: the receiver's register is not looked at.
AckedTransmitter(line, dev) == Writer(line, dev)
Acked(line, dev) ==
  IF line = TERMINT /\ status[Writer(line, dev)] = READY
    THEN Reader(line, dev)
    ELSE Writer(line, dev)

\* Outside: ACK ends an interrupt; a busy device ignores it.
Acknowledge(sub) ==
  IF status[sub] = BUSY
    THEN UNCHANGED <<status, pending>>
    ELSE /\ status' = [status EXCEPT ![sub] = READY]
         /\ pending' = pending \ {sub}
-----------------------------------------------------------------------------
\* A program starts an operation and waits for it.
StartAndWait(sub) ==
  /\ pending = {} /\ status[sub] = READY
  /\ OneActive /\ sub.line = TERMINT =>
       status[Reader(sub.line, sub.dev)] = READY
         /\ status[Writer(sub.line, sub.dev)] = READY
  /\ status' = [status EXCEPT ![sub] = BUSY]
  /\ semaphores' = [semaphores EXCEPT ![SemOf(sub)] = @ - 1]
  /\ waiting' = [waiting EXCEPT ![SemOf(sub)] = Append(@, sub)]
  /\ UNCHANGED <<pending, v0>>

Complete(sub) ==
  /\ status[sub] = BUSY
  /\ status' = [status EXCEPT ![sub] = IF sub.line = TERMINT THEN DONE ELSE READY]
  /\ pending' = pending \cup {sub}
  /\ UNCHANGED <<semaphores, waiting, v0>>

\* intHandler, lines 3 to 7.
Interrupt ==
  /\ pending # {}
  /\ LET line == FindLineIndex
         dev == FindDeviceIndex(line)
         acked == Acked(line, dev)
         sem == FindSem(line, dev, IsReadTerm(line, dev)) IN
       /\ semaphores[sem] < 1  \* bound: one V that nobody waits for
       /\ Acknowledge(acked)
       /\ semaphores' = [semaphores EXCEPT ![sem] = @ + 1]
       /\ IF semaphores'[sem] <= 0 /\ waiting[sem] # <<>>
            THEN /\ waiting' = [waiting EXCEPT ![sem] = Tail(@)]
                 /\ v0' = status[acked]
            ELSE UNCHANGED <<waiting, v0>>

Init ==
  /\ status = [s \in SubDevices |-> READY]
  /\ pending = {}
  /\ semaphores = [i \in 0..MAXSEMS - 1 |-> 0]
  /\ waiting = [i \in 0..MAXSEMS - 1 |-> <<>>]
  /\ v0 = READY

Next ==
  \/ \E s \in SubDevices : StartAndWait(s) \/ Complete(s)
  \/ Interrupt

\* Devices complete, pending interrupts are taken.
Spec ==
  /\ Init /\ [][Next]_tvars
  /\ WF_tvars(Interrupt)
  /\ \A s \in SubDevices : WF_tvars(Complete(s))
-----------------------------------------------------------------------------
\* Every semaphore counts its own waiter and nothing else: no V goes to a
\* neighbour's, none is lost, and the pseudo-clock's is never touched.
WaitersCounted ==
  /\ \A i \in 0..MAXSEMS - 1 : semaphores[i] + Len(waiting[i]) = 0
  /\ waiting[MAXSEMS - 1] = <<>>

\* An operation that is under way or not acknowledged has its waiter, who is
\* alone on his semaphore.
AwaitedInPlace ==
  \A s \in SubDevices :
    waiting[SemOf(s)] =
      IF status[s] = BUSY \/ s \in pending THEN <<s>> ELSE <<>>

\* "v0 of the waiting process will have status update": who is released gets
\* the status of the operation he waits for, completed, and that interrupt is
\* acknowledged.
OwnCompletion ==
  [][\A i \in 0..MAXSEMS - 1 :
       Len(waiting'[i]) < Len(waiting[i]) =>
         LET op == Head(waiting[i]) IN
           /\ op \in pending \ pending'
           /\ v0' = IF op.line = TERMINT THEN DONE ELSE READY]_tvars

\* Priorities starve nobody: whoever waits for an operation is released.
EveryoneReleased ==
  \A s \in SubDevices :
    waiting[SemOf(s)] # <<>> ~> waiting[SemOf(s)] = <<>>
=============================================================================
