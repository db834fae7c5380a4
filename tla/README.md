# A TLA+ model of the Kaya nucleus

This directory verifies the operating-system nucleus in `phase1/` and `phase2/` of
this repository: PCB queues and the process tree (`pcb.c`), the active semaphore
list (`asl.c`), boot (`initial.c`), the scheduler (`scheduler.c`), system calls and
traps (`exceptions.c`) and interrupts (`interrupts.c`). It runs on one MIPS
processor of the uMPS2 machine. Paths below are relative to the repository's root.

## 1. Inventory

| Component | State | Operations |
|---|---|---|
| PCB queues, `pcb.c` 26-255 | free list `pcbFree_h`, `p_next`, `p_prev`, tail pointers | `allocPcb`, `freePcb`, `insertProcQ`, `removeProcQ`, `outProcQ`, `headProcQ` |
| Process tree, `pcb.c` 258-343 | `p_prnt`, `p_child`, `p_old`, `p_yng` | `insertChild`, `removeChild`, `outChild`, `emptyChild` |
| Active semaphore list, `asl.c` | sorted list `semd_h` between two sentinels, free list `semdFree_h`, a queue per descriptor, `p_semAdd` | `insertBlocked`, `removeBlocked`, `outBlocked`, `headBlocked` |
| Boot, `initial.c` | the globals, `semaphores[49]` | `main`, `findSem` |
| Scheduler, `scheduler.c` | `deathRowLine`, `curProc`, `waiting`, `startTOD` | `nextVictim`, `putInPool`, `loadState`, `gameOver` |
| Exceptions, `exceptions.c` | `procCount`, `softBlkCount`, `p_exceptionConfig` | system calls 1-8, `avadaKedavra`, `innocentOrNoose` |
| Interrupts, `interrupts.c` | device registers, semaphores | `intHandler` and its decoding helpers |
| Phase 2 test, `p2test.c` | 13 semaphores, `p1p2synch`, the PC of each process | the programs `test` (p1) to `p7`, `p8root`, `child1`, `child2`, the four leaves |
| Phase 1 test, `p1test.c` | none of its own | a client; its expectations are documentation |
| `phase3/` | none | user programs for a support level the repository lacks |

*Interaction.* The hardware enters the nucleus at four handlers; each runs with
interrupts masked and leaves by loading a processor state (`loadState`), by
`nextVictim`, or by HALT/PANIC. All state is shared by all handlers. User programs
act by SYSCALL and by writing device command registers; devices answer by
interrupts.

*What is hard.* Handlers are atomic, but everything they rely on is established by
other handlers at other times: two counters (`procCount`, `softBlkCount`) decide
whether an empty ready queue means HALT, PANIC or WAIT; a device's V and its
waiter's P come in either order; a termination removes a whole subtree from the
ready queue, from user semaphores, from the clock and from devices whose interrupt
is still to come; a semaphore address outlives the wait it belongs to; and the
nucleus can trap inside itself, where the trap is charged to the current process.
A process's state is in the processor, in one of two kinds of old areas or in its PCB,
and every handler copies it from one to another. The local timer serves as time slice
and is set again by every interrupt. A terminal is two devices behind one interrupt bit.

*What makes each part correct.* Every PCB is in exactly one place. The tree has no
cycle and links no dead process. Semaphore values and queues agree. Counters are
exact. Waiters are woken by the event they wait for, in order, and only then. Ready
processes run. Termination removes a process and its progeny, nothing else, and ends.
A program sees a processor of its own. A completion reaches the process that waits for
it. A process does not keep the processor for ever.
`PROJECT.json` lists the hazards line by line with the properties that cover them.

## 2. Modules

| Module | Role |
|---|---|
| `Nucleus` | The nucleus as a state machine with its properties |
| `ProcessTable` | What SYS1 and SYS2 promise: an atomic process table |
| `NucleusTable` | The refinement mapping from `Nucleus` to `ProcessTable` |
| `ProcQueues`, `ProcForest`, `BlockedProcs` | What `pcb.c` and `asl.c` promise: sequences, ordered children, queues by semaphore |
| `ProcQueue`, `ProcTree`, `ASL` | The same operations on the pointers of `pcb.c` and `asl.c` |
| `Pcbs` | The PCBs and NULL, for these three |
| `Walks` | Following a pointer field: how the mappings of `ProcQueue` and `ProcTree` read a list |
| `MCNucleus`, `MCTable`, `MCPhase1` | Instances for TLC; `MCPhase1` puts the three data structures of phase 1 side by side |
| `QueueLemmas` | Lemmas about queues: append, head/tail, removal, concatenation, length; least elements and walks |
| `TimedNucleus` | The nucleus with its timers, handlers that take time, and the time of day |
| `CPUTime` | What the timed nucleus charges its processes |
| `P2Test` | The nucleus running `p2test.c` |
| `VirtualProcessors` | What a program is promised about its processor |
| `ProcessorStates` | The processor states that the nucleus moves; implements `VirtualProcessors` |
| `Terminal` | Decoding of device interrupts, device semaphores, terminals |
| `NucleusProofs` | The nucleus: types, structure, counts, order of waking, the process table |
| `ProcessorProofs` | The nucleus gives every process a processor of its own |
| `ProcQueueProofs`, `ProcTreeProofs` | The pointer structures are sound, and are the queues and the lists of children promised |
| `ASLProofs` | The sorted list and its free list are the map from semaphores to queues |
| `TerminalProofs` | Whoever waits for a device gets his own completion |
| `RunProofs` | What the timer allows a process; what the test program does to the nucleus and to its terminal |

`TimedNucleus`, `P2Test` and `ProcessorStates` each take the actions of `Nucleus` and
conjoin to them what they add: every one of their steps is a step of `Nucleus` or leaves
its variables alone.

### State of `Nucleus`

Names are the source's. Data structures are abstracted to what they mean:
`deathRowLine` and `procQ[s]` (the queue of semaphore `s`'s descriptor, empty if `s`
has none) are sequences of PCBs, head first; the tree is the map `p_prnt`; the free
list is a set, since `allocPcb` clears what it hands out and nothing depends on which
PCB that is. `p_semAdd` keeps its stale value as in the code. `sem[s]` is the integer
at a semaphore's address. `p_exceptionConfig[p]` is the set of trap types for which
`p` has a vector.

`mode` says what the processor does: run `curProc`, WAIT, execute
`sys2_terminateProcess`, or one of the ends. `noose` is the stack of activations of
`avadaKedavra`. `dev` and `issuer` model devices as far as programs use them: an
operation is idle, in progress (`busy`) or has its interrupt pending (`done`), and
`issuer` is the process that started it and has not called WAITIO. `strayV` is a
history variable: it counts device interrupts whose waiter had been killed.

### Actions of `Nucleus`

One action per handler path: `CreateProcess`, `CreateRefused` (SYS1), `Terminate`
(SYS2), `Verhogen`, `Passeren`, `SpecTrap` (SYS5), `WaitClock` (SYS7), `WaitIO` (SYS8),
`Exception` (any trap, SYS9 and above, privileged calls in user mode), `LocalTimer`,
`IntervalTimer`, `DeviceInterrupt`. `avadaKedavra` is unfolded into `KillChild`,
`ReapReady`, `ReapBlocked`, `ReapRunning`, `ReapNeverBlocked` and `Terminated`, because
it can trap half way; no interrupt comes between these steps, only devices go on.
`nextVictim`, `blockCurProc`, `innocentOrNoose` and the epilogue of `intHandler` are
operators that the actions share. `StartIO` and `DeviceDone` are the environment.

Three points where the code does not do what it seems to do are modelled as it is:

* `ReapNeverBlocked`: `NULL` is `0xFFFFFFFF` (`h/const.h` 62). A process that never
  blocked has `p_semAdd = NULL`, and `searchSemd` compares addresses until one is not
  smaller: it passes the `MAXINT` sentinel and loads from `NULL + 4`, an unaligned
  address. The program trap is taken by the nucleus and handled for `curProc`.
* `DeviceInterrupt`, third disjunct: the waiter was killed, `removeBlocked` returns
  NULL, and `p->p_s.s_v0 = status` stores to an unaligned address: the same trap.
* `WaitClock`: `case 7` has no `break`.

Operators named as *Mutant* above a definition are plausible wrong versions of it,
used to confirm that each property can fail. They are not part of the specification.

### The data structures of phase 1

The layers meet as in the code. `ProcQueue` has the rings with their tail pointers,
the free list among them; it is shown to implement `ProcQueues`, sequences of PCBs.
`ASL` takes the queue of a descriptor as such a sequence and has the sorted list, the
sentinels, `searchSemd` and the free list; it implements `BlockedProcs`, which has a
queue per semaphore. `Nucleus` uses these: `deathRowLine`, `procQ`, `p_semAdd`, and
`HasSemd` for the refusal. `ProcTree` implements `ProcForest`, whose parent relation is
the map `p_prnt` of `Nucleus`.

Each C function is one action. `place` in `ProcQueue` is a history variable (the queue
a PCB is in): it says which PCBs a client may insert. `queueRet`, `treeRet` and `aslRet` are
what the last operation returned. Clients keep three rules, which
the phase 2 code keeps: a PCB is inserted only when it is in no queue, only a PCB
without parent and children is given a parent, and semaphore addresses lie between
the sentinels. The loops are functions: `Visited` is the set of PCBs that the loop of
`outProcQ` looks at, `Predecessor` walks as `searchSemd` does. The answer `"trap"` of
`OutBlocked` is `searchSemd` loading through NULL (see `ReapNeverBlocked`).
`allocPcb` clears the whole PCB; each module has the fields it is about.

The abstract modules promise what the comments of the functions promise: `outProcQ` and
`outBlocked` answer `p`, or NULL if it is not there (`pcb.c` 203, `asl.c` 158). The code
keeps all of it but for two answers, which the refinements name as their only
exceptions: for the tail of a longer queue both answer the new tail (`NewTailAnswered`,
`WrongAnswer`; finding 4), and for a process that never blocked the search traps
(`NeverBlockedTraps`; finding 2). The queues themselves are right in all cases, and phase 2 only
asks whether an answer is NULL.

The three structures have no field of a PCB in common. `MCPhase1` therefore runs each with the other two
at rest, in their initial states, and joins the state spaces only there.

### Timers: `TimedNucleus`, `CPUTime`

Time passes by one in a `Tick` of a program or of WAIT, and by `h` in a handler. Both
timers count down, in WAIT as well; their interrupt is pending at 0 and is taken, in order of priority,
before anything else is executed. In WAIT that of the local timer would find `curProc = NULL`
and make the nucleus trap (`QuantumEnd`): that is why `nextVictim` sets the timer to MAXINT
there. `TimerInv` says that it never runs down in WAIT, which needs that each `ClockTick` leaves
WAIT or sets it anew, and INTERVALTIME < MAXINT. `since` is what `stopTOD - startTOD` would be if the
time of day were read now: `loadState` sets it to 0 (`Reload`, `Schedule`), `intHandler`
reads it (`TimeLeft`). `ranFor` and `cuts` are history variables: how long the current
process has executed since it was dispatched, and the interrupts that returned to it.

"Return stolen time" (`interrupts.c` 145-147) sets the timer to QUANTUMTIME less `since`;
but `since` begins at the last `loadState`, not at the dispatch, so every system call and
every interrupt makes the quantum longer. `QuantumBound` says how much longer it gets:
a quantum per interrupt. A process is still preempted in the end, as `INTERVALTIME` and the
devices leave it time to use its quantum up; `NoStarvation` needs that.

`CPUTime` adds `p_CPUTime`, an unsigned word of `W` bits, and the answer of GETCPUTIME, a signed one (`cpu_t`). It charges as the code does: blocking and
the end of a quantum charge `stopTOD - startTOD`; a process released by an interrupt is
charged `start - end`, a negative number; `loadState` forgets.

### The test program: `P2Test`

Each program is a sequence of instructions: a system call, a trap, a store to the
terminal, a test of a global or of a status. `Code` lists them, loops unrolled; `pc` and `prog` say where each process is. A handler that p5
specifies stands in line with the code that traps, since p5's control flow is fixed. Each
`Exec...` action is an action of `Nucleus` for the instruction at hand. What the test
reports as an error is `Aborted` or an `Error` instruction, so that "the test passes" is an
invariant. `print` is a critical section: `TerminalMutex` says that it excludes, `TerminalHeld`
that the semaphore is not lost, `TerminalServed` what it is for, and `PrintersSurvive` what the kills
of the test must not do for the last two to hold.

`print` looks at the status of every character and PANICs if it is not RECVD (`p2test.c` 126): `recvd` is the
set of processes to which an interrupt has handed that status. p2 does its V, P and check of all 21
semaphores of `s[]`; as they are 0 between its rounds and nobody else uses them, `s0` stands for each
in turn. What GETCPUTIME tells p2 and p3 is left open: p2 prints "p2 is OK" or one or both of its complaints and
"p2 blew it!" (`Perhaps`), p3 prints its verdict, whichever it is. So `TestPasses` is about every check of the test
except these, of which finding 3 says that they may fail. p5sys adds 4 to a PC that the nucleus
has advanced: it skips an instruction (`Skip`), which is in the library's SYSCALL behind the
trap and not in p2test.c; that p5 gets on without it is taken for granted.
Left out are the texts of messages (`MSGLEN` characters), the delay loops, in which nothing is
called, and the PC and mode that the handlers p5prog and p5mm put into the saved state: what they lead
to stands in line.

Three things the test takes for granted are guards here: a quantum is long enough for one
instruction (`fresh`); the terminal transmits without errors; and the terminal is slower than the way from the store of a command
to WAITIO (`TerminalDone`): always if the process is not preempted on that way, and if `SlowTerminal`
also when its quantum ends there. Without the last, `sys8_waitForIODevice` finds the
semaphore already V'd and PANICs (finding 5, run `p2test_early`).

### Processor states: `ProcessorStates`

A state is its PC, the mode and v0. `cpu` is the processor, `p_s` the field of each PCB,
`area` the old areas that programs specified by SYS5. `Load` is what the exit of every
handler does: `LDST` of the nucleus's old area if the process goes on, of `p_s` if
`nextVictim` dispatches. The refinement mapping takes a process's state from `cpu` if it
is current and from `p_s` if not, and forgets everything else: readiness, semaphores,
queues, kills. A trap of the nucleus itself is passed up as if it were the program's
(`NucleusTrap`), an exception that `VirtualProcessors` states.

`Advance` is what a program's own SYSTRAP handler adds to the PC. It is 1 in the run, as in
`p5sys` (`p2test.c` 473): `sysCallHandler` has advanced the PC already
(`exceptions.c` 97) and the program skips the instruction behind its SYSCALL. `InSequence` says
so: the history `due` counts an instruction for each step of a program, and `Advance` more for each
system call that is passed up; the program is always where `due` says, so that nothing
else is skipped and nothing is done twice. The theorem holds for every `Advance`, 0 included.

`Return` is the LDST at the end of a handler, whatever brought the program there. If that was a trap of the
nucleus itself, what it loads is the nucleus's state, which traps again at once and is passed up
again: the handler begins anew. A handler changes nothing in the old area but, for a system call, the PC:
that p5prog and p5mm put another PC and mode there (`p2test.c` 424-441, 454-456) is left out.

### Devices: `Terminal`

Arithmetic of `findSem` and the searches of `findLineIndex` and `findDeviceIndex` are
as in the code; the bitmaps are the set `pending`. `status` has a register for each subdevice, and
`Acknowledge` is what the hardware does with an ACK. `OneActive` says that programs keep to
one operation per terminal at a time, as the comment at `interrupts.c` 260 assumes. With
`OneActive = FALSE` `OwnCompletion` fails: when a read completes while a write is in
progress the writer is released with status BUSY and the read stays pending.

### Assumptions about user programs

P and V are applied to the program's own semaphores, not to device semaphores;
WAITIO is called once per operation by the process that started it; one operation at
a time per device. The test programs keep these conventions.
In `P2Test` nothing of this is assumed: the programs are given.

## 3. Runs

| Run | Instance | Shows |
|---|---|---|
| `nucleus_safety` | 3 PCBs (symmetric), 1 device, clock, 1 user semaphore, PROGTRAP vectors | all invariants and `WakeInOrder`, 2.5 million states |
| `table_refinement` | 4 PCBs (symmetric), clock, 1 user semaphore | `ImplementsTable` |
| `phase1` | 4 PCBs, free list and one queue; 3 processes (symmetric), 3 semaphores, 2 descriptors | `RingInv`, `SiblingInv`, `DescriptorInv`, `ImplementsQueues`, `ImplementsForest`, `ImplementsBlocked`; 32 thousand states |
| `timed` | 2 PCBs, 1 device, clock, PROGTRAP vectors, quantum 2, interval 5, MAXINT 6 | `TimerInv`, `QuantumBound`, and liveness under `TFairSpec`; 222 thousand states |
| `p2test` | 9 PCBs, 13 semaphores, a slow terminal 0, all vectors; every loop count of the test but the length of messages | `TestPasses`, `TerminalMutex`, `TerminalHeld`, `TerminalServed`, `P4DeadBeforeV`, `KillsAreSafe`, `PrintersSurvive`, `TestHalts`; 171 thousand states |
| `terminals` | 2 devices each on lines 3, 6 and 7 | `WaitersCounted`, `AwaitedInPlace`, `OwnCompletion`, `EveryoneReleased` |
| `processor_states` | 2 PCBs (symmetric), 1 device, clock, 1 user semaphore, handlers for two exceptions, `Advance` = 1 | `InSequence`, `OwnProcessor`; 2.3 million states |
| `cpu_time` | 2 PCBs, 1 device, clock, handlers of 1 or 2 units | violated: `ReadingsGrow` |
| `interrupt_kills` | 3 PCBs, 1 device, clock | violated: `InterruptHarmless` |
| `sys2_never_blocked` | 2 PCBs | violated: `TerminateKills` |
| `out_proc_q` | as `phase1` | violated: `OutProcQAnswersP` |
| `p2test_early` | as `p2test`, without `SlowTerminal` | violated: `NicheCaseAbsent` |

*Bounds.* `MaxSem` bounds V's and unawaited completions, `MaxDebt` the P's on the
clock between two ticks (a killed waiter's P is not given back), `MaxStray` the
operations that may complete without a waiter. Three PCBs give two children of one
parent, a grandchild, two waiters in one queue with one killed in the middle of the
other's wait, and two active semaphores while a third process blocks, which is the
most that `MAXSEMS = |Proc|` must bear. The refinement uses four, so that a subtree of
depth three dies next to a survivor. PCBs are interchangeable, hence the symmetry;
liveness is checked without it.
Four PCBs in a ring have a head, a tail and two between them, so that every case of
`outProcQ` has neighbours that are and are not the ends; two rings are enough for a
PCB to be asked of the wrong one. Four PCBs in a tree make a child between two others. Two descriptors can be
first, last and only in the list, and
the third semaphore is refused; all three processes may wait in one queue.
With two PCBs in `timed` one runs while the other is ready, waits for the clock or the
device, or dies; a quantum of 2 can be cut before, in the middle and at its end, and the interval
is no multiple of it, so that the timers meet in every order. MAXINT is as small as the assumption
INTERVALTIME < MAXINT allows, so that the local timer comes as near to 0 in WAIT as it can. The ready queue
is short with two PCBs: the order of longer ones is `WakeInOrder`'s and the queues' matter. The histories stop at
`MaxCuts`. `p2test` has one character per message: a longer message repeats the same two
instructions under the same semaphore. Nine PCBs are what the test needs at a time at most (p1,
p8root's tree of seven, and p5, p6 or p7 that still run); the repository has 20, with which nothing is refused
either. `terminals` has the lowest and the highest
line with semaphores of one kind, and terminals; two devices on each make `findSem`'s
groups neighbours. In `processor_states` a program has three instructions and a handler one, so
that it is interrupted before, between and after them.

*Fairness.* In `timed`: weak fairness of `Tick` (time passes), of the nucleus's own
steps and of the interrupts, and of devices, which complete. An interrupt that is
pending disables the program's steps, so weak fairness is enough. Nothing is assumed of the
local timer: that quanta end follows from the timers, from `QUANTUMTIME <= INTERVALTIME`
and from the convention that a program awaits the operations it starts (`MaxSem`). One that
started operations again and again without WAITIO would have its timer set back by each of
their interrupts. Nothing is assumed of programs: `Call` and `Store` have no fairness. `p2test` assumes that programs run on, that the terminal
completes and that a pending interrupt is taken in the end (`SF`, because p5's handlers
disable interrupts now and then); nothing of the local timer. `terminals`: devices
complete, pending interrupts are taken. `Nucleus` alone, in `sys2_never_blocked`, has
`FairSpec`, with `WF` of the nucleus's steps. Liveness of the nucleus is stated up
to `Live`: the system may stop, and it may be
caught for ever in the termination of a process that never blocked (`Wedged`).

The refinement needs programs without PROGTRAP vectors. With one, the trap inside
`avadaKedavra` resumes the program in its own handler: a process that the table
has removed lives on, cut off from its parent.

## 4. Findings

1. *An interrupt kills the wrong process* (`interrupts.c` 130, run `interrupt_kills`).
   After the waiter of a device was killed its interrupt finds nobody: it stores a status
   through NULL, and whichever process was running is terminated.
2. *SYS2 that does not terminate* (`exceptions.c` 168, `asl.c` 71, run
   `sys2_never_blocked`). A process that has
   never blocked cannot be terminated; the nucleus traps for ever.
3. *GETCPUTIME goes back* (`scheduler.c` 50, run `cpu_time`). The answer includes the time since
   `startTOD`, which `loadState` then sets without charging it. (A released process is also
   charged a negative time, `interrupts.c` 134; the run does not isolate that.)
4. *outProcQ answers another PCB* (`pcb.c` 218, run `out_proc_q`). Its comment promises `p`. For the tail of
   a longer queue the code moves the tail pointer first and returns what it then points to;
   `outBlocked` hands that on. Nothing goes wrong in phase 2, which only tests for NULL.
5. *The niche case does appear in testing* (`exceptions.c` 388, run `p2test_early`). A quantum can end
   between the store of a character and its WAITIO. If the terminal is done before the process
   runs again, `sys8_waitForIODevice` stops the machine in the middle of the phase 2 test.
   It takes a schedule with several ready processes and a terminal faster than their quanta.

What the passing properties say in places where one might expect more:

* `softBlkCount` is taken down twice for a waiter that was killed (`exceptions.c` 174,
  `interrupts.c` 129). From then on `nextVictim` may PANIC although a process waits
  for the clock. `SoftBlkExact` says that the count is off by exactly the interrupts that
  found nobody, `IdleVerdict` that until the first one every verdict is right.
* `SoftBlkExact` and `IdleVerdict` hold with that double decrement, because they are stated with it: they say how far the
  damage goes, not that there is none.
* `OwnCompletion` is for programs that do not read and write one terminal at once (`OneActive`);
  `TerminalServed` and `TestHalts` are for a slow terminal.
* A process may execute for longer than QUANTUMTIME: `QuantumBound`.
* Times charged to released processes are negative (`interrupts.c` 103, 134) and wrap.
* A leaf of p8 signals before it blocks (`p2test.c` 621), so that p8root also kills leaves that
  are ready, unlike what its comment says ("wait for the leaves to block"). `KillsAreSafe` holds because they
  have printed, hence blocked, before. A p8leaf that does not print (its mutant) reaches finding 2.

Also noted, without a run: `p1test.c` 274 expects `insertBlocked` to fail once
MAXPROC semaphores are in use; there are MAXSEMS = 49 descriptors by now.

## 5. Theorems

The only assumptions are the named `ASSUME`s of the modules. All state invariants of
`nucleus_safety` are proved of `Spec`, for any number of PCBs, devices and user semaphores
and any values of the bounds; of the sizes they need only that there are at least as many descriptors
as PCBs (20 and 49 in `h/types.h`).

* `NucleusProofs`, in five parts.
  * *Types*: `TypeCorrect`. `TypeOK` is not inductive alone: putting `curProc`
    into a queue needs a process to be running. `TypeInv` adds that.
  * *Structure*: `PcbsConserved`, `TreeSound`, `NooseSound`, `IdleSound`. These four
    invariants are inductive only together (`StructInv`). An interrupt may keep or drop
    `curProc`, so where PCBs are depends on `waiting`; a kill frees a PCB, so freeing it
    once depends on `noose`; `noose` stays free of duplicates because its members have no
    parent, which the tree provides. `Placed` restates `PcbConservation` PCB by PCB.
    `DescriptorLeft` is a pigeonhole argument: each active semaphore has a waiter of its
    own and the running process is none of them, so `insertBlocked` finds a descriptor.
  * *Counts*: `UserSemCounts`, `ClockSound`, `NoLostWakeup`, `SoftBlkCounts`,
    `ProcCountCounts`, `VerdictSound`. `CountInv` adds the counting invariants to
    `StructInv`. `DeviceWakeup` is strengthened to `DevInv`: a device semaphore is never
    below -1, it is -1 only while an awaited operation is in flight, and a completed
    operation not yet awaited has left its V there. The counters follow from where PCBs
    are: a step that moves a process in or out of a set changes the cardinality by one.
    The verdicts then follow from the counters at the moment `nextVictim` reads them.
  * *Order*: `WakesInOrder`, an action property. Every step of every action is shown to do to
    each queue one of the four things that `InOrder` allows; a kill needs `StructInv`, that the
    reaped PCB is in the one queue that its `p_semAdd` names.
  * *Process table*: `TableImplemented`, a refinement. `Condemned` is a least set closed under
    progeny; unlinking a child and pushing its activation leaves it what it was, and only the step
    that makes the root's activation removes anybody from `live`. The hypothesis, that no program
    has a PROGTRAP vector, is needed: with one, a trap of the nucleus inside
    `avadaKedavra` goes to that program's handler and the kill is abandoned half way (section 3).
* `ProcessorProofs`: `ProcessorImplemented`, `InstructionsInOrder`. Each handler's exit is shown to
  give every process, current or not, a state that `VirtualProcessors` allows it, from `StructInv`
  (the process that `nextVictim` dispatches is ready, the one an interrupt releases is blocked and
  alive, the freed PCB is nobody's) and `StruckOff`. `InSequence` is far from
  inductive: the state of a process in a handler is in an old area, which may itself have been
  filled from within another handler. `Ledger` says that the old areas lead back through a chain of
  handlers to the next instruction. `InstructionsInOrder` is proved from the refinement: it uses
  only what `VirtualProcessors` promises, with the count of instructions behind each system call that
  is passed up; it has no hypothesis on `Advance`.
* `ProcQueueProofs`, `RingSound`, for any number of PCBs and queues. The invariant needs
  `OneRing`: when the tail is its own successor the code makes the tail pointer NULL,
  which loses nobody only if the ring is not two rings. Insertion and removal keep it
  because a set closed under the new links gives one closed under the old links.
  `LeastElement` replaces induction, for the ring that `initPCBs` builds.
  `QueuesImplemented` is the refinement. Its invariant `QueueInv` adds `Lines` to `RingInv`: each ring
  is some sequence of PCBs without duplicates, which `p_next` goes through from the first to the
  tail and back (`InLine`). A step gives the next sequence outright, `Append` or `RemoveAt` of the
  old one, and the links it writes are compared with it. `ContentsAre` shows that the walk by which
  the mapping reads a ring finds this sequence. The two directions of the ring are needed together: what
  `outProcQ` makes of `p_next` it takes from `p_prev`. For the answer it has a case of its own, the tail of a longer
  queue. `AllVisited` says that its loop finds
  whoever is in the queue, `VisitedInQueue` that it finds nobody else.
* `ASLProofs`: `DescriptorsSound`, `BlockedImplemented`, for any number of descriptors (none
  included), semaphores and processes. `DescriptorInv` speaks of walks along the lists; `ListInv`,
  which is inductive, replaces the walk along the active list by what it is for: the descriptors in
  use and the sentinels each point to the one with the next higher address, and no two have the same.
  `ActiveIs` shows that the walk then comes by all of them, and `Search` that `searchSemd` ends at
  the greatest address below the one it looks for; both argue by a least element in the place of
  induction. For the free list it keeps that no descriptor comes by itself again (`FreeInv`).
  `Full` is the counting argument of the refinement: the descriptors in use are as many as the
  semaphores with a queue, so that the free list is empty just when these are MAXSEMS.
* `ProcTreeProofs`, `SiblingsSound`, for any set of PCBs. `SiblingInv` is inductive
  alone: each operation relinks neighbours only. `ForestImplemented`, the refinement, adds `Lines` again, here
  that the children of a PCB are a sequence from `p_child` along `p_old` to NULL; `OutIs` covers a first,
  a last, a middle and an only child. That a child is in the list of the parent it names, and of no
  other, makes the list of everybody else stay as it is.
* `TerminalProofs`: `WaitersAreCounted`, `WaitersInPlace`, `OwnCompletions`, for any lines,
  device numbers and, as an assumption of the theorems, `OneActive`. The invariant that is
  inductive adds to `AwaitedInPlace` that no terminal has both subdevices at work and that
  a subdevice with a pending interrupt is not BUSY. `findSem` maps different
  subdevices to different semaphores, none of them the clock's: a lemma about the integers
  in their ranges.
* `RunProofs`, on the timer: `TimerSound`, `QuantaBounded`, for any QUANTUMTIME, INTERVALTIME, MAXINT,
  handler times and bounds on the histories. `QuantumBound` is inductive only with
  what the timer still holds: `ranFor + timer` is at most a quantum per interrupt and one more.
  In WAIT the local timer is always above the interval timer, and so never 0 (`TimeInv`). By that
  `TimedImplementsNucleus` carries the invariants of `NucleusProofs` over to `TimedNucleus`: the one step
  of `TimedNucleus` that `Nucleus` does not have, an interrupt of the local timer in WAIT, is never taken.
* `RunProofs`, on the test program, for any number of PCBs, any length of messages and of delays, and
  every interleaving, with failing tests and refused creations among the steps.
  * `P2ImplementsNucleus`: the nucleus's invariants hold while the test runs. Each instruction is a system
    call or a trap with an argument that `Nucleus` allows, because a program counter never leaves its
    program: `P2Type`, `AllPrograms`.
  * `PrintExcludes`. What it needs of the ten programs is that they are `Bracketed`: outside print when
    they begin and end, in it exactly between a P and a V of `term_mut`, with a WAITIO behind each store and a look at the
    status behind each WAITIO, and with no jump into print. The class is closed under the operators that the programs are
    written with, so that no program is looked at instruction by instruction; `TimesIn` is a least
    number argument in the place of an induction over repetitions. A step then is the P (`Takes`),
    the V (`Gives`), or leaves everybody where he was (`Outside`, `P2Step`). The invariant that is inductive adds to
    `TerminalMutex` that who is queued for `term_mut` has his P behind him (`QueuedInside`), since
    the V lets him in without another look at the semaphore, and `UserSemInv`, by which a V that leaves
    0 or less has somebody to let in. A kill of a waiter adds one to the semaphore, as the V would, but lets
    nobody in.
  * `StatusReceived`: who looks at a status has RECVD, since nobody gets from his WAITIO to the look
    but by the interrupt that handed it to him. It needs no assumption on the terminal's speed.
  * `TermMutKept`: while `term_mut` is taken somebody prints. Its hypothesis is `PrintersSurvive`, the action
    property that no step frees the PCB of a process that prints. It is needed (the mutant of p8leaf that
    signals before it prints violates both) and it holds of the test: `p2test` checks it. Why it
    holds is a matter of which process a delay or a semaphore of the test lets pass, not
    of the nucleus.
  * `PrintServed`, under the same hypothesis. `TerminalInv` says that the terminal's operation is always
    somebody's: `issuer` is the one process that has stored and comes to its WAITIO, or one process
    is queued, and either one prints. So mutual exclusion makes them the same, the terminal is idle
    when another stores, the device semaphore is 0 when WAITIO does its P, and an
    interrupt finds its waiter. Its second hypothesis is `SlowTerminal`: without it the interrupt can
    come before WAITIO (finding 5).

Model-checked only: liveness (`TFairSpec`, `TestHalts`, `EveryoneReleased`: out of the prover's
reach); of `P2Test`, `TestPasses`, `P4DeadBeforeV`, `KillsAreSafe` and `PrintersSurvive`, which depend on how far
each of the ten programs has come when another one goes on, that is on the reachable states of one
fixed program of some two hundred instructions. That a walk of any length exists, a fact about recursive functions for which the library
offers only induction, is proved once in `QueueLemmas` by a least missing length (`WalkExists`).

## 6. Plan

What is left to do:

1. `p1test.c` as a client of the phase 1 modules.
2. A proof of `PrintersSurvive`, from invariants that relate the counters of p1 and p8root to those of the
   processes they kill.

## 7. Not modelled

Registers other than PC, mode and v0; texts of messages and console output; in `P2Test` the values of
GETCPUTIME and the time of day, on which only depends which message `p2` and `p3` print (all of
them are allowed), and the library behind SYSCALL; reading and writing one terminal at once; `p1test.c`, a straight-line test of
operations that `ProcQueue`, `ProcTree` and `ASL` explore in every order; headers, build
files, the disk image and the phase 3 programs (no nucleus behaviour: they need a support level that
the repository lacks). The inter-processor interrupt (line 0) cannot occur on one processor.
