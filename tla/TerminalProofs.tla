---------------------------- MODULE TerminalProofs ----------------------------
(***************************************************************************)
(* The semaphore found for an interrupt is the one its process waits on,   *)
(* for any devices on any of the lines 3 to 7, as long as no terminal      *)
(* reads and writes at the same time.                                      *)
(***************************************************************************)
EXTENDS Terminal, TLAPS

TermType ==
  /\ status \in [SubDevices -> {READY, BUSY, DONE}]
  /\ pending \subseteq SubDevices
  /\ semaphores \in [0..MAXSEMS - 1 -> Int]
  /\ waiting \in [0..MAXSEMS - 1 -> Seq(SubDevices)]

\* A status other than READY or BUSY is that of a terminal's pending interrupt.
StatusPending ==
  \A s \in SubDevices :
    IF s \in pending
      THEN status[s] = IF s.line = TERMINT THEN DONE ELSE READY
      ELSE status[s] \in {READY, BUSY}

\* While a terminal's receiver works, its transmitter does not.
OneWorks ==
  \A r, w \in SubDevices :
    r.line = TERMINT /\ r.read /\ w = Writer(r.line, r.dev) =>
      status[r] = READY \/ status[w] = READY

TermInv ==
  TermType /\ StatusPending /\ OneWorks /\ WaitersCounted /\ AwaitedInPlace
-----------------------------------------------------------------------------
LEMMA SubDeviceType ==
  ASSUME NEW s \in SubDevices
  PROVE  /\ s.line \in 3..7 /\ s.dev \in 0..7 /\ s.read \in BOOLEAN
         /\ s.line \in Lines /\ s.dev \in DevNums
         /\ s.read => s.line = 7
         /\ s = [line |-> s.line, dev |-> s.dev, read |-> s.read]
<1>1. s \in [line : Lines, dev : DevNums, read : BOOLEAN]
  BY DEF SubDevices, Sub
<1>2. s.read => s.line = 7
  BY DEF SubDevices, TERMINT
<1>3. Lines \subseteq 3..7 /\ DevNums \subseteq 0..7
  BY LineAssumption DEF LINENUMOFFSET, TERMINT, DEVPERINT
<1> QED  BY <1>1, <1>2, <1>3

\* Every subdevice has a semaphore of its own, and the pseudo-clock's is none
\* of them.
LEMMA SemaphoresDistinct ==
  /\ \A s \in SubDevices : SemOf(s) \in 0..MAXSEMS - 2
  /\ \A s, r \in SubDevices : SemOf(s) = SemOf(r) => s = r
<1>1. ASSUME NEW s \in SubDevices
      PROVE  SemOf(s) = (s.line - 3 + (IF s.read THEN 1 ELSE 0)) * 8 + s.dev
  BY DEF SemOf, FindSem, LINENUMOFFSET, DEVPERINT
<1>2. ASSUME NEW s \in SubDevices  PROVE  SemOf(s) \in 0..MAXSEMS - 2
  BY <1>1, SubDeviceType, LineAssumption
<1>3. ASSUME NEW s \in SubDevices, NEW r \in SubDevices, SemOf(s) = SemOf(r)
      PROVE  s = r
  <2>1. s.dev = r.dev /\ (s.line - 3 + (IF s.read THEN 1 ELSE 0))
                           = (r.line - 3 + (IF r.read THEN 1 ELSE 0))
    BY <1>1, <1>3, SubDeviceType
  <2>2. s.line = r.line /\ s.read = r.read
    BY <2>1, SubDeviceType
  <2> QED  BY <2>1, <2>2, SubDeviceType
<1> QED  BY <1>2, <1>3

\* findLineIndex and findDeviceIndex look through a few bits.
LEMMA LowestBit ==
  ASSUME NEW S \in SUBSET (0..7), S # {}
  PROVE  Min(S) \in S
<1>1. \E x \in S : \A y \in S : x <= y
  <2>1. CASE 0 \in S  BY <2>1
  <2>2. CASE 0 \notin S /\ 1 \in S  BY <2>2
  <2>3. CASE 0 \notin S /\ 1 \notin S /\ 2 \in S  BY <2>3
  <2>4. CASE S \cap {0, 1, 2} = {} /\ 3 \in S  BY <2>4
  <2>5. CASE S \cap {0, 1, 2, 3} = {} /\ 4 \in S  BY <2>5
  <2>6. CASE S \cap {0, 1, 2, 3, 4} = {} /\ 5 \in S  BY <2>6
  <2>7. CASE S \cap {0, 1, 2, 3, 4, 5} = {} /\ 6 \in S  BY <2>7
  <2>8. CASE S \cap {0, 1, 2, 3, 4, 5, 6} = {}
    <3>1. \A y \in S : y = 7
      BY <2>8
    <3>2. PICK x \in S : TRUE
      OBVIOUS
    <3>3. \A y \in S : x <= y
      BY <3>1
    <3> QED  BY <3>3
  <2> QED  BY <2>1, <2>2, <2>3, <2>4, <2>5, <2>6, <2>7, <2>8
<1> QED  BY <1>1 DEF Min

\* The interrupting device is found: the register that is acknowledged is that
\* of a pending interrupt, and the semaphore is its own.
LEMMA FoundDevice ==
  ASSUME TermInv, OneActive, pending # {}
  PROVE  LET line == FindLineIndex
             dev == FindDeviceIndex(line)
             acked == Acked(line, dev) IN
           /\ acked \in pending
           /\ FindSem(line, dev, IsReadTerm(line, dev)) = SemOf(acked)
<1> DEFINE line == FindLineIndex
           dev == FindDeviceIndex(line)
           acked == Acked(line, dev)
<1>1. line \in {s.line : s \in pending}
  <2>1. {s.line : s \in pending} \in SUBSET (0..7)
    BY SubDeviceType DEF TermInv, TermType
  <2> QED  BY <2>1, LowestBit DEF FindLineIndex
<1>2. dev \in {s.dev : s \in {r \in pending : r.line = line}}
  <2>1. {s.dev : s \in {r \in pending : r.line = line}} \in SUBSET (0..7)
    BY SubDeviceType DEF TermInv, TermType
  <2> QED  BY <1>1, <2>1, LowestBit DEF FindDeviceIndex
<1>3. PICK s \in pending : s.line = line /\ s.dev = dev
  BY <1>2
<1> HIDE DEF line, dev
<1>4. s \in SubDevices
  BY DEF TermInv, TermType
<1>5. CASE line # TERMINT
  <2>1. acked = s
    BY <1>3, <1>4, <1>5, SubDeviceType DEF Acked, Writer, TERMINT
  <2>2. IsReadTerm(line, dev) = s.read
    BY <1>3, <1>4, <1>5, SubDeviceType DEF IsReadTerm, TERMINT
  <2> QED  BY <1>3, <2>1, <2>2 DEF SemOf, line, dev
<1>6. CASE line = TERMINT
  <2>1. Writer(line, dev) \in SubDevices
    BY <1>3, <1>4, SubDeviceType DEF Writer, SubDevices, Sub
  <2>2. status[s] = DONE
    BY <1>3, <1>4, <1>6 DEF TermInv, StatusPending
  <2>3. CASE s.read
    <3>1. status[Writer(line, dev)] = READY
      BY <1>3, <1>4, <1>6, <2>1, <2>2, <2>3
      DEF TermInv, OneWorks, DONE, READY
    <3>2. acked = s
      BY <1>3, <1>4, <1>6, <2>3, <3>1, SubDeviceType
      DEF Acked, Reader, TERMINT
    <3> QED  BY <1>3, <1>6, <2>3, <3>1, <3>2
             DEF SemOf, IsReadTerm, FindSem, line, dev
  <2>4. CASE ~s.read
    <3>1. s = Writer(line, dev)
      BY <1>3, <1>4, <2>4, SubDeviceType DEF Writer
    <3>2. status[Writer(line, dev)] # READY
      BY <2>2, <3>1 DEF DONE, READY
    <3>3. acked = s
      BY <3>1, <3>2 DEF Acked
    <3> QED  BY <1>3, <2>4, <3>2, <3>3
             DEF SemOf, IsReadTerm, FindSem, line, dev
  <2> QED  BY <2>3, <2>4, <1>4, SubDeviceType
<1> QED  BY <1>5, <1>6
-----------------------------------------------------------------------------
LEMMA TermInit ==
  Init => TermInv
<1> SUFFICES ASSUME Init  PROVE  TermInv
  OBVIOUS
<1>1. TermType
  BY DEF Init, TermType
<1>2. StatusPending /\ OneWorks
  BY DEF Init, StatusPending, OneWorks
<1>3. WaitersCounted
  BY LineAssumption DEF Init, WaitersCounted
<1>4. AwaitedInPlace
  BY SemaphoresDistinct, LineAssumption DEF Init, AwaitedInPlace, READY, BUSY
<1> QED  BY <1>1, <1>2, <1>3, <1>4 DEF TermInv

LEMMA TermStart ==
  ASSUME TermInv, OneActive, NEW sub \in SubDevices, StartAndWait(sub)
  PROVE  TermInv'
<1> USE DEF TermInv
<1> DEFINE k == SemOf(sub)
<1>1. /\ k \in 0..MAXSEMS - 1 /\ k # MAXSEMS - 1
      /\ MAXSEMS - 1 \in 0..MAXSEMS - 1
  BY SemaphoresDistinct, LineAssumption
<1> HIDE DEF k
<1>2. waiting[k] = <<>> /\ semaphores[k] = 0
  <2>1. status[sub] = READY /\ sub \notin pending
    BY DEF StartAndWait
  <2>2. waiting[k] = IF status[sub] = BUSY \/ sub \in pending
                       THEN <<sub>> ELSE <<>>
    BY DEF AwaitedInPlace, k
  <2>3. waiting[k] = <<>>
    BY <2>1, <2>2 DEF READY, BUSY
  <2>4. Len(waiting[k]) = 0
    BY <2>3
  <2>5. semaphores[k] + Len(waiting[k]) = 0 /\ semaphores[k] \in Int
    BY <1>1 DEF WaitersCounted, TermType
  <2> QED  BY <2>3, <2>4, <2>5
<1>3. /\ waiting'[k] = <<sub>> /\ semaphores'[k] = -1
      /\ \A i \in 0..MAXSEMS - 1 : i # k =>
           waiting'[i] = waiting[i] /\ semaphores'[i] = semaphores[i]
  <2>1. /\ waiting' = [waiting EXCEPT ![k] = Append(@, sub)]
        /\ semaphores' = [semaphores EXCEPT ![k] = @ - 1]
    BY DEF StartAndWait, k
  <2>2. Append(waiting[k], sub) = <<sub>>
    BY <1>2
  <2>3. waiting'[k] = Append(waiting[k], sub) /\ semaphores'[k] = semaphores[k] - 1
    BY <1>1, <2>1 DEF TermType
  <2>4. semaphores'[k] = -1
    BY <1>2, <2>3
  <2>5. \A i \in 0..MAXSEMS - 1 : i # k =>
          waiting'[i] = waiting[i] /\ semaphores'[i] = semaphores[i]
    BY <1>1, <2>1 DEF TermType
  <2> QED  BY <2>2, <2>3, <2>4, <2>5
<1>4. /\ status'[sub] = BUSY /\ pending' = pending /\ sub \notin pending
      /\ \A s \in SubDevices : s # sub => status'[s] = status[s]
  BY DEF StartAndWait, TermType
<1>5. TermType'
  <2>1. /\ waiting' = [waiting EXCEPT ![k] = Append(@, sub)]
        /\ semaphores' = [semaphores EXCEPT ![k] = @ - 1]
        /\ status' = [status EXCEPT ![sub] = BUSY]
    BY DEF StartAndWait, k
  <2>2. semaphores' \in [0..MAXSEMS - 1 -> Int]
    <3>1. semaphores[k] - 1 \in Int
      BY <1>1 DEF TermType
    <3> QED  BY <1>1, <2>1, <3>1 DEF TermType
  <2>3. waiting' \in [0..MAXSEMS - 1 -> Seq(SubDevices)]
    <3>1. Append(waiting[k], sub) \in Seq(SubDevices)
      BY <1>1 DEF TermType
    <3> QED  BY <1>1, <2>1, <3>1 DEF TermType
  <2> QED  BY <1>4, <2>1, <2>2, <2>3 DEF TermType
<1>6. StatusPending'
  BY <1>4 DEF StatusPending
<1>7. OneWorks'
  <2> SUFFICES ASSUME NEW r \in SubDevices, NEW w \in SubDevices,
                      r.line = TERMINT, r.read, w = Writer(r.line, r.dev)
               PROVE  status'[r] = READY \/ status'[w] = READY
    BY DEF OneWorks
  <2>1. CASE r # sub /\ w # sub
    BY <1>4, <2>1 DEF OneWorks
  <2>2. CASE r = sub
    <3>1. w # sub
      BY <2>2 DEF Writer
    <3>2. status[Writer(sub.line, sub.dev)] = READY
      <4>1. OneActive /\ sub.line = TERMINT
        BY <2>2
      <4>2. OneActive /\ sub.line = TERMINT =>
              status[Writer(sub.line, sub.dev)] = READY
        BY DEF StartAndWait
      <4> QED  BY <4>1, <4>2
    <3> QED  BY <1>4, <2>2, <3>1, <3>2
  <2>3. CASE w = sub
    <3>1. r = Reader(sub.line, sub.dev) /\ sub.line = TERMINT
      BY <2>3, SubDeviceType DEF Reader, Writer
    <3>2. status[r] = READY /\ r # sub
      BY <2>3, <3>1 DEF StartAndWait, Writer, Reader
    <3> QED  BY <1>4, <3>2
  <2> QED  BY <2>1, <2>2, <2>3
<1>8. WaitersCounted'
  <2>1. waiting'[MAXSEMS - 1] = <<>>
    BY <1>1, <1>3 DEF WaitersCounted
  <2>2. semaphores'[k] + Len(waiting'[k]) = 0
    <3>1. Len(<<sub>>) = 1
      OBVIOUS
    <3> QED  BY <1>3, <3>1
  <2>3. \A i \in 0..MAXSEMS - 1 : i # k => semaphores'[i] + Len(waiting'[i]) = 0
    BY <1>3 DEF WaitersCounted
  <2> QED  BY <2>1, <2>2, <2>3 DEF WaitersCounted
<1>9. AwaitedInPlace'
  <2> SUFFICES ASSUME NEW s \in SubDevices
               PROVE  waiting'[SemOf(s)] =
                        IF status'[s] = BUSY \/ s \in pending' THEN <<s>> ELSE <<>>
    BY DEF AwaitedInPlace, SemOf, FindSem
  <2>1. CASE s = sub
    BY <1>3, <1>4, <2>1 DEF k
  <2>2. CASE s # sub
    <3>1. SemOf(s) # k /\ SemOf(s) \in 0..MAXSEMS - 1
      BY <2>2, SemaphoresDistinct, LineAssumption DEF k
    <3> QED  BY <1>3, <1>4, <2>2, <3>1 DEF AwaitedInPlace
  <2> QED  BY <2>1, <2>2
<1> QED  BY <1>5, <1>6, <1>7, <1>8, <1>9

LEMMA TermComplete ==
  ASSUME TermInv, NEW sub \in SubDevices, Complete(sub)
  PROVE  TermInv'
<1> USE DEF TermInv
<1>1. /\ status'[sub] = IF sub.line = TERMINT THEN DONE ELSE READY
      /\ \A s \in SubDevices : s # sub => status'[s] = status[s]
      /\ pending' = pending \cup {sub}
      /\ status[sub] = BUSY
      /\ semaphores' = semaphores /\ waiting' = waiting
  BY DEF Complete, TermType
<1>2. TermType'
  BY <1>1 DEF Complete, TermType
<1>3. StatusPending'
  BY <1>1 DEF StatusPending
<1>4. OneWorks'
  <2> SUFFICES ASSUME NEW r \in SubDevices, NEW w \in SubDevices,
                      r.line = TERMINT, r.read, w = Writer(r.line, r.dev)
               PROVE  status'[r] = READY \/ status'[w] = READY
    BY DEF OneWorks
  <2>1. status[r] = READY \/ status[w] = READY
    BY DEF OneWorks
  <2>2. r # w
    BY DEF Writer
  <2> QED  BY <1>1, <2>1, <2>2 DEF READY, BUSY
<1>5. WaitersCounted'
  BY <1>1 DEF WaitersCounted
<1>6. AwaitedInPlace'
  BY <1>1 DEF AwaitedInPlace, SemOf, FindSem, READY, BUSY, DONE
<1> QED  BY <1>2, <1>3, <1>4, <1>5, <1>6

\* What an interrupt does: the waiter of the operation that it reports is
\* released with its status, and nothing else changes.
LEMMA InterruptReleases ==
  ASSUME TermInv, OneActive, Interrupt
  PROVE  \E op \in pending :
           /\ status' = [status EXCEPT ![op] = READY]
           /\ pending' = pending \ {op}
           /\ waiting[SemOf(op)] = <<op>>
           /\ waiting' = [waiting EXCEPT ![SemOf(op)] = <<>>]
           /\ semaphores' = [semaphores EXCEPT ![SemOf(op)] = 0]
           /\ v0' = IF op.line = TERMINT THEN DONE ELSE READY
<1> DEFINE line == FindLineIndex
           dev == FindDeviceIndex(line)
           op == Acked(line, dev)
           k == FindSem(line, dev, IsReadTerm(line, dev))
<1>1. op \in pending /\ k = SemOf(op)
  <2>1. pending # {}
    BY DEF Interrupt
  <2> QED  BY <2>1, FoundDevice
<1>2. /\ Acknowledge(op)
      /\ semaphores' = [semaphores EXCEPT ![k] = @ + 1]
      /\ IF semaphores'[k] <= 0 /\ waiting[k] # <<>>
           THEN /\ waiting' = [waiting EXCEPT ![k] = Tail(@)]
                /\ v0' = status[op]
           ELSE UNCHANGED <<waiting, v0>>
  BY DEF Interrupt
<1> HIDE DEF op, k
<1>3. op \in SubDevices /\ k \in 0..MAXSEMS - 1
  <2>1. op \in SubDevices
    BY <1>1 DEF TermInv, TermType
  <2> QED  BY <1>1, <2>1, SemaphoresDistinct, LineAssumption
<1>4. waiting[k] = <<op>> /\ semaphores[k] = -1
  <2>1. waiting[k] = <<op>>
    BY <1>1, <1>3 DEF TermInv, AwaitedInPlace
  <2>2. Len(waiting[k]) = 1
    BY <2>1
  <2>3. semaphores[k] + Len(waiting[k]) = 0 /\ semaphores[k] \in Int
    BY <1>3 DEF TermInv, WaitersCounted, TermType
  <2> QED  BY <2>1, <2>2, <2>3
<1>5. status[op] = IF op.line = TERMINT THEN DONE ELSE READY
  BY <1>1, <1>3 DEF TermInv, StatusPending
<1>6. status' = [status EXCEPT ![op] = READY] /\ pending' = pending \ {op}
  BY <1>2, <1>5 DEF Acknowledge, BUSY, DONE, READY
<1>7. semaphores' = [semaphores EXCEPT ![k] = 0] /\ semaphores'[k] = 0
  BY <1>2, <1>3, <1>4 DEF TermInv, TermType
<1>8. waiting' = [waiting EXCEPT ![k] = <<>>] /\ v0' = status[op]
  <2>1. Tail(waiting[k]) = <<>> /\ waiting[k] # <<>>
    BY <1>4
  <2> QED  BY <1>2, <1>7, <2>1
<1> QED  BY <1>1, <1>4, <1>5, <1>6, <1>7, <1>8

LEMMA TermInterrupt ==
  ASSUME TermInv, OneActive, Interrupt
  PROVE  TermInv'
<1> USE DEF TermInv
<1>1. PICK op \in pending :
        /\ status' = [status EXCEPT ![op] = READY]
        /\ pending' = pending \ {op}
        /\ waiting' = [waiting EXCEPT ![SemOf(op)] = <<>>]
        /\ semaphores' = [semaphores EXCEPT ![SemOf(op)] = 0]
  BY InterruptReleases
<1>2. /\ op \in SubDevices /\ status'[op] = READY
      /\ \A s \in SubDevices : s # op => status'[s] = status[s]
  BY <1>1 DEF TermType
<1>3. /\ SemOf(op) \in 0..MAXSEMS - 1 /\ SemOf(op) # MAXSEMS - 1
      /\ MAXSEMS - 1 \in 0..MAXSEMS - 1
  BY <1>2, SemaphoresDistinct, LineAssumption
<1>4. /\ waiting'[SemOf(op)] = <<>> /\ semaphores'[SemOf(op)] = 0
      /\ \A i \in 0..MAXSEMS - 1 : i # SemOf(op) =>
           waiting'[i] = waiting[i] /\ semaphores'[i] = semaphores[i]
  <2>1. waiting'[SemOf(op)] = <<>> /\ semaphores'[SemOf(op)] = 0
    BY <1>1, <1>3 DEF TermType
  <2>2. \A i \in 0..MAXSEMS - 1 : i # SemOf(op) =>
          waiting'[i] = waiting[i] /\ semaphores'[i] = semaphores[i]
    BY <1>1, <1>3 DEF TermType
  <2> QED  BY <2>1, <2>2
<1>5. TermType'
  <2>1. semaphores' \in [0..MAXSEMS - 1 -> Int]
    BY <1>1, <1>3 DEF TermType
  <2>2. waiting' \in [0..MAXSEMS - 1 -> Seq(SubDevices)]
    <3>1. <<>> \in Seq(SubDevices)
      OBVIOUS
    <3> QED  BY <1>1, <1>3, <3>1 DEF TermType
  <2> QED  BY <1>1, <2>1, <2>2 DEF TermType
<1>6. StatusPending'
  BY <1>1, <1>2 DEF StatusPending
<1>7. OneWorks'
  BY <1>2 DEF OneWorks
<1>8. WaitersCounted'
  <2>1. waiting'[MAXSEMS - 1] = <<>>
    BY <1>3, <1>4 DEF WaitersCounted
  <2>2. semaphores'[SemOf(op)] + Len(waiting'[SemOf(op)]) = 0
    BY <1>4
  <2>3. \A i \in 0..MAXSEMS - 1 :
          i # SemOf(op) => semaphores'[i] + Len(waiting'[i]) = 0
    BY <1>4 DEF WaitersCounted
  <2> QED  BY <2>1, <2>2, <2>3 DEF WaitersCounted
<1>9. AwaitedInPlace'
  <2> SUFFICES ASSUME NEW s \in SubDevices
               PROVE  waiting'[SemOf(s)] =
                        IF status'[s] = BUSY \/ s \in pending' THEN <<s>> ELSE <<>>
    BY DEF AwaitedInPlace, SemOf, FindSem
  <2>1. CASE s = op
    BY <1>1, <1>2, <1>4, <2>1 DEF READY, BUSY
  <2>2. CASE s # op
    <3>1. SemOf(s) # SemOf(op) /\ SemOf(s) \in 0..MAXSEMS - 1
      BY <1>2, <2>2, SemaphoresDistinct, LineAssumption
    <3> QED  BY <1>1, <1>2, <1>4, <2>2, <3>1 DEF AwaitedInPlace
  <2> QED  BY <2>1, <2>2
<1> QED  BY <1>5, <1>6, <1>7, <1>8, <1>9

LEMMA TermNext ==
  ASSUME TermInv, OneActive, [Next]_tvars
  PROVE  TermInv'
<1>1. ASSUME NEW s \in SubDevices, StartAndWait(s)  PROVE  TermInv'
  BY <1>1, TermStart
<1>2. ASSUME NEW s \in SubDevices, Complete(s)  PROVE  TermInv'
  BY <1>2, TermComplete
<1>3. CASE Interrupt
  BY <1>3, TermInterrupt
<1>4. CASE UNCHANGED tvars
  BY <1>4 DEF tvars, TermInv, TermType, StatusPending, OneWorks,
              WaitersCounted, AwaitedInPlace, SemOf, FindSem
<1> QED  BY <1>1, <1>2, <1>3, <1>4 DEF Next

\* Whoever is released gets the answer to his own operation.
LEMMA TermOwn ==
  ASSUME TermInv, OneActive, [Next]_tvars
  PROVE  \A i \in 0..MAXSEMS - 1 :
           Len(waiting'[i]) < Len(waiting[i]) =>
             LET op == Head(waiting[i]) IN
               /\ op \in pending \ pending'
               /\ v0' = IF op.line = TERMINT THEN DONE ELSE READY
<1> SUFFICES ASSUME NEW i \in 0..MAXSEMS - 1,
                    Len(waiting'[i]) < Len(waiting[i])
             PROVE  /\ Head(waiting[i]) \in pending \ pending'
                    /\ v0' = IF Head(waiting[i]).line = TERMINT
                               THEN DONE ELSE READY
  OBVIOUS
<1>0. waiting[i] \in Seq(SubDevices)
  BY DEF TermInv, TermType
<1>1. CASE Interrupt
  <2>1. PICK op \in pending :
          /\ pending' = pending \ {op}
          /\ waiting[SemOf(op)] = <<op>>
          /\ waiting' = [waiting EXCEPT ![SemOf(op)] = <<>>]
          /\ v0' = IF op.line = TERMINT THEN DONE ELSE READY
    BY <1>1, InterruptReleases
  <2>2. i = SemOf(op)
    <3> SUFFICES ASSUME i # SemOf(op)  PROVE  FALSE
      OBVIOUS
    <3>1. waiting'[i] = waiting[i]
      BY <2>1 DEF TermInv, TermType
    <3> QED  BY <1>0, <3>1
  <2>3. Head(waiting[i]) = op
    BY <2>1, <2>2
  <2> QED  BY <2>1, <2>3
<1>2. ASSUME NEW s \in SubDevices, StartAndWait(s)  PROVE  FALSE
  <2>1. waiting' = [waiting EXCEPT ![SemOf(s)] = Append(@, s)]
    BY <1>2 DEF StartAndWait
  <2>2. waiting'[i] = waiting[i] \/ waiting'[i] = Append(waiting[i], s)
    BY <2>1 DEF TermInv, TermType
  <2> QED  BY <1>0, <2>2
<1>3. ASSUME NEW s \in SubDevices, Complete(s)  PROVE  FALSE
  BY <1>0, <1>3 DEF Complete
<1>4. CASE UNCHANGED tvars
  BY <1>0, <1>4 DEF tvars
<1> QED  BY <1>1, <1>2, <1>3, <1>4 DEF Next

\* Every semaphore counts its own waiter, whatever the devices, as long as no
\* terminal reads and writes at the same time.
THEOREM WaitersAreCounted ==
  ASSUME OneActive
  PROVE  Spec => []WaitersCounted
<1>1. TermInv /\ [Next]_tvars => TermInv'
  BY TermNext
<1>2. TermInv => WaitersCounted
  BY DEF TermInv
<1> QED  BY TermInit, <1>1, <1>2, PTL DEF Spec

\* An operation's semaphore holds its waiter and nobody else.
THEOREM WaitersInPlace ==
  ASSUME OneActive
  PROVE  Spec => []AwaitedInPlace
<1>1. TermInv /\ [Next]_tvars => TermInv'
  BY TermNext
<1>2. TermInv => AwaitedInPlace
  BY DEF TermInv
<1> QED  BY TermInit, <1>1, <1>2, PTL DEF Spec

\* The process that is released gets the status of the operation it started,
\* and that operation's interrupt is the one acknowledged.
THEOREM OwnCompletions ==
  ASSUME OneActive
  PROVE  Spec => OwnCompletion
<1>1. TermInv /\ [Next]_tvars => TermInv'
  BY TermNext
<1>2. TermInv /\ [Next]_tvars =>
        \A i \in 0..MAXSEMS - 1 :
          Len(waiting'[i]) < Len(waiting[i]) =>
            LET op == Head(waiting[i]) IN
              /\ op \in pending \ pending'
              /\ v0' = IF op.line = TERMINT THEN DONE ELSE READY
  BY TermOwn
<1> QED  BY TermInit, <1>1, <1>2, PTL DEF Spec, OwnCompletion
=============================================================================
