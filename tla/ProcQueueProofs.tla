---------------------------- MODULE ProcQueueProofs ----------------------------
(***************************************************************************)
(* The queues of pcb.c are rings after any sequence of operations, for any *)
(* number of PCBs and of queues.  RingInv is inductive because OneRing is  *)
(* part of it: when the tail is its own successor the operations make the  *)
(* tail pointer NULL, which is right only if nobody else is in the queue.  *)
(***************************************************************************)
EXTENDS ProcQueue, QueueLemmas

LEMMA QueuePlaces == pcbFree \in Queue /\ NULL \notin Queue \cup Pcb
  BY QueueAssumption, NullAssumption

\* RingInv, PCB by PCB and queue by queue.
Linked(p) ==
  place[p] # NULL =>
    /\ p_next[p] \in Pcb /\ place[p_next[p]] = place[p]
    /\ p_prev[p] \in Pcb /\ place[p_prev[p]] = place[p]
    /\ p_prev[p_next[p]] = p /\ p_next[p_prev[p]] = p
TailOK(q) ==
  IF tp[q] = NULL THEN \A p \in Pcb : place[p] # q
  ELSE tp[q] \in Pcb /\ place[tp[q]] = q

LEMMA RingParts ==
  ASSUME RingInv
  PROVE  /\ QueueTypeOK
         /\ \A p \in Pcb : Linked(p)
         /\ \A q \in Queue : TailOK(q) /\ OneRing(q)
  BY DEF RingInv, QueueTypeOK, Linked, TailOK, Members
LEMMA RingFromParts ==
  ASSUME QueueTypeOK', \A p \in Pcb : Linked(p)',
         \A q \in Queue : TailOK(q)' /\ OneRing(q)'
  PROVE  RingInv'
  BY QueuePlaces DEF RingInv, QueueTypeOK, Linked, TailOK, Members

\* A queue whose members and their successors stay is still one ring.
LEMMA OneRingKept ==
  ASSUME NEW q \in Queue, OneRing(q),
         \A p \in Pcb : place'[p] = q <=> place[p] = q,
         \A p \in Pcb : place[p] = q => p_next'[p] = p_next[p]
  PROVE  OneRing(q)'
<1>1. Members(q)' = Members(q)
  BY DEF Members
<1>2. ASSUME NEW S \in SUBSET Members(q), S # {}, \A p \in S : p_next'[p] \in S
      PROVE  S = Members(q)
  BY <1>2 DEF OneRing, Members
<1> QED BY <1>1, <1>2 DEF OneRing

\* Nothing but ret changes.
LEMMA NothingMoves ==
  ASSUME RingInv, UNCHANGED <<queueLinks, place>>, queueRet' \in Ptr
  PROVE  RingInv'
  BY DEF RingInv, QueueTypeOK, queueLinks, Members, OneRing

LEMMA InsertSound ==
  ASSUME RingInv, NEW q \in Queue, NEW p \in Pcb, InsertProcQ(q, p)
  PROVE  RingInv'
<1> USE QueuePlaces DEF Ptr
<1>1. /\ QueueTypeOK
      /\ \A m \in Pcb : Linked(m)
      /\ \A r \in Queue : TailOK(r) /\ OneRing(r)
  BY RingParts
<1>2. /\ place[p] = NULL /\ queueRet' = NULL
      /\ place' = [place EXCEPT ![p] = q] /\ tp' = [tp EXCEPT ![q] = p]
      /\ \A m \in Pcb : Linked(m) /\ place[m] # NULL =>
                           m # p /\ p_next[m] # p /\ p_prev[m] # p
  BY DEF InsertProcQ, Linked
<1>3. CASE tp[q] = NULL
  <2>1. /\ p_next' = [p_next EXCEPT ![p] = p]
        /\ p_prev' = [p_prev EXCEPT ![p] = p]
    BY <1>3 DEF InsertProcQ
  <2>2. QueueTypeOK'
    BY <1>1, <1>2, <2>1 DEF QueueTypeOK
  <2>3. ASSUME NEW m \in Pcb PROVE Linked(m)'
    BY <1>1, <1>2, <2>1 DEF Linked, QueueTypeOK
  <2>4. ASSUME NEW r \in Queue PROVE TailOK(r)'
    BY <1>1, <1>2, <1>3 DEF TailOK, QueueTypeOK
  <2>5. ASSUME NEW r \in Queue PROVE OneRing(r)'
    <3>1. CASE r = q
      <4>1. Members(q)' = {p}
        BY <1>1, <1>2, <1>3 DEF TailOK, QueueTypeOK, Members
      <4> QED BY <3>1, <4>1 DEF OneRing
    <3>2. CASE r # q
      BY <1>1, <1>2, <2>1, <3>2, OneRingKept DEF QueueTypeOK
    <3> QED BY <3>1, <3>2
  <2> QED BY <2>2, <2>3, <2>4, <2>5, RingFromParts
<1>4. CASE tp[q] # NULL
  <2> DEFINE tail == tp[q]
  <2> DEFINE head == p_next[tail]
  <2>1. /\ tail \in Pcb /\ place[tail] = q /\ Linked(tail) /\ tail # p
    BY <1>1, <1>2, <1>4 DEF TailOK
  <2>2. /\ head \in Pcb /\ place[head] = q /\ head # p
        /\ p_prev[head] = tail /\ Linked(head)
    BY <1>1, <1>2, <2>1 DEF Linked
  <2>3. /\ p_next' = [p_next EXCEPT ![p] = head, ![tail] = p]
        /\ p_prev' = [p_prev EXCEPT ![p] = tail, ![head] = p]
    BY <1>4 DEF InsertProcQ
  <2> HIDE DEF head, tail
  <2>4. QueueTypeOK'
    BY <1>1, <1>2, <2>1, <2>2, <2>3 DEF QueueTypeOK
  <2>5. /\ p_next' \in [Pcb -> Ptr] /\ p_prev' \in [Pcb -> Ptr]
        /\ \A m \in Pcb : p_next'[m] = IF m = tail THEN p
                                        ELSE IF m = p THEN head ELSE p_next[m]
        /\ \A m \in Pcb : p_prev'[m] = IF m = head THEN p
                                        ELSE IF m = p THEN tail ELSE p_prev[m]
        /\ \A m \in Pcb : place'[m] = IF m = p THEN q ELSE place[m]
    BY <1>1, <1>2, <2>1, <2>2, <2>3 DEF QueueTypeOK
  <2>6. ASSUME NEW m \in Pcb PROVE Linked(m)'
    <3>1. p_next[tail] = head
      BY DEF head
    <3>2. /\ Linked(m)
          /\ place[m] # NULL => m # p /\ p_next[m] # p /\ p_prev[m] # p
      BY <1>1, <1>2
    <3>3. /\ place[m] # NULL /\ p_next[m] = head => m = tail
          /\ place[m] # NULL /\ p_prev[m] = tail => m = head
      BY <2>2, <3>1, <3>2 DEF Linked
    <3> QED BY <2>1, <2>2, <2>5, <3>1, <3>2, <3>3 DEF Linked
  <2>7. ASSUME NEW r \in Queue PROVE TailOK(r)'
    BY <1>1, <1>2, <2>5 DEF TailOK, QueueTypeOK
  <2>8. ASSUME NEW r \in Queue PROVE OneRing(r)'
    <3>1. CASE r # q
      BY <1>1, <2>1, <2>5, <1>2, <3>1, OneRingKept DEF QueueTypeOK
    <3>2. CASE r = q
      <4>1. Members(q)' = Members(q) \cup {p} /\ p \notin Members(q)
            /\ tail \in Members(q) /\ head \in Members(q)
        BY <1>2, <2>1, <2>2, <2>5 DEF Members
      <4>2. ASSUME NEW S \in SUBSET (Members(q) \cup {p}), S # {},
                   \A m \in S : p_next'[m] \in S
            PROVE  S = Members(q) \cup {p}
        <5>1. /\ tail \in S => p \in S
              /\ p \in S => head \in S
          BY <2>1, <2>5, <4>1, <4>2
        <5>2. S \ {p} \in SUBSET Members(q) /\ S \ {p} # {}
          BY <4>1, <4>2, <5>1
        <5>3. ASSUME NEW m \in S \ {p} PROVE p_next[m] \in S \ {p}
          <6>1. m \in Pcb /\ place[m] = q /\ p_next[m] # p
            BY <1>1, <1>2, <5>2 DEF Members
          <6>2. CASE m = tail
            BY <4>1, <5>1, <5>3, <6>2 DEF head
          <6>3. CASE m # tail
            BY <2>5, <4>2, <5>3, <6>1, <6>3
          <6> QED BY <6>2, <6>3
        <5>4. S \ {p} = Members(q)
          BY <1>1, <5>2, <5>3 DEF OneRing
        <5> QED BY <4>1, <5>1, <5>4
      <4> QED BY <3>2, <4>1, <4>2 DEF OneRing
    <3> QED BY <3>1, <3>2
  <2> QED BY <2>4, <2>6, <2>7, <2>8, RingFromParts
<1> QED BY <1>3, <1>4

\* A PCB leaves a queue in which it is not alone; its own links do not matter.
LEMMA UnlinkSound ==
  ASSUME RingInv, NEW q \in Queue, NEW p \in Pcb, NEW t \in Pcb,
         place[p] = q, place[t] = q, t # p, p_next[p] # p,
         p_next' \in [Pcb -> Ptr], p_prev' \in [Pcb -> Ptr],
         \A m \in Pcb \ {p} :
           /\ p_next'[m] = IF m = p_prev[p] THEN p_next[p] ELSE p_next[m]
           /\ p_prev'[m] = IF m = p_next[p] THEN p_prev[p] ELSE p_prev[m],
         tp' = [tp EXCEPT ![q] = t], place' = [place EXCEPT ![p] = NULL],
         queueRet' \in Ptr
  PROVE  RingInv'
<1> USE QueuePlaces DEF Ptr
<1>1. /\ QueueTypeOK
      /\ \A m \in Pcb : Linked(m)
      /\ \A r \in Queue : TailOK(r) /\ OneRing(r)
  BY RingParts
<1> DEFINE old == p_prev[p]
<1> DEFINE new == p_next[p]
<1>2. /\ old \in Pcb /\ place[old] = q /\ old # p /\ p_next[old] = p
      /\ new \in Pcb /\ place[new] = q /\ new # p /\ p_prev[new] = p
  BY <1>1 DEF Linked
<1>3. \A m \in Pcb :
        /\ place'[m] = IF m = p THEN NULL ELSE place[m]
        /\ m # p => /\ p_next'[m] = IF m = old THEN new ELSE p_next[m]
                    /\ p_prev'[m] = IF m = new THEN old ELSE p_prev[m]
  BY <1>1 DEF QueueTypeOK
<1>4. QueueTypeOK'
  BY <1>1, <1>3 DEF QueueTypeOK
<1>5. ASSUME NEW m \in Pcb PROVE Linked(m)'
  <2>1. Linked(m)
    BY <1>1
  <2>2. /\ place[m] # NULL /\ p_next[m] = p => m = old
        /\ place[m] # NULL /\ p_prev[m] = p => m = new
    BY <2>1 DEF Linked
  <2>3. p_next[p] = new /\ p_prev[p] = old
    OBVIOUS
  <2> HIDE DEF old, new
  <2> QED BY <1>2, <1>3, <2>1, <2>2, <2>3 DEF Linked
<1>6. ASSUME NEW r \in Queue PROVE TailOK(r)'
  BY <1>1, <1>3 DEF TailOK, QueueTypeOK
<1>7. ASSUME NEW r \in Queue PROVE OneRing(r)'
  <2>1. CASE r # q
    <3>1. \A m \in Pcb : (place'[m] = r <=> place[m] = r)
                         /\ (place[m] = r => p_next'[m] = p_next[m])
      BY <1>2, <1>3, <2>1
    <3> QED BY <1>1, <3>1, OneRingKept
  <2>2. CASE r = q
    <3>1. Members(q)' = Members(q) \ {p} /\ p \in Members(q)
      BY <1>3 DEF Members
    <3>2. ASSUME NEW S \in SUBSET (Members(q) \ {p}), S # {},
                 \A m \in S : p_next'[m] \in S
          PROVE  S = Members(q) \ {p}
      <4> DEFINE T == IF old \in S THEN S \cup {p} ELSE S
      <4>1. T \in SUBSET Members(q) /\ T # {}
        BY <3>1, <3>2
      <4>2. ASSUME NEW m \in T PROVE p_next[m] \in T
        <5>1. m \in Pcb /\ m \in Members(q)
          BY <4>1, <4>2 DEF Members
        <5>2. CASE m = p
          <6>1. old \in S
            BY <3>2, <4>2, <5>2
          <6>2. p_next'[old] = new /\ new \in S
            BY <1>2, <1>3, <3>2, <6>1
          <6> QED BY <5>2, <6>2
        <5>3. CASE m = old
          <6>1. old \in S
            BY <1>2, <4>2, <5>3
          <6> QED BY <1>2, <5>3, <6>1
        <5>4. CASE m # p /\ m # old
          <6>1. m \in S /\ p_next'[m] = p_next[m]
            BY <1>3, <4>2, <5>1, <5>4
          <6> QED BY <3>2, <6>1
        <5> QED BY <5>2, <5>3, <5>4
      <4>3. T = Members(q)
        <5> HIDE DEF T
        <5> QED BY <1>1, <4>1, <4>2 DEF OneRing
      <4> QED BY <3>1, <3>2, <4>3
    <3> QED BY <2>2, <3>1, <3>2 DEF OneRing
  <2> QED BY <2>1, <2>2
<1> QED BY <1>4, <1>5, <1>6, <1>7, RingFromParts

\* The only PCB of a queue leaves it.
LEMMA LastLeavesSound ==
  ASSUME RingInv, NEW q \in Queue, NEW p \in Pcb,
         place[p] = q, p_next[p] = p,
         p_next' \in [Pcb -> Ptr], p_prev' \in [Pcb -> Ptr],
         \A m \in Pcb \ {p} : p_next'[m] = p_next[m] /\ p_prev'[m] = p_prev[m],
         tp' = [tp EXCEPT ![q] = NULL], place' = [place EXCEPT ![p] = NULL],
         queueRet' \in Ptr
  PROVE  RingInv'
<1> USE QueuePlaces DEF Ptr
<1>1. /\ QueueTypeOK
      /\ \A m \in Pcb : Linked(m)
      /\ \A r \in Queue : TailOK(r) /\ OneRing(r)
  BY RingParts
<1>2. Members(q) = {p}
  <2>1. {p} \in SUBSET Members(q) /\ \A m \in {p} : p_next[m] \in {p}
    BY DEF Members
  <2> QED BY <1>1, <2>1 DEF OneRing
<1>3. \A m \in Pcb : (place[m] = q <=> m = p)
  BY <1>2 DEF Members
<1>4. \A m \in Pcb : place'[m] = IF m = p THEN NULL ELSE place[m]
  BY <1>1 DEF QueueTypeOK
<1>5. QueueTypeOK'
  BY <1>1 DEF QueueTypeOK
<1>6. ASSUME NEW m \in Pcb PROVE Linked(m)'
  BY <1>1, <1>3, <1>4 DEF Linked
<1>7. ASSUME NEW r \in Queue PROVE TailOK(r)'
  BY <1>1, <1>3, <1>4 DEF TailOK, QueueTypeOK
<1>8. ASSUME NEW r \in Queue PROVE OneRing(r)'
  <2>1. CASE r # q
    <3>1. \A m \in Pcb : (place'[m] = r <=> place[m] = r)
                         /\ (place[m] = r => p_next'[m] = p_next[m])
      BY <1>3, <1>4, <2>1
    <3> QED BY <1>1, <3>1, OneRingKept
  <2>2. CASE r = q
    <3>1. Members(q)' = {}
      BY <1>3, <1>4 DEF Members
    <3> QED BY <2>2, <3>1 DEF OneRing
  <2> QED BY <2>1, <2>2
<1> QED BY <1>5, <1>6, <1>7, <1>8, RingFromParts
\* Unlinking p, spelt out.
LEMMA UnlinkLinks ==
  ASSUME QueueTypeOK, NEW p \in Pcb, p_next[p] \in Pcb, p_prev[p] \in Pcb,
         Unlink(p)
  PROVE  /\ p_next' \in [Pcb -> Ptr] /\ p_prev' \in [Pcb -> Ptr]
         /\ \A m \in Pcb \ {p} :
              /\ p_next'[m] = IF m = p_prev[p] THEN p_next[p] ELSE p_next[m]
              /\ p_prev'[m] = IF m = p_next[p] THEN p_prev[p] ELSE p_prev[m]
  BY DEF QueueTypeOK, Unlink, Ptr

\* outProcQ looks only at PCBs of the queue.
LEMMA VisitedInQueue ==
  ASSUME RingInv, NEW q \in Queue, tp[q] # NULL, NEW p \in Visited(q)
  PROVE  p \in Pcb /\ place[p] = q
<1>1. Members(q) \in SUBSET Pcb /\ p_next[tp[q]] \in Members(q)
      /\ \A m \in Members(q) : p_next[m] \in Members(q)
  BY DEF RingInv, Members
<1> QED BY <1>1 DEF Visited, Members

LEMMA OutSound ==
  ASSUME RingInv, NEW q \in Queue, NEW p \in Pcb, OutProcQ(q, p)
  PROVE  RingInv'
<1> USE QueuePlaces DEF Ptr
<1>1. /\ QueueTypeOK
      /\ \A m \in Pcb : Linked(m)
      /\ TailOK(q)
  BY RingParts
<1>2. CASE OutMissing(q, p)
  BY <1>2, NothingMoves DEF OutMissing
<1>3. CASE ~ OutMissing(q, p)
  <2>1. place' = [place EXCEPT ![p] = NULL]
    BY <1>3 DEF OutProcQ
  <2>2. CASE OutLast(q, p)
    <3>1. place[p] = q
      BY <1>1, <2>2 DEF OutLast, TailOK
    <3> QED BY <1>1, <2>1, <2>2, <3>1, LastLeavesSound DEF OutLast, QueueTypeOK
  <2>3. CASE OutTail(q, p)
    <3>1. place[p] = q /\ Linked(p)
      BY <1>1, <2>3 DEF OutTail, TailOK
    <3>2. /\ p_next[p] \in Pcb /\ p_prev[p] \in Pcb
          /\ place[p_prev[p]] = q /\ p_next[p] # p /\ p_prev[p] # p
      BY <2>3, <3>1 DEF OutTail, Linked
    <3>3. /\ Unlink(p) /\ tp' = [tp EXCEPT ![q] = p_prev[p]]
          /\ queueRet' \in Ptr
      BY <2>3, <3>2 DEF OutTail
    <3> QED BY <1>1, <2>1, <3>1, <3>2, <3>3, UnlinkLinks, UnlinkSound
  <2>4. CASE OutInner(q, p)
    <3>1. /\ tp[q] \in Pcb /\ tp[q] # p /\ place[tp[q]] = q
          /\ place[p] = q /\ Linked(p)
      BY <1>1, <2>4, VisitedInQueue DEF OutInner, TailOK
    <3>2. /\ p_next[p] \in Pcb /\ p_prev[p] \in Pcb
      BY <3>1 DEF Linked
    <3>3. p_next[p] # p
      <4>1. SUFFICES ASSUME p_next[p] = p PROVE FALSE
        OBVIOUS
      <4>2. {p} \in SUBSET Members(q) /\ \A m \in {p} : p_next[m] \in {p}
        BY <3>1, <4>1 DEF Members
      <4>3. Members(q) = {p}
        BY <4>2 DEF RingInv, OneRing
      <4> QED BY <3>1, <4>3 DEF Members
    <3>4. Unlink(p) /\ tp' = [tp EXCEPT ![q] = tp[q]] /\ queueRet' \in Ptr
      BY <1>1, <2>4 DEF OutInner, QueueTypeOK
    <3> DEFINE t == tp[q]
    <3> HIDE DEF t
    <3>5. /\ t \in Pcb /\ t # p /\ place[t] = q
          /\ tp' = [tp EXCEPT ![q] = t]
      BY <3>1, <3>4 DEF t
    <3>6. /\ p_next' \in [Pcb -> Ptr] /\ p_prev' \in [Pcb -> Ptr]
          /\ \A m \in Pcb \ {p} :
               /\ p_next'[m] = IF m = p_prev[p] THEN p_next[p] ELSE p_next[m]
               /\ p_prev'[m] = IF m = p_next[p] THEN p_prev[p] ELSE p_prev[m]
      BY <1>1, <3>2, <3>4, UnlinkLinks
    <3> HIDE DEF Ptr
    <3> QED BY <2>1, <3>1, <3>3, <3>4, <3>5, <3>6, UnlinkSound
  <2> QED BY <1>3, <2>2, <2>3, <2>4 DEF OutProcQ
<1> QED BY <1>2, <1>3

\* The head of a nonempty queue leaves, whatever becomes of its own links.
LEMMA HeadLeavesSound ==
  ASSUME RingInv, NEW q \in Queue, tp[q] # NULL,
         p_next' \in [Pcb -> Ptr], p_prev' \in [Pcb -> Ptr],
         \A m \in Pcb \ {HeadOf(q)} :
           /\ p_next'[m] = NextWithoutHead(q)[m]
           /\ p_prev'[m] = PrevWithoutHead(q)[m],
         tp' = [tp EXCEPT ![q] = TailWithoutHead(q)],
         place' = [place EXCEPT ![HeadOf(q)] = NULL],
         queueRet' = HeadOf(q)
  PROVE  RingInv'
<1> USE QueuePlaces DEF Ptr
<1> DEFINE tail == tp[q]
<1> DEFINE head == p_next[tail]
<1>1. /\ QueueTypeOK
      /\ \A m \in Pcb : Linked(m)
      /\ TailOK(q)
  BY RingParts
<1>2. tail \in Pcb /\ place[tail] = q
  BY <1>1 DEF TailOK
<1>3. /\ head \in Pcb /\ place[head] = q /\ p_prev[head] = tail
      /\ p_next[head] \in Pcb /\ p_prev[p_next[head]] = head
  BY <1>1, <1>2 DEF Linked
<1>4. HeadOf(q) = head
  BY DEF HeadOf
<1>5. CASE head = tail
  <2>1. /\ \A m \in Pcb \ {head} : p_next'[m] = p_next[m]
                                   /\ p_prev'[m] = p_prev[m]
        /\ tp' = [tp EXCEPT ![q] = NULL]
    BY <1>4, <1>5 DEF NextWithoutHead, PrevWithoutHead, TailWithoutHead
  <2> HIDE DEF head, tail
  <2>2. p_next[head] = head
    BY <1>5 DEF head
  <2> QED BY <1>3, <1>4, <2>1, <2>2, LastLeavesSound
<1>6. CASE head # tail
  <2>1. p_next[head] # head
    BY <1>3, <1>6
  <2>2. /\ NextWithoutHead(q) = [p_next EXCEPT ![tail] = p_next[head]]
        /\ PrevWithoutHead(q) = [p_prev EXCEPT ![p_next[head]] = tail]
        /\ tp' = [tp EXCEPT ![q] = tail]
    BY <1>4, <1>6 DEF NextWithoutHead, PrevWithoutHead, TailWithoutHead
  <2> HIDE DEF head, tail
  <2>3. \A m \in Pcb \ {head} :
          /\ p_next'[m] = IF m = p_prev[head] THEN p_next[head] ELSE p_next[m]
          /\ p_prev'[m] = IF m = p_next[head] THEN p_prev[head] ELSE p_prev[m]
    BY <1>1, <1>2, <1>3, <1>4, <2>2 DEF QueueTypeOK
  <2>4. queueRet' \in Ptr /\ place' = [place EXCEPT ![head] = NULL]
    BY <1>3, <1>4
  <2>5. /\ head \in Pcb /\ tail \in Pcb /\ head # tail
        /\ place[head] = q /\ place[tail] = q
        /\ tp' = [tp EXCEPT ![q] = tail]
    BY <1>2, <1>3, <1>6, <2>2
  <2> HIDE DEF Ptr
  <2> QED BY ONLY RingInv, q \in Queue, p_next' \in [Pcb -> Ptr],
             p_prev' \in [Pcb -> Ptr], <2>1, <2>3, <2>4, <2>5, UnlinkSound
<1> QED BY <1>5, <1>6

LEMMA HeadTypes ==
  ASSUME RingInv, NEW q \in Queue, tp[q] # NULL
  PROVE  /\ HeadOf(q) \in Pcb
         /\ NextWithoutHead(q) \in [Pcb -> Ptr]
         /\ PrevWithoutHead(q) \in [Pcb -> Ptr]
<1>1. /\ p_next \in [Pcb -> Ptr] /\ p_prev \in [Pcb -> Ptr]
      /\ tp[q] \in Pcb /\ HeadOf(q) \in Pcb /\ p_next[HeadOf(q)] \in Pcb
  BY DEF RingInv, QueueTypeOK, Members, HeadOf
<1> QED BY <1>1 DEF NextWithoutHead, PrevWithoutHead, Ptr

LEMMA RemoveSound ==
  ASSUME RingInv, NEW q \in Queue, RemoveProcQ(q)
  PROVE  RingInv'
<1>1. CASE tp[q] = NULL
  BY <1>1, NothingMoves DEF RemoveProcQ, Ptr
<1>2. CASE tp[q] # NULL
  BY <1>2, HeadTypes, HeadLeavesSound DEF RemoveProcQ
<1> QED BY <1>1, <1>2

LEMMA AllocSound ==
  ASSUME RingInv, AllocPcb
  PROVE  RingInv'
<1>1. CASE tp[pcbFree] = NULL
  BY <1>1, QueuePlaces, RemoveSound DEF AllocPcb
<1>2. CASE tp[pcbFree] # NULL
  <2> DEFINE gift == HeadOf(pcbFree)
  <2>1. /\ p_next' = [NextWithoutHead(pcbFree) EXCEPT ![gift] = NULL]
        /\ p_prev' = [PrevWithoutHead(pcbFree) EXCEPT ![gift] = NULL]
        /\ tp' = [tp EXCEPT ![pcbFree] = TailWithoutHead(pcbFree)]
        /\ place' = [place EXCEPT ![gift] = NULL]
        /\ queueRet' = gift
    BY <1>2 DEF AllocPcb
  <2>2. /\ p_next' \in [Pcb -> Ptr] /\ p_prev' \in [Pcb -> Ptr]
        /\ \A m \in Pcb \ {gift} :
             /\ p_next'[m] = NextWithoutHead(pcbFree)[m]
             /\ p_prev'[m] = PrevWithoutHead(pcbFree)[m]
    BY <1>2, <2>1, HeadTypes, QueuePlaces DEF Ptr
  <2> QED BY <1>2, <2>1, <2>2, HeadLeavesSound, QueuePlaces
<1> QED BY <1>1, <1>2

\* initPCBs links all PCBs into one ring: a part of it that is closed under
\* p_next holds MAXPROC, for its member nearest to MAXPROC has a successor in
\* it; hence it holds 1, and hence all, for the first PCB it leaves out has a
\* predecessor in it.
LEMMA OneRingAtFirst ==
  ASSUME NEW S \in SUBSET Pcb, S # {},
         \A p \in S : (IF p = MAXPROC THEN 1 ELSE p + 1) \in S
  PROVE  S = Pcb
<1> USE SizeAssumption DEF Pcb
<1>1. MAXPROC \in S
  <2> DEFINE U == {n \in Nat : n < MAXPROC /\ MAXPROC - n \in S}
  <2>1. PICK p \in S : TRUE
    OBVIOUS
  <2>2. MAXPROC - p \in U
    BY <2>1
  <2>3. PICK m \in U : \A k \in U : m <= k
    <3>1. U \in SUBSET Nat /\ U # {}
      BY <2>2
    <3> HIDE DEF U
    <3> QED BY <3>1, LeastElement
  <2>4. CASE m # 0
    <3>1. MAXPROC - m \in S /\ MAXPROC - m # MAXPROC
      BY <2>4
    <3>2. (MAXPROC - m) + 1 \in S
      BY <3>1
    <3>3. m - 1 \in U
      BY <2>4, <3>2
    <3> QED BY <2>3, <3>3
  <2> QED BY <2>4
<1>2. ASSUME S # Pcb PROVE FALSE
  <2> DEFINE U == {n \in Pcb : n \notin S}
  <2>1. PICK m \in U : \A k \in U : m <= k
    <3>1. U \in SUBSET Nat
      OBVIOUS
    <3>2. U # {}
      <4>1. PICK n \in Pcb : n \notin S
        BY <1>2
      <4> QED BY <4>1
    <3> HIDE DEF U
    <3> QED BY <3>1, <3>2, LeastElement
  <2>2. 1 \in S
    BY <1>1
  <2>3. m # 1 /\ m - 1 \in Pcb /\ m - 1 \notin U
    BY <2>1, <2>2
  <2>4. m \in S
    BY <2>3
  <2> QED BY <2>4
<1> QED BY <1>2

LEMMA InitSound == QueueInit => RingInv
<1> SUFFICES ASSUME QueueInit PROVE RingInv
  OBVIOUS
<1> USE SizeAssumption, QueuePlaces DEF Pcb, Ptr
<1>1. QueueTypeOK
  BY DEF QueueInit, QueueTypeOK
<1>2. /\ \A p \in Pcb : place[p] = pcbFree
      /\ \A q \in Queue : tp[q] = IF q = pcbFree THEN MAXPROC ELSE NULL
      /\ \A p \in Pcb : p_next[p] = IF p = MAXPROC THEN 1 ELSE p + 1
      /\ \A p \in Pcb : p_prev[p] = IF p = 1 THEN MAXPROC ELSE p - 1
  BY DEF QueueInit
<1>3. ASSUME NEW q \in Queue PROVE OneRing(q)
  <2>1. CASE q = pcbFree
    <3>1. Members(q) = Pcb
      BY <1>2, <2>1 DEF Members
    <3>2. ASSUME NEW S \in SUBSET Pcb, S # {}, \A p \in S : p_next[p] \in S
          PROVE  S = Pcb
      <4>1. \A p \in S : (IF p = MAXPROC THEN 1 ELSE p + 1) \in S
        BY <1>2, <3>2
      <4> HIDE DEF Pcb
      <4> QED BY <3>2, <4>1, OneRingAtFirst
    <3> HIDE DEF Pcb
    <3> QED BY <3>1, <3>2 DEF OneRing
  <2>2. CASE q # pcbFree
    <3>1. Members(q) = {}
      BY <1>2, <2>2 DEF Members
    <3> QED BY <3>1 DEF OneRing
  <2> QED BY <2>1, <2>2
<1>4. ASSUME NEW q \in Queue
      PROVE  /\ tp[q] = NULL <=> Members(q) = {}
             /\ tp[q] # NULL => tp[q] \in Members(q)
  BY <1>2 DEF Members
<1>5. ASSUME NEW q \in Queue, NEW p \in Members(q)
      PROVE  /\ p_next[p] \in Members(q) /\ p_prev[p_next[p]] = p
             /\ p_prev[p] \in Members(q) /\ p_next[p_prev[p]] = p
  <2>1. p \in Pcb /\ q = pcbFree
    BY <1>2 DEF Members
  <2>2. /\ p_next[p] \in Pcb /\ p_prev[p_next[p]] = p
        /\ p_prev[p] \in Pcb /\ p_next[p_prev[p]] = p
    BY <1>2, <2>1
  <2> QED BY <1>2, <2>1, <2>2 DEF Members
<1> QED BY <1>1, <1>3, <1>4, <1>5 DEF RingInv

\* The queues and the free list are rings after any sequence of operations,
\* whatever the number of PCBs and queues (pcb.c, 26 to 255).
THEOREM RingSound == QueueSpec => []RingInv
<1>1. RingInv /\ [QueueNext]_queueVars => RingInv'
  <2> SUFFICES ASSUME RingInv, [QueueNext]_queueVars PROVE RingInv'
    OBVIOUS
  <2>1. CASE AllocPcb
    BY <2>1, AllocSound
  <2>2. ASSUME NEW p \in Pcb, FreePcb(p) PROVE RingInv'
    BY <2>2, InsertSound, QueuePlaces DEF FreePcb
  <2>3. ASSUME NEW q \in Queue, RemoveProcQ(q) PROVE RingInv'
    BY <2>3, RemoveSound
  <2>4. ASSUME NEW q \in Queue, HeadProcQ(q) PROVE RingInv'
    <3>1. queueRet' \in Ptr /\ UNCHANGED <<queueLinks, place>>
      BY <2>4, HeadTypes DEF HeadProcQ, Ptr
    <3> QED BY <3>1, NothingMoves
  <2>5. ASSUME NEW q \in Queue, NEW p \in Pcb, InsertProcQ(q, p)
        PROVE  RingInv'
    BY <2>5, InsertSound
  <2>6. ASSUME NEW q \in Queue, NEW p \in Pcb, OutProcQ(q, p)
        PROVE  RingInv'
    BY <2>6, OutSound
  <2>7. CASE UNCHANGED queueVars
    BY <2>7 DEF RingInv, QueueTypeOK, queueVars, Members, OneRing
  <2> QED BY <2>1, <2>2, <2>3, <2>4, <2>5, <2>6, <2>7 DEF QueueNext
<1> QED BY <1>1, InitSound, PTL DEF QueueSpec
-----------------------------------------------------------------------------
(***************************************************************************)
(* The refinement.  The PCBs of q are the sequence s: p_next leads through *)
(* s from its first to its last, the tail of q, and back.                  *)
(***************************************************************************)
InLine(q, s) ==
  /\ s \in Seq(Pcb) /\ IsInjective(s)
  /\ \A p \in Pcb : p \in ToSet(s) <=> place[p] = q
  /\ tp[q] = IF s = <<>> THEN NULL ELSE s[Len(s)]
  /\ \A i \in 1..Len(s) : p_next[s[i]] = s[IF i = Len(s) THEN 1 ELSE i + 1]
Lines == \A q \in Queue : \E s \in Seq(Pcb) : InLine(q, s)
QueueInv == RingInv /\ Lines

\* The sequence by index.
LEMMA LineParts ==
  ASSUME NEW q \in Queue, NEW s \in Seq(Pcb), InLine(q, s)
  PROVE  /\ Len(s) \in Nat
         /\ \A i \in 1..Len(s) : s[i] \in Pcb /\ place[s[i]] = q
         /\ \A i, j \in 1..Len(s) : s[i] = s[j] => i = j
         /\ \A p \in Pcb : place[p] = q => \E i \in 1..Len(s) : s[i] = p
<1>1. /\ IsInjective(s)
      /\ \A p \in Pcb : p \in ToSet(s) <=> place[p] = q
  BY DEF InLine
<1>2. Len(s) \in Nat /\ \A i \in 1..Len(s) : s[i] \in Pcb /\ s[i] \in ToSet(s)
  BY ToSetDef
<1>3. \A i, j \in 1..Len(s) : s[i] = s[j] => i = j
  BY <1>1, ToSetDef
<1>4. \A x : x \in ToSet(s) <=> \E i \in 1..Len(s) : s[i] = x
  BY ToSetDef
<1> QED BY <1>1, <1>2, <1>3, <1>4

\* The walk of Contents finds it.
LEMMA ContentsAre ==
  ASSUME QueueTypeOK, NEW q \in Queue, NEW s \in Seq(Pcb), InLine(q, s)
  PROVE  Contents(q) = s
<1> DEFINE n == Len(s)
           walk == Walk(tp[q], p_next, MAXPROC)
<1>1. MAXPROC \in Nat /\ n \in Nat /\ n <= MAXPROC
  <2>1. IsFiniteSet(Pcb) /\ Cardinality(Pcb) = MAXPROC
    <3>1. PICK m \in Nat : m = MAXPROC /\ m # 0
      BY SizeAssumption
    <3>2. IsFiniteSet(1..m) /\ Cardinality(1..m) = IF 1 > m THEN 0 ELSE m - 1 + 1
      BY FS_Interval
    <3> QED BY <3>1, <3>2 DEF Pcb
  <2>2. ToSet(s) \in SUBSET Pcb /\ IsInjective(s)
    BY ToSetDef DEF InLine
  <2>3. Cardinality(ToSet(s)) = n /\ n \in Nat
    BY <2>2, InjectiveLength
  <2> QED BY <2>1, <2>2, <2>3, FS_Subset, SizeAssumption
<1>2. /\ walk[0] = tp[q]
      /\ \A i \in 1..MAXPROC : walk[i] = On(walk[i - 1], p_next)
  BY <1>1, WalkIs
<1>3. /\ DOMAIN p_next = Pcb /\ NULL \notin Pcb
      /\ \A i \in 1..n : s[i] \in Pcb
      /\ s = <<>> <=> n = 0
      /\ \A i, j \in 1..n : s[i] = s[j] => i = j
  BY QueuePlaces, LineParts DEF QueueTypeOK
<1>4. CASE n = 0
  <2>1. tp[q] = NULL
    BY <1>3, <1>4 DEF InLine
  <2> QED BY <1>3, <1>4, <2>1 DEF Contents
<1>5. CASE n # 0
  <2> HIDE DEF walk
  <2>1. walk[0] = s[n] /\ tp[q] = s[n] /\ s[n] \in Pcb /\ n \in 1..n
    BY <1>1, <1>2, <1>3, <1>5 DEF InLine
  <2>2. \A i \in 1..n : walk[i] = s[i]
    <3> DEFINE T == {i \in Nat : i \in 1..n /\ walk[i] # s[i]}
    <3> SUFFICES ASSUME T # {} PROVE FALSE
      BY <1>1
    <3>1. PICK i \in T : \A j \in T : i <= j
      <4>1. T \in SUBSET Nat
        OBVIOUS
      <4> HIDE DEF T
      <4> QED BY <4>1, LeastElement
    <3>2. i \in 1..n /\ i \in 1..MAXPROC /\ walk[i] = On(walk[i - 1], p_next)
      BY <1>1, <1>2
    <3>3. CASE i = 1
      <4>1. walk[1] = p_next[s[n]]
        BY <1>3, <2>1, <3>2, <3>3 DEF On
      <4> QED BY <2>1, <3>1, <3>3, <4>1 DEF InLine
    <3>4. CASE i # 1
      <4>1. i - 1 \in 1..n /\ i - 1 \notin T /\ i - 1 # n
        <5>1. i - 1 \in 1..n /\ i - 1 # n /\ ~ (i <= i - 1)
          BY <1>1, <3>2, <3>4
        <5> HIDE DEF T
        <5> QED BY <3>1, <5>1
      <4>2. walk[i - 1] = s[i - 1] /\ s[i - 1] \in Pcb
        BY <1>3, <4>1
      <4>3. walk[i] = p_next[s[i - 1]]
        BY <1>3, <3>2, <4>2 DEF On
      <4>4. p_next[s[i - 1]] = s[i - 1 + 1]
        BY <4>1 DEF InLine
      <4> QED BY <3>1, <3>2, <4>3, <4>4
    <3> QED BY <3>3, <3>4
  <2> DEFINE laps == {i \in Pcb : walk[i] = tp[q]}
             len == CHOOSE i \in laps : \A j \in laps : i <= j
  <2>3. n \in laps /\ \A j \in laps : n <= j
    <3>1. n \in laps
      BY <1>1, <2>1, <2>2 DEF Pcb
    <3>2. ASSUME NEW j \in laps, j < n PROVE FALSE
      <4>1. j \in 1..n
        BY <1>1, <3>2 DEF Pcb
      <4>2. s[j] = s[n]
        BY <2>1, <2>2, <3>2, <4>1
      <4> QED BY <1>3, <2>1, <3>2, <4>1, <4>2
    <3> QED BY <1>1, <3>1, <3>2 DEF Pcb
  <2>4. Contents(q) = IF tp[q] = NULL \/ laps = {} THEN <<>>
                      ELSE [i \in 1..len |-> walk[i]]
    BY DEF Contents, walk
  <2>5. laps \subseteq Int
    BY <1>1 DEF Pcb
  <2> HIDE DEF laps
  <2>6. len = n
    <3>1. \E i \in laps : \A j \in laps : i <= j
      BY <2>3
    <3>2. len \in laps /\ \A j \in laps : len <= j
      BY <3>1
    <3> HIDE DEF len
    <3> QED BY <1>1, <2>3, <2>5, <3>2
  <2> HIDE DEF len
  <2>7. s = [i \in 1..n |-> s[i]]
    OBVIOUS
  <2> QED BY <1>3, <2>1, <2>2, <2>3, <2>4, <2>6, <2>7
<1> QED BY <1>4, <1>5

LineFacts ==
  \A q \in Queue : \A s \in Seq(Pcb) : InLine(q, s) => Contents(q) = s

LEMMA ContentsNext == QueueTypeOK' => LineFacts'
<1>1. QueueTypeOK => LineFacts
  BY ContentsAre DEF LineFacts
<1> QED BY <1>1, PTL

\* A queue stays as it is.
LEMMA LineKept ==
  ASSUME NEW r \in Queue, NEW s \in Seq(Pcb), InLine(r, s), tp'[r] = tp[r],
         \A p \in Pcb : place'[p] = r <=> place[p] = r,
         \A p \in Pcb : place[p] = r => p_next'[p] = p_next[p]
  PROVE  InLine(r, s)'
<1>1. \A i \in 1..Len(s) : s[i] \in Pcb /\ place[s[i]] = r
  BY LineParts
<1>2. \A i \in 1..Len(s) : p_next'[s[i]] = p_next[s[i]]
  BY <1>1
<1> QED BY <1>2 DEF InLine

\* Queue q becomes t.
LEMMA LineStep ==
  ASSUME QueueTypeOK, QueueTypeOK', Lines, NEW q \in Queue, NEW t \in Seq(Pcb), InLine(q, t)',
         \A r \in Queue \ {q} : \A s \in Seq(Pcb) : InLine(r, s) => InLine(r, s)'
  PROVE  Lines' /\ queue' = [queue EXCEPT ![q] = t]
<1>1. ASSUME NEW r \in Queue, r # q
      PROVE  (\E s \in Seq(Pcb) : InLine(r, s)') /\ Contents(r)' = Contents(r)
  <2>1. PICK s \in Seq(Pcb) : InLine(r, s)
    BY DEF Lines
  <2>2. InLine(r, s)'
    BY <1>1, <2>1
  <2> QED BY <2>1, <2>2, ContentsAre, ContentsNext DEF LineFacts
<1>2. Contents(q)' = t
  BY ContentsNext DEF LineFacts
<1>3. Lines'
  BY <1>1 DEF Lines
<1>4. queue' = [r \in Queue |-> Contents(r)']
  BY DEF queue
<1>5. [queue EXCEPT ![q] = t] = [r \in Queue |-> IF r = q THEN t ELSE Contents(r)]
  BY DEF queue
<1> QED BY <1>1, <1>2, <1>3, <1>4, <1>5

\* Nothing moves.
LEMMA LinksKept ==
  ASSUME UNCHANGED <<queueLinks, place>>
  PROVE  (Lines <=> Lines') /\ queue' = queue
<1>1. tp' = tp /\ p_next' = p_next /\ place' = place
  BY DEF queueLinks
<1>2. ASSUME NEW q \in Queue, NEW s \in Seq(Pcb) PROVE InLine(q, s)' <=> InLine(q, s)
  BY <1>1 DEF InLine
<1>3. Lines <=> Lines'
  BY <1>2 DEF Lines
<1>4. ASSUME NEW q \in Queue PROVE Contents(q)' = Contents(q)
  BY <1>1 DEF Contents
<1> QED BY <1>3, <1>4 DEF queue

\* A queue in both views.
LEMMA QueueIs ==
  ASSUME QueueInv, NEW q \in Queue
  PROVE  /\ queue[q] \in Seq(Pcb) /\ InLine(q, queue[q])
         /\ tp[q] = NULL <=> queue[q] = <<>>
         /\ tp[q] # NULL => Head(queue[q]) = HeadOf(q)
<1>1. PICK s \in Seq(Pcb) : InLine(q, s)
  BY DEF QueueInv, Lines
<1>2. queue[q] = s
  BY <1>1, ContentsAre DEF QueueInv, RingInv, queue
<1>3. s # <<>> => Len(s) \in 1..Len(s) /\ s[Len(s)] \in Pcb /\ Head(s) = s[1]
  OBVIOUS
<1>4. s # <<>> => p_next[s[Len(s)]] = s[1]
  BY <1>1, <1>3 DEF InLine
<1> QED BY <1>1, <1>2, <1>3, <1>4, QueuePlaces DEF InLine, HeadOf

\* p, the k-th of q, leaves it.
Leaves(q, s, k, p) ==
  /\ p = s[k]
  /\ place' = [place EXCEPT ![p] = NULL]
  /\ \A r \in Queue \ {q} : tp'[r] = tp[r]
  /\ tp'[q] = IF Len(s) = 1 THEN NULL
              ELSE IF k = Len(s) THEN s[Len(s) - 1] ELSE s[Len(s)]
  /\ \A m \in Pcb \ {p} :
       p_next'[m] = IF m = p_prev[p] THEN p_next[p] ELSE p_next[m]

LEMMA LeaveIs ==
  ASSUME QueueInv, RingInv', NEW q \in Queue, NEW s \in Seq(Pcb), InLine(q, s),
         NEW k \in 1..Len(s), NEW p \in Pcb, Leaves(q, s, k, p)
  PROVE  Lines' /\ queue' = [queue EXCEPT ![q] = RemoveAt(@, k)]
<1> DEFINE n == Len(s)
           After(i) == IF i = n THEN 1 ELSE i + 1
           Before(i) == IF i = 1 THEN n ELSE i - 1
<1>0. /\ p = s[k] /\ place' = [place EXCEPT ![p] = NULL]
      /\ \A r \in Queue \ {q} : tp'[r] = tp[r]
      /\ tp'[q] = IF n = 1 THEN NULL ELSE IF k = n THEN s[n - 1] ELSE s[n]
      /\ \A m \in Pcb \ {p} :
           p_next'[m] = IF m = p_prev[p] THEN p_next[p] ELSE p_next[m]
  BY DEF Leaves
<1>1. /\ QueueTypeOK /\ QueueTypeOK' /\ Lines /\ place \in [Pcb -> Queue \cup {NULL}]
      /\ NULL \notin Queue
  BY QueuePlaces DEF QueueInv, RingInv, QueueTypeOK
<1>2. /\ n \in Nat
      /\ \A i \in 1..n : s[i] \in Pcb /\ place[s[i]] = q
      /\ \A i, j \in 1..n : s[i] = s[j] => i = j
      /\ \A m \in Pcb : place[m] = q => \E i \in 1..n : s[i] = m
  BY LineParts
<1>3. \A i \in 1..n : p_next[s[i]] = s[After(i)]
  BY DEF InLine
<1>4. p_prev[p] = s[Before(k)] /\ Before(k) \in 1..n
  <2>1. Before(k) \in 1..n /\ After(Before(k)) = k
    BY <1>2
  <2> HIDE DEF After, Before
  <2>2. p_next[s[Before(k)]] = p
    BY <1>0, <1>3, <2>1
  <2>3. s[Before(k)] \in Members(q)
    BY <1>2, <2>1 DEF Members
  <2> QED BY <2>1, <2>2, <2>3 DEF QueueInv, RingInv
<1>5. PICK t \in Seq(Pcb) : t = RemoveAt(s, k)
  BY RemoveAtIs
<1>6. /\ Len(t) = n - 1
      /\ \A i \in 1..Len(t) : t[i] = IF i < k THEN s[i] ELSE s[i + 1]
      /\ IsInjective(t) /\ ToSet(t) = ToSet(s) \ {p}
  <2>1. IsInjective(s)
    BY DEF InLine
  <2>2. IsInjective(t) /\ ToSet(t) = ToSet(s) \ {s[k]}
    BY <1>5, <2>1, RemoveAtQueue
  <2>3. /\ Len(t) = n - 1
        /\ \A i \in 1..Len(t) : t[i] = IF i < k THEN s[i] ELSE s[i + 1]
    BY <1>5, RemoveAtIs
  <2> QED BY <1>0, <2>2, <2>3
<1>7. ASSUME NEW j \in 1..n, j # k
      PROVE  p_next'[s[j]] = IF j = Before(k) THEN s[After(k)] ELSE s[After(j)]
  <2>1. s[j] \in Pcb \ {p} /\ (s[j] = p_prev[p] <=> j = Before(k))
    BY <1>0, <1>2, <1>4, <1>7
  <2>2. p_next[s[j]] = s[After(j)] /\ p_next[p] = s[After(k)]
    BY <1>0, <1>3
  <2> HIDE DEF After, Before
  <2> QED BY <1>0, <2>1, <2>2
<1>8. ASSUME NEW i \in 1..Len(t)
      PROVE  p_next'[t[i]] = t[IF i = Len(t) THEN 1 ELSE i + 1]
  <2>1. CASE i < k
    <3>1. i \in 1..n /\ i # k /\ i # n /\ k # 1 /\ 1 \in 1..Len(t)
      BY <1>2, <1>6, <2>1
    <3>2. t[i] = s[i] /\ t[1] = s[1]
      BY <1>2, <1>6, <2>1, <3>1
    <3>3. CASE i = k - 1
      <4>1. p_next'[t[i]] = s[After(k)]
        BY <1>2, <1>7, <3>1, <3>2, <3>3
      <4>2. k # n => i # Len(t) /\ t[i + 1] = s[k + 1]
        <5>1. k # n => k \in 1..Len(t) /\ ~ (k < k) /\ i # Len(t) /\ i + 1 = k
          BY <1>2, <1>6, <3>1, <3>3
        <5> QED BY <1>6, <5>1
      <4> QED BY <1>2, <1>6, <3>1, <3>2, <3>3, <4>1, <4>2
    <3>4. CASE i # k - 1
      <4>1. p_next'[t[i]] = s[i + 1]
        <5>1. i # Before(k) /\ After(i) = i + 1
          BY <1>2, <3>1, <3>4
        <5>2. p_next'[s[i]] = s[After(i)]
          BY <1>7, <3>1, <5>1
        <5> QED BY <3>2, <5>1, <5>2
      <4>2. i + 1 < k /\ i + 1 \in 1..Len(t) /\ i # Len(t)
        BY <1>2, <1>6, <2>1, <3>4
      <4>3. t[i + 1] = s[i + 1]
        BY <1>6, <4>2
      <4> QED BY <4>1, <4>2, <4>3
    <3> QED BY <3>3, <3>4
  <2>2. CASE i >= k
    <3>1. t[i] = s[i + 1] /\ i + 1 \in 1..n /\ i + 1 # k /\ i + 1 # k - 1
      <4>1. i \in Nat /\ k \in Nat /\ ~ (i < k) /\ Len(t) = n - 1
        BY <1>2, <1>6, <2>2
      <4>2. t[i] = s[i + 1]
        BY <1>6, <4>1
      <4>3. i + 1 \in 1..n
        BY <1>2, <4>1
      <4> QED BY <4>1, <4>2, <4>3
    <3>2. CASE i = Len(t)
      <4>1. i + 1 = n
        BY <1>2, <1>6, <3>2
      <4>2. CASE k = 1
        <5>1. p_next'[t[i]] = s[2] /\ t[1] = s[2]
          BY <1>2, <1>6, <1>7, <2>2, <3>1, <4>1, <4>2
        <5> QED BY <3>2, <5>1
      <4>3. CASE k # 1
        <5>1. t[1] = s[1]
          <6>1. 1 \in 1..Len(t) /\ 1 < k
            BY <1>2, <1>6, <4>3
          <6> QED BY <1>6, <6>1
        <5>2. n # Before(k) /\ After(n) = 1 /\ n \in 1..n /\ n # k
          BY <1>2, <3>1, <4>1, <4>3
        <5>3. p_next'[s[n]] = s[1]
          BY <1>7, <5>2
        <5>4. p_next'[t[i]] = s[1]
          BY <3>1, <4>1, <5>3
        <5> QED BY <3>2, <5>1, <5>4
      <4> QED BY <4>2, <4>3
    <3>3. CASE i # Len(t)
      <4>1. i + 1 # n
        BY <1>2, <1>6, <3>3
      <4>2. p_next'[t[i]] = s[i + 1 + 1]
        BY <1>2, <1>7, <3>1, <4>1
      <4>3. i + 1 \in 1..Len(t) /\ ~ (i + 1 < k)
        BY <1>2, <1>6, <2>2, <3>3
      <4>4. t[i + 1] = s[i + 1 + 1]
        BY <1>6, <4>3
      <4> QED BY <3>3, <4>2, <4>4
    <3> QED BY <3>2, <3>3
  <2> QED BY <1>2, <1>6, <2>1, <2>2
<1>9. InLine(q, t)'
  <2>1. \A m \in Pcb : m \in ToSet(t) <=> place'[m] = q
    BY <1>0, <1>1, <1>6 DEF InLine
  <2>2. tp'[q] = IF t = <<>> THEN NULL ELSE t[Len(t)]
    <3>1. t = <<>> <=> n = 1
      BY <1>2, <1>6
    <3>2. n # 1 => t[Len(t)] = IF k = n THEN s[n - 1] ELSE s[n]
      BY <1>2, <1>6
    <3> QED BY <1>0, <3>1, <3>2
  <2> QED BY <1>6, <1>8, <2>1, <2>2 DEF InLine
<1>10. ASSUME NEW r \in Queue \ {q}, NEW u \in Seq(Pcb), InLine(r, u)
       PROVE  InLine(r, u)'
  <2>1. \A m \in Pcb : place'[m] = r <=> place[m] = r
    BY <1>0, <1>1, <1>2
  <2>2. \A m \in Pcb : place[m] = r => p_next'[m] = p_next[m]
    <3>1. place[p] = q /\ place[p_prev[p]] = q
      BY <1>0, <1>2, <1>4
    <3> QED BY <1>0, <3>1
  <2> QED BY <1>0, <1>10, <2>1, <2>2, LineKept
<1>11. Lines' /\ queue' = [queue EXCEPT ![q] = t]
  BY <1>1, <1>9, <1>10, LineStep
<1>12. queue[q] = s
  BY <1>1, ContentsAre DEF queue
<1> QED BY <1>5, <1>11, <1>12

LEMMA InsertIs ==
  ASSUME QueueInv, RingInv', NEW q \in Queue, NEW p \in Pcb, InsertProcQ(q, p)
  PROVE  Lines' /\ Queues!InsertProcQ(q, p)
<1>1. /\ QueueTypeOK /\ QueueTypeOK' /\ Lines /\ NULL \notin Queue
      /\ place \in [Pcb -> Queue \cup {NULL}]
      /\ tp \in [Queue -> Ptr] /\ p_next \in [Pcb -> Ptr]
  BY QueuePlaces DEF QueueInv, RingInv, QueueTypeOK
<1>2. /\ place[p] = NULL /\ queueRet' = NULL
      /\ place' = [place EXCEPT ![p] = q] /\ tp' = [tp EXCEPT ![q] = p]
  BY DEF InsertProcQ
<1>3. PICK s \in Seq(Pcb) : s = queue[q] /\ InLine(q, s) /\ (tp[q] = NULL <=> s = <<>>)
  BY QueueIs
<1> DEFINE n == Len(s)
<1>4. /\ n \in Nat /\ (s = <<>> <=> n = 0)
      /\ \A i \in 1..n : s[i] \in Pcb /\ place[s[i]] = q /\ s[i] # p
      /\ \A i, j \in 1..n : s[i] = s[j] => i = j
  BY <1>1, <1>2, <1>3, LineParts
<1>5. PICK t \in Seq(Pcb) : t = Append(s, p)
  BY AppendQueue
<1>6. /\ Len(t) = n + 1 /\ t # <<>>
      /\ \A i \in 1..n + 1 : t[i] = IF i = n + 1 THEN p ELSE s[i]
  BY <1>5
<1>7. IsInjective(t) /\ ToSet(t) = ToSet(s) \cup {p}
  <2>1. p \notin ToSet(s)
    BY <1>1, <1>2, <1>3 DEF InLine
  <2> QED BY <1>3, <1>5, <2>1, AppendQueue DEF InLine
<1>8. /\ n = 0 => p_next' = [p_next EXCEPT ![p] = p]
      /\ n # 0 => p_next' = [p_next EXCEPT ![p] = s[1], ![s[n]] = p]
  <2>1. CASE n = 0
    BY <1>3, <1>4, <2>1 DEF InsertProcQ
  <2>2. CASE n # 0
    <3>1. tp[q] = s[n] /\ n \in 1..n /\ tp[q] # NULL
      BY <1>3, <1>4, <2>2 DEF InLine
    <3>2. p_next[s[n]] = s[1]
      BY <1>3, <3>1 DEF InLine
    <3> QED BY <2>2, <3>1, <3>2 DEF InsertProcQ
  <2> QED BY <2>1, <2>2
<1>9. ASSUME NEW i \in 1..n + 1
      PROVE  p_next'[t[i]] = t[IF i = n + 1 THEN 1 ELSE i + 1]
  <2>1. CASE i = n + 1
    <3>1. t[i] = p
      BY <1>6, <2>1
    <3>2. CASE n = 0
      BY <1>1, <1>6, <1>8, <2>1, <3>1, <3>2
    <3>3. CASE n # 0
      <4>1. t[1] = s[1] /\ s[n] # p
        BY <1>4, <1>6, <3>3
      <4> QED BY <1>1, <1>8, <2>1, <3>1, <3>3, <4>1
    <3> QED BY <3>2, <3>3
  <2>2. CASE i = n /\ n # 0
    <3>1. t[i] = s[n] /\ s[n] \in Pcb /\ t[i + 1] = p /\ i # n + 1
      BY <1>4, <1>6, <2>2
    <3> QED BY <1>1, <1>8, <2>2, <3>1
  <2>3. CASE i \notin {n, n + 1}
    <3>1. /\ i \in 1..n /\ n \in 1..n /\ n # 0 /\ t[i] = s[i] /\ t[i + 1] = s[i + 1]
          /\ i # n + 1
      BY <1>4, <1>6, <2>3
    <3>2. s[i] \in Pcb /\ s[i] # p /\ s[i] # s[n]
      BY <1>4, <2>3, <3>1
    <3>3. p_next'[s[i]] = p_next[s[i]]
      BY <1>1, <1>8, <3>1, <3>2
    <3>4. p_next[s[i]] = s[i + 1]
      BY <1>3, <2>3, <3>1 DEF InLine
    <3> QED BY <3>1, <3>3, <3>4
  <2> QED BY <1>4, <2>1, <2>2, <2>3
<1>10. InLine(q, t)'
  <2>1. \A m \in Pcb : m \in ToSet(t) <=> place'[m] = q
    BY <1>1, <1>2, <1>3, <1>7 DEF InLine
  <2>2. tp'[q] = t[Len(t)]
    BY <1>1, <1>2, <1>4, <1>6
  <2> QED BY <1>6, <1>7, <1>9, <2>1, <2>2 DEF InLine
<1>11. ASSUME NEW r \in Queue \ {q}, NEW u \in Seq(Pcb), InLine(r, u)
       PROVE  InLine(r, u)'
  <2>1. \A m \in Pcb : place'[m] = r <=> place[m] = r
    BY <1>1, <1>2
  <2>2. \A m \in Pcb : place[m] = r => p_next'[m] = p_next[m]
    <3>1. ASSUME NEW m \in Pcb, place[m] = r
          PROVE  m # p /\ (n # 0 => m # s[n])
      BY <1>1, <1>2, <1>4, <3>1
    <3> QED BY <1>1, <1>8, <3>1
  <2>3. tp'[r] = tp[r]
    BY <1>1, <1>2
  <2> QED BY <1>11, <2>1, <2>2, <2>3, LineKept
<1>12. Lines' /\ queue' = [queue EXCEPT ![q] = t]
  BY <1>1, <1>10, <1>11, LineStep
<1>13. \A r \in Queue : p \notin ToSet(queue[r])
  <2>1. ASSUME NEW r \in Queue PROVE p \notin ToSet(queue[r])
    BY <1>1, <1>2, QueueIs DEF InLine
  <2> QED BY <2>1
<1> QED BY <1>2, <1>3, <1>5, <1>12, <1>13
        DEF Queues!InsertProcQ, Queues!ToSet, ToSet

\* The head of a queue leaves it, whatever becomes of its own links.
LEMMA HeadLeavesIs ==
  ASSUME QueueInv, RingInv', NEW q \in Queue, tp[q] # NULL,
         \A m \in Pcb \ {HeadOf(q)} : p_next'[m] = NextWithoutHead(q)[m],
         tp' = [tp EXCEPT ![q] = TailWithoutHead(q)],
         place' = [place EXCEPT ![HeadOf(q)] = NULL],
         queueRet' = HeadOf(q)
  PROVE  Lines' /\ Queues!RemoveProcQ(q)
<1>1. PICK s \in Seq(Pcb) :
        s = queue[q] /\ InLine(q, s) /\ s # <<>> /\ Head(s) = HeadOf(q)
  BY QueueIs
<1> DEFINE n == Len(s)
<1>2. /\ n \in Nat /\ n # 0 /\ 1 \in 1..n /\ n \in 1..n /\ s[1] = HeadOf(q)
      /\ \A i \in 1..n : s[i] \in Pcb /\ place[s[i]] = q
      /\ \A i, j \in 1..n : s[i] = s[j] => i = j
  BY <1>1, LineParts
<1>3. tp[q] = s[n] /\ p_next[s[n]] = s[1]
  BY <1>1, <1>2 DEF InLine
<1>4. p_prev[s[1]] = s[n]
  <2>1. s[n] \in Members(q)
    BY <1>2 DEF Members
  <2> QED BY <1>3, <2>1 DEF QueueInv, RingInv
<1>5. /\ tp \in [Queue -> Ptr] /\ p_next \in [Pcb -> Ptr]
  BY DEF QueueInv, RingInv, QueueTypeOK
<1>6. TailWithoutHead(q) = IF n = 1 THEN NULL ELSE s[n]
  BY <1>2, <1>3 DEF TailWithoutHead
<1>7. \A m \in Pcb \ {s[1]} :
        p_next'[m] = IF m = p_prev[s[1]] THEN p_next[s[1]] ELSE p_next[m]
  <2>1. CASE n = 1
    <3>1. NextWithoutHead(q) = p_next
      BY <1>2, <1>3, <2>1 DEF NextWithoutHead
    <3> QED BY <1>2, <1>4, <2>1, <3>1
  <2>2. CASE n # 1
    <3>1. NextWithoutHead(q) = [p_next EXCEPT ![s[n]] = p_next[s[1]]]
      BY <1>2, <1>3, <2>2 DEF NextWithoutHead
    <3>2. ASSUME NEW m \in Pcb \ {s[1]}
          PROVE  p_next'[m] = IF m = s[n] THEN p_next[s[1]] ELSE p_next[m]
      BY <1>2, <1>5, <3>1
    <3> QED BY <1>4, <3>2
  <2> QED BY <2>1, <2>2
<1>8. /\ \A r \in Queue \ {q} : tp'[r] = tp[r]
      /\ tp'[q] = IF n = 1 THEN NULL ELSE IF 1 = n THEN s[n - 1] ELSE s[n]
  <2>1. ASSUME NEW r \in Queue \ {q} PROVE tp'[r] = tp[r]
    BY <1>5
  <2>2. tp'[q] = TailWithoutHead(q)
    BY <1>5
  <2> QED BY <1>6, <2>1, <2>2
<1>9. PICK p \in Pcb, k \in 1..Len(s) : k = 1 /\ p = s[k]
  BY <1>2
<1>10. Lines' /\ queue' = [queue EXCEPT ![q] = RemoveAt(@, k)]
  <2>1. \A m \in Pcb \ {p} :
          p_next'[m] = IF m = p_prev[p] THEN p_next[p] ELSE p_next[m]
    BY <1>7, <1>9
  <2>2. tp'[q] = IF Len(s) = 1 THEN NULL
                 ELSE IF k = Len(s) THEN s[Len(s) - 1] ELSE s[Len(s)]
    BY <1>8, <1>9
  <2>3. \A r \in Queue \ {q} : tp'[r] = tp[r]
    BY <1>8
  <2>4. place' = [place EXCEPT ![p] = NULL] /\ p = s[k] /\ InLine(q, s)
    BY <1>1, <1>2, <1>9
  <2>5. Leaves(q, s, k, p)
    BY <2>1, <2>2, <2>3, <2>4 DEF Leaves
  <2> QED BY <2>4, <2>5, LeaveIs
<1>11. RemoveAt(s, k) = Tail(s)
  <2>1. /\ RemoveAt(s, k) \in Seq(Pcb) /\ Len(RemoveAt(s, k)) = n - 1
        /\ \A i \in 1..Len(RemoveAt(s, k)) :
             RemoveAt(s, k)[i] = IF i < k THEN s[i] ELSE s[i + 1]
    BY RemoveAtIs
  <2>2. /\ Tail(s) \in Seq(Pcb) /\ Len(Tail(s)) = n - 1
        /\ \A i \in 1..n - 1 : Tail(s)[i] = s[i + 1]
    BY <1>1
  <2>3. PICK t \in Seq(Pcb) : t = RemoveAt(s, k)
    BY <2>1
  <2>4. Len(t) = n - 1 /\ \A i \in 1..Len(t) : t[i] = s[i + 1]
    BY <1>2, <1>9, <2>1, <2>3
  <2>5. t = Tail(s)
    BY <2>2, <2>4, SeqEqual
  <2> QED BY <2>3, <2>5
<1> QED BY <1>1, <1>10, <1>11 DEF Queues!RemoveProcQ

LEMMA RemoveIs ==
  ASSUME QueueInv, RingInv', NEW q \in Queue, RemoveProcQ(q)
  PROVE  Lines' /\ Queues!RemoveProcQ(q)
<1>1. CASE tp[q] = NULL
  <2>1. queueRet' = NULL /\ UNCHANGED <<queueLinks, place>> /\ queue[q] = <<>>
    BY <1>1, QueueIs DEF RemoveProcQ
  <2> QED BY <2>1, LinksKept DEF Queues!RemoveProcQ, QueueInv
<1>2. CASE tp[q] # NULL
  <2>1. \A m \in Pcb \ {HeadOf(q)} : p_next'[m] = NextWithoutHead(q)[m]
    BY <1>2 DEF RemoveProcQ
  <2> QED BY <1>2, <2>1, HeadLeavesIs DEF RemoveProcQ
<1> QED BY <1>1, <1>2

LEMMA AllocIs ==
  ASSUME QueueInv, RingInv', AllocPcb
  PROVE  Lines' /\ Queues!RemoveProcQ(pcbFree)
<1>1. pcbFree \in Queue
  BY QueuePlaces
<1>2. CASE tp[pcbFree] = NULL
  BY <1>1, <1>2, RemoveIs DEF AllocPcb
<1>3. CASE tp[pcbFree] # NULL
  <2>1. NextWithoutHead(pcbFree) \in [Pcb -> Ptr]
    BY <1>1, <1>3, HeadTypes DEF QueueInv
  <2>2. p_next' = [NextWithoutHead(pcbFree) EXCEPT ![HeadOf(pcbFree)] = NULL]
    BY <1>3 DEF AllocPcb
  <2>3. \A m \in Pcb \ {HeadOf(pcbFree)} : p_next'[m] = NextWithoutHead(pcbFree)[m]
    BY <2>1, <2>2
  <2> QED BY <1>1, <1>3, <2>3, HeadLeavesIs DEF AllocPcb
<1> QED BY <1>2, <1>3

LEMMA HeadIs ==
  ASSUME QueueInv, NEW q \in Queue, HeadProcQ(q)
  PROVE  Lines' /\ Queues!HeadProcQ(q)
<1>1. UNCHANGED <<queueLinks, place>> /\ queueRet' = IF tp[q] = NULL THEN NULL ELSE HeadOf(q)
  BY DEF HeadProcQ
<1>2. Lines' /\ queue' = queue
  BY <1>1, LinksKept DEF QueueInv
<1> QED BY <1>1, <1>2, QueueIs DEF Queues!HeadProcQ

\* From the head on, outProcQ comes by every PCB of the queue.
LEMMA AllVisited ==
  ASSUME NEW q \in Queue, NEW s \in Seq(Pcb), InLine(q, s), NEW k \in 1..Len(s)
  PROVE  s[k] \in Visited(q)
<1> DEFINE n == Len(s)
<1>1. /\ n \in Nat /\ n \in 1..n /\ 1 \in 1..n /\ k \in Nat
      /\ \A i \in 1..n : s[i] \in Pcb
      /\ \A i, j \in 1..n : s[i] = s[j] => i = j
  BY LineParts
<1>2. tp[q] = s[n] /\ p_next[tp[q]] = s[1]
  BY <1>1 DEF InLine
<1>3. ASSUME NEW S \in SUBSET Pcb, p_next[tp[q]] \in S,
             \A m \in S : m # tp[q] => p_next[m] \in S
      PROVE  s[k] \in S
  <2> DEFINE T == {i \in Nat : i \in 1..n /\ s[i] \notin S}
  <2>1. SUFFICES ASSUME T # {} PROVE FALSE
    <3>1. k \notin T => s[k] \in S
      BY <1>1
    <3> QED BY <3>1
  <2>2. PICK i \in T : \A j \in T : i <= j
    <3>1. T \in SUBSET Nat
      OBVIOUS
    <3> HIDE DEF T
    <3> QED BY <2>1, <3>1, LeastElement
  <2>3. i \in 1..n /\ s[i] \notin S /\ i # 1
    BY <1>2, <1>3
  <2>4. i - 1 \in 1..n /\ i - 1 # n /\ i - 1 \notin T
    <3>1. i - 1 \in 1..n /\ i - 1 # n /\ ~ (i <= i - 1)
      BY <1>1, <2>3
    <3> HIDE DEF T
    <3> QED BY <2>2, <3>1
  <2>5. s[i - 1] \in S /\ s[i - 1] # tp[q]
    BY <1>1, <1>2, <2>4
  <2>6. p_next[s[i - 1]] = s[i - 1 + 1]
    BY <2>4 DEF InLine
  <2>7. s[i - 1 + 1] = s[i]
    BY <2>3
  <2> QED BY <1>3, <2>3, <2>5, <2>6, <2>7
<1> QED BY <1>1, <1>3 DEF Visited

\* outProcQ takes out what it is asked for, and answers it unless it is the
\* tail of a longer queue.
LEMMA OutIs ==
  ASSUME QueueInv, RingInv', NEW q \in Queue, NEW p \in Pcb, OutProcQ(q, p)
  PROVE  Lines' /\ (Queues!OutProcQ(q, p) \/ NewTailAnswered(q, p))
<1>1. PICK s \in Seq(Pcb) :
        s = queue[q] /\ InLine(q, s) /\ (tp[q] = NULL <=> s = <<>>)
  BY QueueIs
<1> DEFINE n == Len(s)
<1>2. /\ n \in Nat
      /\ \A i \in 1..n : s[i] \in Pcb /\ place[s[i]] = q /\ s[i] \in ToSet(s)
      /\ \A i, j \in 1..n : s[i] = s[j] => i = j
      /\ p \in ToSet(s) <=> place[p] = q
      /\ place[p] = q <=> \E i \in 1..n : s[i] = p
      /\ s # <<>> => tp[q] = s[n] /\ n \in 1..n
  <2>1. /\ n \in Nat
        /\ \A i \in 1..n : s[i] \in Pcb /\ place[s[i]] = q
        /\ \A i, j \in 1..n : s[i] = s[j] => i = j
        /\ place[p] = q => \E i \in 1..n : s[i] = p
    BY <1>1, LineParts
  <2>2. p \in ToSet(s) <=> place[p] = q
    BY <1>1 DEF InLine
  <2>3. \A i \in 1..n : s[i] \in ToSet(s)
    BY ToSetDef
  <2>4. s # <<>> => tp[q] = s[n] /\ n \in 1..n
    BY <1>1 DEF InLine
  <2> QED BY <2>1, <2>2, <2>3, <2>4
<1>3. CASE place[p] # q
  <2>1. OutMissing(q, p)
    <3>1. tp[q] # p
      BY <1>1, <1>2, <1>3, QueuePlaces
    <3>2. tp[q] # NULL => p \notin Visited(q)
      BY <1>3, VisitedInQueue DEF QueueInv
    <3> QED BY <3>1, <3>2 DEF OutProcQ, OutLast, OutTail, OutInner
  <2>2. queueRet' = NULL /\ UNCHANGED <<queueLinks, place>>
    BY <2>1 DEF OutMissing
  <2>3. p \notin ToSet(queue[q])
    BY <1>1, <1>2, <1>3
  <2>4. Lines' /\ queue' = queue
    BY <2>2, LinksKept DEF QueueInv
  <2> QED BY <2>2, <2>3, <2>4 DEF Queues!OutProcQ, Queues!ToSet, ToSet
<1>4. CASE place[p] = q
  <2>1. PICK k \in 1..n : s[k] = p
    BY <1>2, <1>4
  <2>2. p \in Visited(q)
    BY <1>1, <2>1, AllVisited
  <2>3. tp[q] = s[n] /\ n \in 1..n /\ tp[q] # NULL
    BY <1>1, <1>2, <2>1
  <2>4. place' = [place EXCEPT ![p] = NULL] /\ (OutLast(q, p) \/ OutTail(q, p) \/ OutInner(q, p))
    BY <2>2, <2>3 DEF OutProcQ, OutMissing
  <2>5. /\ p_next[p] \in Pcb /\ p_prev[p] \in Pcb
        /\ place[p_prev[p]] = q /\ p_next[p_prev[p]] = p
        /\ QueueTypeOK /\ tp \in [Queue -> Ptr]
    BY <1>4 DEF QueueInv, RingInv, Members, QueueTypeOK
  <2>6. p_next[p] = s[IF k = n THEN 1 ELSE k + 1]
    BY <1>1, <2>1 DEF InLine
  <2>7. n # 1 => p_next[p] # p
    <3>1. CASE k = n
      <4>1. n # 1 => 1 \in 1..n /\ 1 # k
        BY <2>3, <3>1
      <4> QED BY <1>2, <2>1, <2>6, <3>1, <4>1
    <3>2. CASE k # n
      <4>1. k + 1 \in 1..n /\ k + 1 # k
        BY <1>2, <3>2
      <4> QED BY <1>2, <2>1, <2>6, <3>2, <4>1
    <3> QED BY <3>1, <3>2
  <2>8. k = n /\ n # 1 => p_prev[p] = s[n - 1]
    <3> SUFFICES ASSUME k = n, n # 1 PROVE p_prev[p] = s[n - 1]
      OBVIOUS
    <3>1. n - 1 \in 1..n /\ n - 1 # n
      BY <1>2
    <3>2. p_next[s[n - 1]] = p
      BY <1>1, <1>2, <2>1, <3>1 DEF InLine
    <3>3. s[n - 1] \in Members(q)
      BY <1>2, <3>1 DEF Members
    <3> QED BY <3>2, <3>3 DEF QueueInv, RingInv
  <2>9. /\ Leaves(q, s, k, p)
        /\ queueRet' = p \/ (n > 1 /\ k = n /\ queueRet' = s[n - 1])
    <3>1. CASE OutLast(q, p)
      <4>1. n = 1 /\ k = n
        BY <1>2, <2>1, <2>3, <2>7, <3>1 DEF OutLast
      <4>2. p_next' = p_next /\ tp' = [tp EXCEPT ![q] = NULL] /\ queueRet' = p /\ p_prev[p] = p
        BY <3>1 DEF OutLast
      <4> QED BY <2>1, <2>4, <2>5, <4>1, <4>2 DEF Leaves
    <3>2. CASE OutTail(q, p)
      <4>1. n # 1 /\ k = n
        <5>1. k = n
          BY <1>2, <2>1, <2>3, <3>2 DEF OutTail
        <5>2. \A m \in Pcb : place[m] = q => \E i \in 1..n : s[i] = m
          BY <1>1, LineParts
        <5>3. n = 1 => \A m \in Pcb : place[m] = q => m = s[1]
          BY <5>2
        <5>4. n = 1 => p_next[p] = s[1] /\ p = s[1]
          BY <2>1, <2>6
        <5>5. n = 1 => p_next[p] = p /\ p_prev[p] = p
          BY <2>5, <5>3, <5>4
        <5> QED BY <3>2, <5>1, <5>5 DEF OutTail
      <4>2. Unlink(p) /\ tp' = [tp EXCEPT ![q] = p_prev[p]] /\ queueRet' = p_prev[p]
        BY <3>2 DEF OutTail
      <4>3. \A m \in Pcb \ {p} :
              p_next'[m] = IF m = p_prev[p] THEN p_next[p] ELSE p_next[m]
        BY <2>5, <4>2, UnlinkLinks
      <4>4. p_prev[p] = s[n - 1] /\ queueRet' = s[n - 1] /\ n > 1
        BY <1>2, <2>3, <2>8, <4>1, <4>2
      <4> QED BY <2>1, <2>4, <2>5, <4>1, <4>2, <4>3, <4>4 DEF Leaves
    <3>3. CASE OutInner(q, p)
      <4>1. n # 1 /\ k # n
        BY <2>1, <2>3, <3>3 DEF OutInner
      <4>2. Unlink(p) /\ tp' = tp /\ queueRet' = p
        BY <3>3 DEF OutInner
      <4>3. \A m \in Pcb \ {p} :
              p_next'[m] = IF m = p_prev[p] THEN p_next[p] ELSE p_next[m]
        BY <2>5, <4>2, UnlinkLinks
      <4> QED BY <2>1, <2>3, <2>4, <4>1, <4>2, <4>3 DEF Leaves
    <3> QED BY <2>4, <3>1, <3>2, <3>3
  <2>10. Lines' /\ queue' = [queue EXCEPT ![q] = RemoveAt(@, k)]
    BY <1>1, <2>9, LeaveIs
  <2>11. k \in DOMAIN queue[q] /\ queue[q][k] = p
    BY <1>1, <1>2, <2>1
  <2>12. CASE queueRet' = p
    BY <2>10, <2>11, <2>12 DEF Queues!OutProcQ, Queues!RemoveAt, RemoveAt
  <2>13. CASE n > 1 /\ k = n /\ queueRet' = s[n - 1]
    <3>1. RemoveAt(s, n) = Front(s) /\ Last(Front(s)) = s[n - 1] /\ Last(s) = s[n]
      BY <2>13, RemoveLast DEF Last
    <3>2. queue' = [queue EXCEPT ![q] = Front(@)]
      BY <1>1, <2>10, <2>13, <3>1
    <3> QED BY <1>1, <2>1, <2>10, <2>13, <3>1, <3>2 DEF NewTailAnswered
  <2> QED BY <2>9, <2>12, <2>13
<1> QED BY <1>3, <1>4

\* The lines initPCBs leaves.
LEMMA InitIs ==
  ASSUME QueueInit, RingInv
  PROVE  Lines /\ Queues!Init
<1>1. PICK N \in Nat : N = MAXPROC /\ N # 0
  BY SizeAssumption
<1>2. PICK u \in Seq(Pcb) : u = [i \in Pcb |-> i]
  <2>1. [i \in 1..N |-> i] \in Seq(1..N)
    OBVIOUS
  <2> QED BY <1>1, <2>1 DEF Pcb
<1>3. Len(u) = N /\ u # <<>> /\ \A i \in 1..N : u[i] = i
  BY <1>1, <1>2 DEF Pcb
<1>4. IsInjective(u) /\ ToSet(u) = Pcb
  <2>1. IsInjective(u)
    BY <1>3, ToSetDef
  <2>2. \A x : x \in ToSet(u) <=> \E i \in 1..N : u[i] = x
    BY <1>3, ToSetDef
  <2>3. \A x : x \in ToSet(u) <=> x \in 1..N
    BY <1>3, <2>2
  <2> QED BY <1>1, <2>1, <2>3 DEF Pcb
<1>5. /\ \A q \in Queue : tp[q] = IF q = pcbFree THEN MAXPROC ELSE NULL
      /\ \A p \in Pcb : p_next[p] = IF p = MAXPROC THEN 1 ELSE p + 1
      /\ \A p \in Pcb : place[p] = pcbFree
      /\ queueRet = NULL /\ pcbFree \in Queue
  BY QueuePlaces DEF QueueInit
<1>6. InLine(pcbFree, u)
  <2>1. ASSUME NEW i \in 1..Len(u)
        PROVE  p_next[u[i]] = u[IF i = Len(u) THEN 1 ELSE i + 1]
    BY <1>1, <1>3, <1>5 DEF Pcb
  <2>2. tp[pcbFree] = u[Len(u)]
    BY <1>1, <1>3, <1>5
  <2> QED BY <1>3, <1>4, <1>5, <2>1, <2>2 DEF InLine
<1>7. PICK e \in Seq(Pcb) : e = <<>>
  BY EmptySeq
<1>8. ASSUME NEW q \in Queue, q # pcbFree PROVE InLine(q, e)
  <2>1. Len(e) = 0 /\ ToSet(e) = {}
    BY <1>7, ToSetDef
  <2>2. IsInjective(e)
    BY <1>7 DEF IsInjective
  <2> QED BY <1>5, <1>7, <1>8, <2>1, <2>2 DEF InLine
<1>9. Lines
  BY <1>6, <1>8 DEF Lines
<1>10. QueueTypeOK
  BY DEF RingInv
<1>11. ASSUME NEW q \in Queue
       PROVE  Contents(q) = IF q = pcbFree THEN u ELSE e
  BY <1>6, <1>8, <1>10, ContentsAre
<1>12. queue = [q \in Queue |-> IF q = pcbFree THEN u ELSE e]
  BY <1>11 DEF queue
<1> QED BY <1>2, <1>5, <1>7, <1>9, <1>12 DEF Queues!Init, Queues!Pcb, Pcb

\* The rings are the queues that the operations promise: first in, first out,
\* and out comes what is asked for, whatever the number of PCBs and queues;
\* only the answer of outProcQ (pcb.c, 203 to 239) is another when it takes a
\* tail off a longer queue.
THEOREM QueuesImplemented == QueueSpec => ImplementsQueues
<1>1. QueueInit /\ RingInv => QueueInv /\ Queues!Init
  BY InitIs DEF QueueInv
<1> DEFINE Promised ==
      Queues!Next \/ \E q \in Queue, p \in Pcb : NewTailAnswered(q, p)
<1>2. QueueInv /\ RingInv' /\ [QueueNext]_queueVars => Lines' /\ [Promised]_<<queue, queueRet>>
  <2> SUFFICES ASSUME QueueInv, RingInv', [QueueNext]_queueVars
               PROVE  Lines' /\ [Promised]_<<queue, queueRet>>
    OBVIOUS
  <2>1. CASE AllocPcb
    BY <2>1, AllocIs, QueuePlaces DEF Queues!Next
  <2>2. ASSUME NEW p \in Pcb, FreePcb(p) PROVE Lines' /\ Queues!Next
    <3>1. Lines' /\ Queues!InsertProcQ(pcbFree, p)
      BY <2>2, InsertIs, QueuePlaces DEF FreePcb
    <3> QED BY <3>1, QueuePlaces DEF Queues!Next, Queues!Pcb, Pcb
  <2>3. ASSUME NEW q \in Queue, RemoveProcQ(q) PROVE Lines' /\ Queues!Next
    BY <2>3, RemoveIs DEF Queues!Next
  <2>4. ASSUME NEW q \in Queue, HeadProcQ(q) PROVE Lines' /\ Queues!Next
    BY <2>4, HeadIs DEF Queues!Next
  <2>5. ASSUME NEW q \in Queue, NEW p \in Pcb, InsertProcQ(q, p)
        PROVE  Lines' /\ Queues!Next
    <3>1. Lines' /\ Queues!InsertProcQ(q, p)
      BY <2>5, InsertIs
    <3> QED BY <3>1 DEF Queues!Next, Queues!Pcb, Pcb
  <2>6. ASSUME NEW q \in Queue, NEW p \in Pcb, OutProcQ(q, p)
        PROVE  Lines' /\ Promised
    <3>1. Lines' /\ (Queues!OutProcQ(q, p) \/ NewTailAnswered(q, p))
      BY <2>6, OutIs
    <3> QED BY <3>1 DEF Queues!Next, Queues!Pcb, Pcb
  <2>7. CASE UNCHANGED queueVars
    <3>1. UNCHANGED <<queueLinks, place>> /\ queueRet' = queueRet
      BY <2>7 DEF queueVars, queueLinks
    <3> QED BY <3>1, LinksKept DEF QueueInv
  <2> QED BY <2>1, <2>2, <2>3, <2>4, <2>5, <2>6, <2>7 DEF QueueNext
<1>3. QueueInv <=> RingInv /\ Lines
  BY DEF QueueInv
<1> QED BY <1>1, <1>2, <1>3, RingSound, PTL DEF QueueSpec, ImplementsQueues
================================================================================
