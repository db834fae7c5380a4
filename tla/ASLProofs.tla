----------------------------- MODULE ASLProofs -----------------------------
(***************************************************************************)
(* The active semaphore list, for any number of descriptors, semaphores    *)
(* and processes.                                                          *)
(***************************************************************************)
EXTENDS ASL, QueueLemmas

-----------------------------------------------------------------------------
(***************************************************************************)
(* Lists.                                                                  *)
(***************************************************************************)
LEMMA AlongClosed ==
  ASSUME NEW h \in SemdPtr, NEW next
  PROVE  /\ Along(h, next) \subseteq Semd
         /\ h # NULL => h \in Along(h, next)
         /\ \A n \in Along(h, next) :
              next[n] \in SemdPtr /\ next[n] # NULL => next[n] \in Along(h, next)
BY DEF Along, SemdPtr

LEMMA AlongLeast ==
  ASSUME NEW h, NEW next, NEW S \in SUBSET Semd, h # NULL => h \in S,
         \A n \in S : next[n] # NULL => next[n] \in S
  PROVE  Along(h, next) \subseteq S
BY DEF Along

\* A list does not depend on the pointers of the descriptors that are not on it.
LEMMA AlongSame ==
  ASSUME NEW h \in SemdPtr, NEW next \in [Semd -> SemdPtr], NEW new,
         \A n \in Along(h, next) : new[n] = next[n]
  PROVE  Along(h, new) = Along(h, next)
<1>1. /\ Along(h, next) \subseteq Semd /\ (h # NULL => h \in Along(h, next))
      /\ \A n \in Along(h, next) : next[n] # NULL => next[n] \in Along(h, next)
  BY AlongClosed
<1>2. Along(h, new) \subseteq Along(h, next)
  BY <1>1, AlongLeast
<1>3. /\ Along(h, new) \subseteq Semd /\ (h # NULL => h \in Along(h, new))
      /\ \A n \in Along(h, new) : new[n] # NULL => new[n] \in Along(h, new)
  <2>1. \A n \in Along(h, new) : new[n] \in SemdPtr
    BY <1>1, <1>2
  <2> QED BY <2>1, AlongClosed
<1>4. Along(h, next) \subseteq Along(h, new)
  BY <1>2, <1>3, AlongLeast
<1> QED BY <1>2, <1>4

LEMMA AlongFirst ==
  ASSUME NEW h \in Semd, NEW next \in [Semd -> SemdPtr], NULL \notin Semd
  PROVE  Along(h, next) = {h} \cup Along(next[h], next)
<1>1. h \in SemdPtr /\ h # NULL /\ next[h] \in SemdPtr
  BY DEF SemdPtr
<1>2. /\ Along(h, next) \subseteq Semd /\ h \in Along(h, next)
      /\ \A n \in Along(h, next) : next[n] # NULL => next[n] \in Along(h, next)
  BY <1>1, AlongClosed
<1>3. /\ Along(next[h], next) \subseteq Semd
      /\ next[h] # NULL => next[h] \in Along(next[h], next)
      /\ \A n \in Along(next[h], next) : next[n] # NULL => next[n] \in Along(next[h], next)
  BY <1>1, AlongClosed
<1>4. Along(h, next) \subseteq {h} \cup Along(next[h], next)
  <2> DEFINE S == {h} \cup Along(next[h], next)
  <2>1. S \in SUBSET Semd /\ h \in S /\ \A n \in S : next[n] # NULL => next[n] \in S
    BY <1>3
  <2> HIDE DEF S
  <2>2. Along(h, next) \subseteq S
    BY <2>1, AlongLeast
  <2> QED BY <2>2 DEF S
<1>5. Along(next[h], next) \subseteq Along(h, next)
  BY <1>2, AlongLeast
<1> QED BY <1>2, <1>4, <1>5
-----------------------------------------------------------------------------
(***************************************************************************)
(* The inductive invariant.  The active list is the descriptors in use and *)
(* the sentinels, each pointing to the one with the next higher address;   *)
(* the free list is the others, and comes to an end.                       *)
(***************************************************************************)
Used == {d \in Semd : s_procQ[d] # <<>>}
Active == {semd_h, LastSemd} \cup Used
Spare == Semd \ Active

Follows(d, e) ==
  /\ e \in Active /\ s_semAdd[d] < s_semAdd[e]
  /\ \A x \in Active : s_semAdd[x] <= s_semAdd[d] \/ s_semAdd[x] >= s_semAdd[e]

SortedInv ==
  /\ s_procQ[semd_h] = <<>> /\ s_semAdd[semd_h] = 0
  /\ s_procQ[LastSemd] = <<>> /\ s_semAdd[LastSemd] = MAXINT
  /\ s_next[LastSemd] = NULL
  /\ \A d \in Used : s_semAdd[d] \in SemAdd
  /\ \A d, e \in Active : s_semAdd[d] = s_semAdd[e] => d = e
  /\ \A d \in Active \ {LastSemd} : Follows(d, s_next[d])
WaitInv ==
  \A d \in Semd :
    /\ IsInjective(s_procQ[d])
    /\ \A p \in ToSet(s_procQ[d]) : p_semAdd[p] = s_semAdd[d]
FreeInv ==
  /\ FreeList = Spare
  /\ \A d \in Spare : d \notin Along(s_next[d], s_next)
ListInv == ASLTypeOK /\ SortedInv /\ WaitInv /\ FreeInv

\* The facts about constants that the steps need.
LEMMA SemdFacts ==
  /\ Semd \subseteq Nat /\ semd_h \in Semd /\ LastSemd \in Semd /\ semd_h # LastSemd
  /\ NULL \notin Semd /\ MAXINT \in Nat /\ MAXINT > 0 /\ NullAdd \notin SemAdd
  /\ NullAdd \in Nat /\ NullAdd > MAXINT /\ NullAdd > 0
  /\ \A a \in SemAdd : a \in Nat /\ 0 < a /\ a < MAXINT
BY SemdAssumption, AddressAssumption DEF Semd, semd_h, LastSemd, NullAdd

LEMMA AddType ==
  ASSUME ASLTypeOK
  PROVE  \A d \in Semd : s_semAdd[d] \in Nat /\ s_semAdd[d] <= MAXINT
                         /\ MAXINT - s_semAdd[d] \in Nat
<1>1. \A d \in Semd : s_semAdd[d] \in 0..MAXINT
  BY DEF ASLTypeOK
<1> QED BY <1>1, SemdFacts

\* Of some descriptors, one has the highest address.
LEMMA Greatest ==
  ASSUME ASLTypeOK, NEW S \in SUBSET Semd, S # {}
  PROVE  \E d \in S : \A e \in S : s_semAdd[e] <= s_semAdd[d]
<1> DEFINE T == {MAXINT - s_semAdd[d] : d \in S}
<1>1. T \in SUBSET Nat /\ T # {}
  BY AddType
<1>2. PICK m \in T : \A k \in T : m <= k
  <2> HIDE DEF T
  <2> QED BY <1>1, LeastElement
<1>3. PICK d \in S : m = MAXINT - s_semAdd[d]
  BY <1>2
<1>4. ASSUME NEW e \in S PROVE s_semAdd[e] <= s_semAdd[d]
  <2>1. MAXINT - s_semAdd[e] \in T
    OBVIOUS
  <2>2. m <= MAXINT - s_semAdd[e]
    BY <1>2, <2>1
  <2>3. s_semAdd[d] \in Nat /\ s_semAdd[e] \in Nat
    BY AddType
  <2>4. MAXINT \in Nat
    BY SemdFacts
  <2> QED BY <1>3, <2>2, <2>3, <2>4
<1> QED BY <1>4

\* searchSemd stops before the place of a; beyond every address there is none.
LEMMA Search ==
  ASSUME ListInv, NEW a \in SemAdd \cup {NullAdd}
  PROVE  LET n == Predecessor(a) IN
         /\ n \in Active /\ s_semAdd[n] < a
         /\ a = NullAdd => n = LastSemd /\ s_next[n] = NULL
         /\ a \in SemAdd => /\ n # LastSemd /\ Follows(n, s_next[n])
                            /\ a <= s_semAdd[s_next[n]]
<1> DEFINE W == Along(semd_h, Step(a))
           below == {d \in Active : s_semAdd[d] < a}
<1>1. /\ ASLTypeOK /\ SortedInv /\ Active \subseteq Semd /\ a \in Nat /\ 0 < a
      /\ \A d \in Semd : s_semAdd[d] \in Nat /\ s_semAdd[d] <= MAXINT
  BY SemdFacts, AddType DEF ListInv, Active, Used
<1>2. \A d \in Active : s_next[d] \in Active \cup {NULL}
  BY <1>1 DEF SortedInv, Follows
<1>3. W \subseteq below
  <2>1. below \in SUBSET Semd /\ semd_h \in below
    BY <1>1 DEF Active, SortedInv
  <2>2. \A d \in below : Step(a)[d] # NULL => Step(a)[d] \in below
    BY <1>1, <1>2 DEF Step
  <2> HIDE DEF below
  <2> QED BY <2>1, <2>2, AlongLeast
<1>4. /\ W \subseteq Semd /\ semd_h \in W
      /\ \A n \in W : Step(a)[n] # NULL => Step(a)[n] \in W
  <2>1. \A n \in Semd : Step(a)[n] \in SemdPtr
    BY <1>1 DEF Step, ASLTypeOK, SemdPtr
  <2> QED BY <2>1, AlongClosed, SemdFacts DEF SemdPtr
<1> HIDE DEF W
<1>5. \E n \in W : Step(a)[n] = NULL
  <2>1. PICK d \in W : \A e \in W : s_semAdd[e] <= s_semAdd[d]
    BY <1>1, <1>4, Greatest
  <2>2. d \in Active /\ (Step(a)[d] # NULL => d # LastSemd /\ Step(a)[d] = s_next[d])
    BY <1>1, <1>3, <1>4 DEF Step, SortedInv
  <2>3. Step(a)[d] # NULL => s_semAdd[d] < s_semAdd[Step(a)[d]]
    BY <1>1, <2>2 DEF SortedInv, Follows
  <2>4. Step(a)[d] # NULL => s_semAdd[Step(a)[d]] <= s_semAdd[d]
    BY <1>4, <2>1
  <2>5. Step(a)[d] # NULL => s_semAdd[Step(a)[d]] \in Nat /\ s_semAdd[d] \in Nat
    BY <1>1, <1>4 DEF ASLTypeOK
  <2> QED BY <2>3, <2>4, <2>5
<1>6. Predecessor(a) \in W /\ Step(a)[Predecessor(a)] = NULL
  BY <1>5 DEF Predecessor, W
<1> DEFINE n == Predecessor(a)
<1>7. n \in Active /\ n \in Semd /\ s_semAdd[n] < a
  BY <1>1, <1>3, <1>6
<1>8. s_next[n] = NULL \/ ~(s_semAdd[s_next[n]] < a)
  BY <1>6, <1>7, SemdFacts DEF Step
<1> HIDE DEF n
<1>9. n # LastSemd => Follows(n, s_next[n]) /\ s_next[n] \in Active
  BY <1>1, <1>7 DEF SortedInv, Follows
<1>10. a = NullAdd => n = LastSemd /\ s_next[n] = NULL
  <2>1. ASSUME a = NullAdd, n # LastSemd PROVE FALSE
    <3>1. s_next[n] \in Semd /\ s_next[n] # NULL
      BY <1>1, <1>9, <2>1, SemdFacts
    <3>2. ~(s_semAdd[s_next[n]] < NullAdd) /\ s_semAdd[s_next[n]] <= MAXINT
      BY <1>1, <1>8, <2>1, <3>1
    <3>3. s_semAdd[s_next[n]] \in Nat /\ NullAdd \in Nat /\ MAXINT \in Nat /\ NullAdd > MAXINT
      BY <1>1, <3>1, SemdFacts
    <3> QED BY <3>2, <3>3
  <2> QED BY <1>1, <2>1 DEF SortedInv
<1>11. a \in SemAdd => n # LastSemd
  BY <1>1, <1>7, SemdFacts DEF SortedInv
<1>12. a \in SemAdd => a <= s_semAdd[s_next[n]]
  <2> SUFFICES ASSUME a \in SemAdd PROVE a <= s_semAdd[s_next[n]]
    OBVIOUS
  <2>1. s_next[n] \in Semd /\ s_next[n] # NULL
    BY <1>1, <1>9, <1>11, SemdFacts
  <2> QED BY <1>1, <1>8, <2>1
<1> QED BY <1>7, <1>9, <1>10, <1>11, <1>12 DEF n

\* Found finds the descriptor of a, if it has one.
LEMMA FoundIs ==
  ASSUME ListInv, NEW a \in SemAdd
  PROVE  /\ ~SearchTraps(a) /\ Target(a) \in Active /\ a <= s_semAdd[Target(a)]
         /\ Found(a) => Target(a) \in Used /\ s_semAdd[Target(a)] = a
         /\ \A d \in Active : s_semAdd[d] = a => Found(a) /\ d = Target(a)
<1>1. /\ ASLTypeOK /\ SortedInv /\ Active \subseteq Semd
      /\ \A d \in Semd : s_semAdd[d] \in Nat /\ s_semAdd[d] <= MAXINT
  BY SemdFacts, AddType DEF ListInv, Active, Used
<1>2. /\ Predecessor(a) \in Active /\ s_semAdd[Predecessor(a)] < a
      /\ Follows(Predecessor(a), Target(a)) /\ a <= s_semAdd[Target(a)]
  BY Search DEF Target
<1>3. Target(a) \in Active /\ ~SearchTraps(a)
  BY <1>1, <1>2, SemdFacts DEF Follows, SearchTraps, Target
<1>4. Found(a) => Target(a) \in Used /\ s_semAdd[Target(a)] = a
  BY <1>1, <1>3, SemdFacts DEF Found, SortedInv, Active
<1>5. ASSUME NEW d \in Active, s_semAdd[d] = a PROVE Found(a) /\ d = Target(a)
  <2>1. d \in Semd /\ Target(a) \in Semd /\ Predecessor(a) \in Semd /\ a \in Nat
    BY <1>1, <1>2, <1>3, SemdFacts
  <2>2. s_semAdd[d] <= s_semAdd[Predecessor(a)] \/ s_semAdd[d] >= s_semAdd[Target(a)]
    BY <1>2 DEF Follows
  <2>3. s_semAdd[Target(a)] = a
    BY <1>1, <1>2, <1>5, <2>1, <2>2
  <2> QED BY <1>1, <1>3, <1>5, <2>3 DEF Found, SortedInv
<1> QED BY <1>2, <1>3, <1>4, <1>5

LEMMA ActiveIs ==
  ASSUME ListInv
  PROVE  ActiveList = Active
<1>1. /\ ASLTypeOK /\ SortedInv /\ Active \subseteq Semd
      /\ \A d \in Semd : s_semAdd[d] \in Nat /\ s_semAdd[d] <= MAXINT
  BY SemdFacts, AddType DEF ListInv, Active, Used
<1>2. ActiveList \subseteq Active
  <2>1. \A d \in Active : s_next[d] # NULL => s_next[d] \in Active
    BY <1>1 DEF SortedInv, Follows
  <2>2. semd_h \in Active
    BY DEF Active
  <2> QED BY <1>1, <2>1, <2>2, AlongLeast DEF ActiveList
<1>3. /\ semd_h \in ActiveList
      /\ \A n \in ActiveList : s_next[n] # NULL => s_next[n] \in ActiveList
  BY <1>1, AlongClosed, SemdFacts DEF ActiveList, ASLTypeOK, SemdPtr
<1>4. ASSUME Active \ ActiveList # {} PROVE FALSE
  <2> DEFINE T == {s_semAdd[d] : d \in Active \ ActiveList}
  <2>1. T \in SUBSET Nat /\ T # {}
    BY <1>1, <1>4 DEF ASLTypeOK
  <2>2. PICK m \in T : \A k \in T : m <= k
    <3> HIDE DEF T
    <3> QED BY <2>1, LeastElement
  <2>3. PICK d \in Active \ ActiveList : m = s_semAdd[d]
    BY <2>2
  <2>4. \A e \in Active : s_semAdd[e] < s_semAdd[d] => e \in ActiveList
    <3>1. ASSUME NEW e \in Active \ ActiveList PROVE s_semAdd[d] <= s_semAdd[e]
      <4>1. s_semAdd[e] \in T
        OBVIOUS
      <4> QED BY <2>2, <2>3, <4>1
    <3> QED BY <1>1, <2>3, <3>1 DEF ASLTypeOK
  <2> DEFINE S == {e \in Active : s_semAdd[e] < s_semAdd[d]}
  <2>5. semd_h \in S /\ S \in SUBSET Semd
    BY <1>1, <1>3, <2>3, SemdFacts DEF SortedInv, Active, ASLTypeOK
  <2>6. PICK e \in S : \A x \in S : s_semAdd[x] <= s_semAdd[e]
    <3> HIDE DEF S
    <3> QED BY <1>1, <2>5, Greatest
  <2>7. e # LastSemd
    BY <1>1, <2>3, <2>6, SemdFacts DEF SortedInv
  <2>8. Follows(e, s_next[e]) /\ s_next[e] \in Active
    BY <1>1, <2>6, <2>7 DEF SortedInv, Follows
  <2>9. s_next[e] = d
    <3>1. s_semAdd[d] >= s_semAdd[s_next[e]]
      BY <1>1, <2>3, <2>6, <2>8 DEF Follows
    <3>2. ~(s_semAdd[s_next[e]] < s_semAdd[d])
      BY <1>1, <2>6, <2>8 DEF Follows
    <3> QED BY <1>1, <2>3, <2>8, <3>1, <3>2 DEF SortedInv
  <2> QED BY <1>3, <2>3, <2>4, <2>6, <2>9, SemdFacts, <1>1
<1> QED BY <1>2, <1>4
-----------------------------------------------------------------------------
(***************************************************************************)
(* The steps.                                                              *)
(***************************************************************************)
\* A queue in use gets another value, and none of the lists changes.
LEMMA Requeue ==
  ASSUME ListInv, NEW d \in Used, NEW q, q # <<>>, UNCHANGED aslLists,
         s_procQ' = [s_procQ EXCEPT ![d] = q], ASLTypeOK', WaitInv'
  PROVE  ListInv'
<1>1. s_procQ \in [Semd -> Seq(Proc)] /\ d \in Semd /\ SortedInv
  BY DEF ListInv, ASLTypeOK, Used
<1>2. Used' = Used
  BY <1>1 DEF Used
<1>3. Active' = Active
  BY <1>2 DEF Active
<1>4. s_next' = s_next /\ s_semAdd' = s_semAdd /\ semdFree_h' = semdFree_h
  BY DEF aslLists
<1>5. SortedInv'
  <2>1. d # semd_h /\ d # LastSemd
    BY <1>1 DEF SortedInv, Used
  <2>2. s_procQ'[semd_h] = <<>> /\ s_procQ'[LastSemd] = <<>>
    BY <1>1, <2>1, SemdFacts DEF SortedInv
  <2>3. \A x, e : Follows(x, e)' <=> Follows(x, e)
    BY <1>3, <1>4 DEF Follows
  <2> QED BY <1>1, <1>2, <1>3, <1>4, <2>2, <2>3 DEF SortedInv
<1>6. FreeInv'
  <2>1. Spare' = Spare
    BY <1>3 DEF Spare
  <2>2. \A h : Along(h, s_next)' = Along(h, s_next)
    BY <1>4 DEF Along
  <2>3. FreeList' = FreeList
    BY <1>4 DEF FreeList
  <2> QED BY <1>4, <2>1, <2>2, <2>3 DEF FreeInv, ListInv
<1> QED BY <1>5, <1>6 DEF ListInv

\* What comes after a descriptor of the free list is free as well.
LEMMA FreeAlong ==
  ASSUME ListInv, NEW d \in Spare
  PROVE  /\ d \in Semd /\ s_next[d] \in SemdPtr
         /\ s_next[d] # NULL => s_next[d] \in Spare
         /\ Along(s_next[d], s_next) \subseteq Spare
<1>1. /\ s_next \in [Semd -> SemdPtr] /\ semdFree_h \in SemdPtr
      /\ Along(semdFree_h, s_next) = Spare /\ d \in Semd
  BY DEF ListInv, FreeInv, FreeList, ASLTypeOK, Spare
<1>2. /\ Spare \subseteq Semd
      /\ \A n \in Spare : s_next[n] # NULL => s_next[n] \in Spare
  BY <1>1, AlongClosed
<1>3. Along(s_next[d], s_next) \subseteq Spare
  BY <1>2, AlongLeast
<1> QED BY <1>1, <1>2, <1>3

\* A descriptor leaves the free list for its place in the active list.
LEMMA Link ==
  ASSUME ListInv, NEW a \in SemAdd, ~Found(a), semdFree_h # NULL, NEW q, q # <<>>,
         semdFree_h' = s_next[semdFree_h],
         s_next' = [s_next EXCEPT ![semdFree_h] = Target(a), ![Predecessor(a)] = semdFree_h],
         s_semAdd' = [s_semAdd EXCEPT ![semdFree_h] = a],
         s_procQ' = [s_procQ EXCEPT ![semdFree_h] = q],
         ASLTypeOK', WaitInv'
  PROVE  ListInv'
<1> DEFINE f == semdFree_h
           n == Predecessor(a)
           t == Target(a)
<1>1. /\ ASLTypeOK /\ SortedInv /\ Active \subseteq Semd
      /\ \A d \in Semd : s_semAdd[d] \in Nat /\ s_semAdd[d] <= MAXINT
      /\ s_next \in [Semd -> SemdPtr] /\ s_semAdd \in [Semd -> 0..MAXINT]
      /\ s_procQ \in [Semd -> Seq(Proc)]
      /\ a \in Nat /\ a # 0 /\ a # MAXINT
  <2>1. ASLTypeOK /\ SortedInv /\ Active \subseteq Semd
    BY SemdFacts DEF ListInv, Active, Used
  <2>2. a \in Nat /\ a # 0 /\ a # MAXINT
    BY SemdFacts
  <2> QED BY <2>1, <2>2, AddType DEF ASLTypeOK
<1>2. /\ n \in Active /\ n # LastSemd /\ t = s_next[n] /\ Follows(n, t)
      /\ s_semAdd[n] < a /\ a < s_semAdd[t] /\ t \in Active
      /\ \A d \in Active : s_semAdd[d] # a
  <2>1. /\ n \in Active /\ n # LastSemd /\ t = s_next[n] /\ Follows(n, t)
        /\ s_semAdd[n] < a
    BY Search DEF Target
  <2>2. t \in Active /\ a <= s_semAdd[t] /\ \A d \in Active : s_semAdd[d] # a
    BY FoundIs
  <2>3. t \in Semd /\ s_semAdd[t] \in Nat /\ s_semAdd[t] # a
    BY <1>1, <2>2
  <2> QED BY <1>1, <2>1, <2>2, <2>3
<1>3. f \in Spare /\ f \in Semd /\ f \notin Active
  <2>1. f \in FreeList
    BY <1>1, AlongClosed DEF FreeList, ASLTypeOK
  <2> QED BY <2>1 DEF ListInv, FreeInv, Spare
<1> HIDE DEF f, n, t
<1>4. /\ s_next' = [s_next EXCEPT ![f] = t, ![n] = f]
      /\ s_semAdd' = [s_semAdd EXCEPT ![f] = a]
      /\ s_procQ' = [s_procQ EXCEPT ![f] = q]
      /\ semdFree_h' = s_next[f]
  BY DEF f, n, t
<1>5. /\ s_next'[f] = t /\ s_next'[n] = f /\ s_semAdd'[f] = a
      /\ \A d \in Semd \ {f} : s_semAdd'[d] = s_semAdd[d] /\ s_procQ'[d] = s_procQ[d]
      /\ \A d \in Semd \ {f, n} : s_next'[d] = s_next[d]
      /\ s_procQ'[f] = q
  BY <1>1, <1>2, <1>3, <1>4
<1>6. Used' = Used \cup {f}
  BY <1>3, <1>5 DEF Used
<1>7. Active' = Active \cup {f}
  BY <1>6 DEF Active
<1>8. SortedInv'
  <2>1. /\ semd_h \in Active /\ LastSemd \in Active /\ semd_h # f /\ LastSemd # f
        /\ LastSemd # n
    BY <1>2, <1>3 DEF Active
  <2>2. /\ s_procQ'[semd_h] = <<>> /\ s_semAdd'[semd_h] = 0
        /\ s_procQ'[LastSemd] = <<>> /\ s_semAdd'[LastSemd] = MAXINT
        /\ s_next'[LastSemd] = NULL
    BY <1>1, <1>5, <2>1, SemdFacts DEF SortedInv
  <2>3. \A d \in Used' : s_semAdd'[d] \in SemAdd
    BY <1>1, <1>3, <1>5, <1>6 DEF SortedInv, Used
  <2>4. \A d, e \in Active' : s_semAdd'[d] = s_semAdd'[e] => d = e
    BY <1>1, <1>2, <1>3, <1>5, <1>7 DEF SortedInv
  <2>5. ASSUME NEW d \in Active' \ {LastSemd} PROVE Follows(d, s_next[d])'
    <3>1. CASE d = f
      <4>1. ASSUME NEW x \in Active PROVE s_semAdd[x] <= a \/ s_semAdd[x] >= s_semAdd[t]
        <5>1. s_semAdd[x] <= s_semAdd[n] \/ s_semAdd[x] >= s_semAdd[t]
          BY <1>2 DEF Follows
        <5>2. x \in Semd /\ n \in Semd /\ t \in Semd
          BY <1>1, <1>2
        <5> QED BY <1>1, <1>2, <5>1, <5>2
      <4>2. t \in Semd \ {f}
        BY <1>1, <1>2, <1>3
      <4>3. \A x \in Active' : s_semAdd'[x] <= a \/ s_semAdd'[x] >= s_semAdd'[t]
        BY <1>1, <1>3, <1>5, <1>7, <4>1, <4>2
      <4>4. /\ s_semAdd'[f] = a /\ s_semAdd'[t] = s_semAdd[t] /\ s_next'[f] = t
            /\ t \in Active' /\ s_semAdd'[f] < s_semAdd'[t]
        BY <1>2, <1>5, <1>7, <4>2
      <4> QED BY <3>1, <4>3, <4>4 DEF Follows
    <3>2. CASE d = n
      <4>1. ASSUME NEW x \in Active PROVE s_semAdd[x] <= s_semAdd[n] \/ s_semAdd[x] >= a
        <5>1. s_semAdd[x] <= s_semAdd[n] \/ s_semAdd[x] >= s_semAdd[t]
          BY <1>2 DEF Follows
        <5>2. x \in Semd /\ n \in Semd /\ t \in Semd
          BY <1>1, <1>2
        <5> QED BY <1>1, <1>2, <5>1, <5>2
      <4>2. n \in Semd \ {f}
        BY <1>1, <1>2, <1>3
      <4>3. \A x \in Active' : s_semAdd'[x] <= s_semAdd'[n] \/ s_semAdd'[x] >= a
        BY <1>1, <1>3, <1>5, <1>7, <4>1, <4>2
      <4>4. /\ s_semAdd'[f] = a /\ s_semAdd'[n] = s_semAdd[n] /\ s_next'[n] = f
            /\ f \in Active' /\ s_semAdd'[n] < s_semAdd'[f]
        BY <1>2, <1>5, <1>7, <4>2
      <4> QED BY <3>2, <4>3, <4>4 DEF Follows
    <3>3. CASE d \notin {f, n}
      <4>1. /\ d \in Active \ {LastSemd} /\ d \in Semd /\ s_next'[d] = s_next[d]
            /\ Follows(d, s_next[d])
        BY <1>1, <1>5, <1>7, <3>3 DEF SortedInv
      <4> DEFINE e == s_next[d]
      <4>2. /\ e \in Active /\ e \in Semd /\ s_semAdd[d] < s_semAdd[e]
            /\ s_semAdd[n] <= s_semAdd[d] \/ s_semAdd[n] >= s_semAdd[e]
            /\ s_semAdd[d] <= s_semAdd[n] \/ s_semAdd[d] >= s_semAdd[t]
            /\ n \in Semd /\ t \in Semd
        BY <1>1, <1>2, <4>1 DEF Follows
      <4>3. s_semAdd[d] # s_semAdd[n]
        BY <1>1, <1>2, <3>3, <4>1 DEF SortedInv
      <4> HIDE DEF e
      <4>4. a <= s_semAdd[d] \/ a >= s_semAdd[e]
        BY <1>1, <1>2, <4>1, <4>2, <4>3
      <4>5. \A x \in Active' : s_semAdd'[x] <= s_semAdd'[d] \/ s_semAdd'[x] >= s_semAdd'[e]
        <5>1. \A x \in Active : s_semAdd[x] <= s_semAdd[d] \/ s_semAdd[x] >= s_semAdd[e]
          BY <4>1 DEF Follows, e
        <5>2. s_semAdd'[d] = s_semAdd[d] /\ s_semAdd'[e] = s_semAdd[e]
          BY <1>3, <1>5, <3>3, <4>1, <4>2
        <5>3. /\ \A x \in Active : s_semAdd'[x] = s_semAdd[x]
              /\ s_semAdd'[f] = a /\ Active' = Active \cup {f}
          BY <1>1, <1>3, <1>5, <1>7
        <5> QED BY <4>4, <5>1, <5>2, <5>3
      <4>6. s_semAdd'[d] < s_semAdd'[e] /\ e \in Active' /\ s_next'[d] = e
        BY <1>3, <1>5, <1>7, <3>3, <4>1, <4>2 DEF e
      <4> QED BY <4>5, <4>6 DEF Follows
    <3> QED BY <3>1, <3>2, <3>3
  <2> QED BY <2>2, <2>3, <2>4, <2>5 DEF SortedInv
<1>9. FreeInv'
  <2>1. Spare' = Spare \ {f} /\ n \notin Spare
    BY <1>2, <1>7 DEF Spare
  <2>2. /\ s_next[f] \in SemdPtr /\ Spare = {f} \cup Along(s_next[f], s_next)
        /\ f \notin Along(s_next[f], s_next)
    BY <1>1, <1>3, AlongFirst, FreeAlong, SemdFacts DEF ListInv, FreeInv, FreeList, f
  <2>3. Along(s_next[f], s_next) = Spare \ {f}
    BY <2>2
  <2>4. \A x \in Spare \ {f} : s_next'[x] = s_next[x]
    BY <1>5, <2>1 DEF Spare
  <2>5. Along(s_next[f], s_next') = Spare \ {f}
    BY <1>1, <2>2, <2>3, <2>4, AlongSame
  <2>6. FreeList' = Spare'
    BY <1>4, <2>1, <2>5 DEF FreeList
  <2>7. ASSUME NEW d \in Spare \ {f} PROVE d \notin Along(s_next'[d], s_next')
    <3>1. s_next'[d] = s_next[d] /\ s_next[d] \in SemdPtr /\ d \notin Along(s_next[d], s_next)
      BY <2>4, <2>7, FreeAlong DEF ListInv, FreeInv
    <3>2. Along(s_next[d], s_next) \subseteq Spare \ {f}
      <4>1. /\ Spare \ {f} \in SUBSET Semd
            /\ \A x \in Spare \ {f} : s_next[x] # NULL => s_next[x] \in Spare \ {f}
        BY <1>1, <2>2, <2>3, AlongClosed DEF ASLTypeOK
      <4> QED BY <2>7, <4>1, AlongLeast
    <3>3. Along(s_next[d], s_next') = Along(s_next[d], s_next)
      BY <1>1, <2>4, <3>1, <3>2, AlongSame
    <3> QED BY <3>1, <3>3
  <2>8. \A d \in Spare' : d \notin Along(s_next[d], s_next)'
    BY <2>1, <2>7
  <2> QED BY <2>6, <2>8 DEF FreeInv
<1> QED BY <1>8, <1>9 DEF ListInv

\* A descriptor with an empty queue goes back to the free list.
LEMMA Unlink ==
  ASSUME ListInv, NEW a \in SemAdd, Found(a), SetQueue(a, <<>>), ASLTypeOK', WaitInv'
  PROVE  ListInv'
<1> DEFINE f == semdFree_h
           n == Predecessor(a)
           t == Target(a)
<1>1. /\ ASLTypeOK /\ SortedInv /\ Active \subseteq Semd
      /\ \A d \in Semd : s_semAdd[d] \in Nat /\ s_semAdd[d] <= MAXINT
      /\ s_next \in [Semd -> SemdPtr] /\ s_procQ \in [Semd -> Seq(Proc)]
      /\ f \in SemdPtr
  <2>1. ASLTypeOK /\ SortedInv /\ Active \subseteq Semd
    BY SemdFacts DEF ListInv, Active, Used
  <2> QED BY <2>1, AddType DEF ASLTypeOK
<1>2. /\ n \in Active /\ n # LastSemd /\ t = s_next[n] /\ Follows(n, t)
      /\ t \in Used /\ n # t /\ s_semAdd[n] < s_semAdd[t]
  <2>1. /\ n \in Active /\ n # LastSemd /\ t = s_next[n] /\ Follows(n, t) /\ t \in Used
    BY Search, FoundIs DEF Target
  <2>2. s_semAdd[n] < s_semAdd[t] /\ n \in Semd /\ s_semAdd[n] \in Nat
    BY <1>1, <2>1 DEF Follows
  <2> QED BY <2>1, <2>2
<1>3. t # semd_h /\ t # LastSemd /\ t \in Active /\ t \in Semd /\ Follows(t, s_next[t])
  BY <1>1, <1>2 DEF SortedInv, Used, Active
<1>4. /\ s_next' = [s_next EXCEPT ![n] = s_next[t], ![t] = f]
      /\ s_semAdd' = s_semAdd /\ s_procQ' = [s_procQ EXCEPT ![t] = <<>>]
      /\ semdFree_h' = t
  BY DEF SetQueue
<1> HIDE DEF f, n, t
<1>5. /\ s_next'[n] = s_next[t] /\ s_next'[t] = f /\ s_procQ'[t] = <<>>
      /\ \A d \in Semd \ {t} : s_procQ'[d] = s_procQ[d]
      /\ \A d \in Semd \ {n, t} : s_next'[d] = s_next[d]
  BY <1>1, <1>2, <1>3, <1>4
<1>6. Used' = Used \ {t}
  BY <1>3, <1>5 DEF Used
<1>7. Active' = Active \ {t}
  BY <1>3, <1>6 DEF Active
<1>8. SortedInv'
  <2>1. /\ semd_h \in Active /\ LastSemd \in Active
    BY DEF Active
  <2>2. /\ s_procQ'[semd_h] = <<>> /\ s_semAdd'[semd_h] = 0
        /\ s_procQ'[LastSemd] = <<>> /\ s_semAdd'[LastSemd] = MAXINT
        /\ s_next'[LastSemd] = NULL
    BY <1>1, <1>2, <1>3, <1>4, <1>5, SemdFacts DEF SortedInv
  <2>3. ASSUME NEW d \in Active' \ {LastSemd} PROVE Follows(d, s_next[d])'
    <3>1. CASE d = n
      <4> DEFINE e == s_next[t]
      <4>1. /\ e \in Active /\ s_semAdd[t] < s_semAdd[e] /\ e \in Semd /\ n \in Semd
            /\ s_semAdd[e] \in Nat /\ s_semAdd[t] \in Nat /\ s_semAdd[n] \in Nat
        BY <1>1, <1>2, <1>3 DEF Follows
      <4>2. ASSUME NEW x \in Active'
            PROVE  s_semAdd[x] <= s_semAdd[n] \/ s_semAdd[x] >= s_semAdd[e]
        <5>1. /\ s_semAdd[x] <= s_semAdd[n] \/ s_semAdd[x] >= s_semAdd[t]
              /\ s_semAdd[x] <= s_semAdd[t] \/ s_semAdd[x] >= s_semAdd[e]
              /\ x \in Active /\ x # t
          BY <1>2, <1>3, <1>7 DEF Follows
        <5>2. s_semAdd[x] # s_semAdd[t] /\ s_semAdd[x] \in Nat
          BY <1>1, <1>3, <5>1 DEF SortedInv
        <5> QED BY <4>1, <5>1, <5>2
      <4>3. e # t /\ s_semAdd[n] < s_semAdd[e]
        BY <1>2, <4>1
      <4>4. s_next'[n] = e /\ e \in Active' /\ s_semAdd' = s_semAdd
        BY <1>4, <1>5, <1>7, <4>1, <4>3
      <4> HIDE DEF e
      <4> QED BY <3>1, <4>2, <4>3, <4>4 DEF Follows
    <3>2. CASE d # n
      <4>1. /\ d \in Active \ {LastSemd} /\ d # t /\ s_next'[d] = s_next[d]
            /\ Follows(d, s_next[d])
        BY <1>1, <1>5, <1>7, <3>2 DEF SortedInv
      <4>2. s_next[d] # t
        <5> SUFFICES ASSUME s_next[d] = t PROVE FALSE
          OBVIOUS
        <5>1. /\ s_semAdd[n] <= s_semAdd[d] \/ s_semAdd[n] >= s_semAdd[t]
              /\ s_semAdd[d] <= s_semAdd[n] \/ s_semAdd[d] >= s_semAdd[t]
              /\ s_semAdd[d] < s_semAdd[t] /\ s_semAdd[n] < s_semAdd[t]
          BY <1>2, <4>1 DEF Follows
        <5>2. s_semAdd[d] # s_semAdd[n]
          BY <1>1, <1>2, <3>2, <4>1 DEF SortedInv
        <5>3. s_semAdd[d] \in Nat /\ s_semAdd[n] \in Nat /\ s_semAdd[t] \in Nat
          BY <1>1, <1>2, <1>3, <4>1
        <5> QED BY <5>1, <5>2, <5>3
      <4> DEFINE e == s_next[d]
      <4>3. /\ s_next'[d] = e /\ e \in Active' /\ s_semAdd' = s_semAdd
            /\ s_semAdd[d] < s_semAdd[e] /\ Active' \subseteq Active
            /\ \A x \in Active : s_semAdd[x] <= s_semAdd[d] \/ s_semAdd[x] >= s_semAdd[e]
        BY <1>4, <1>7, <4>1, <4>2 DEF Follows
      <4> HIDE DEF e
      <4> QED BY <4>3 DEF Follows
    <3> QED BY <3>1, <3>2
  <2> QED BY <1>1, <1>4, <1>6, <1>7, <2>2, <2>3 DEF SortedInv
<1>9. FreeInv'
  <2>1. Spare' = Spare \cup {t} /\ t \notin Spare /\ n \notin Spare
    BY <1>2, <1>3, <1>7 DEF Spare
  <2>2. Along(f, s_next) = Spare /\ \A d \in Spare : d \notin Along(s_next[d], s_next)
    BY DEF ListInv, FreeInv, FreeList, f
  <2>3. \A x \in Spare : s_next'[x] = s_next[x]
    BY <1>5, <2>1 DEF Spare
  <2>4. Along(f, s_next') = Spare
    BY <1>1, <2>2, <2>3, AlongSame
  <2>5. FreeList' = Spare'
    <3>1. s_next' \in [Semd -> SemdPtr]
      BY DEF ASLTypeOK
    <3>2. Along(t, s_next') = {t} \cup Along(s_next'[t], s_next')
      BY <1>3, <3>1, AlongFirst, SemdFacts
    <3> QED BY <1>4, <1>5, <2>1, <2>4, <3>2 DEF FreeList
  <2>6. ASSUME NEW d \in Spare PROVE d \notin Along(s_next'[d], s_next')
    <3>1. s_next'[d] = s_next[d] /\ s_next[d] \in SemdPtr /\ Along(s_next[d], s_next) \subseteq Spare
      BY <2>3, FreeAlong
    <3>2. Along(s_next[d], s_next') = Along(s_next[d], s_next)
      BY <1>1, <2>3, <3>1, AlongSame
    <3> QED BY <2>2, <3>1, <3>2
  <2>7. t \notin Along(s_next'[t], s_next')
    BY <1>5, <2>1, <2>4
  <2>8. \A d \in Spare' : d \notin Along(s_next[d], s_next)'
    BY <2>1, <2>6, <2>7
  <2> QED BY <2>5, <2>8 DEF FreeInv
<1> QED BY <1>8, <1>9 DEF ListInv

\* Types, and who waits where.
LEMMA SetQueueType ==
  ASSUME ListInv, NEW a \in SemAdd, Found(a), NEW q \in Seq(Proc), SetQueue(a, q)
  PROVE  /\ semdFree_h' \in SemdPtr /\ s_next' \in [Semd -> SemdPtr]
         /\ s_semAdd' \in [Semd -> 0..MAXINT] /\ s_procQ' \in [Semd -> Seq(Proc)]
         /\ s_procQ' = [s_procQ EXCEPT ![Target(a)] = q] /\ s_semAdd' = s_semAdd
<1>1. ASLTypeOK /\ Target(a) \in Semd /\ Predecessor(a) \in Semd
  BY Search, FoundIs, SemdFacts DEF ListInv, Active, Used
<1>2. s_next[Target(a)] \in SemdPtr /\ Target(a) \in SemdPtr
  BY <1>1 DEF ASLTypeOK, SemdPtr
<1> QED BY <1>1, <1>2 DEF SetQueue, ASLTypeOK

\* The queue of a's descriptor loses a process.
LEMMA Shrink ==
  ASSUME ListInv, NEW a \in SemAdd, Found(a), NEW q \in Seq(Proc), SetQueue(a, q),
         IsInjective(q), ToSet(q) \subseteq ToSet(s_procQ[Target(a)]),
         p_semAdd' = p_semAdd, aslRet' \in Proc
  PROVE  ListInv'
<1>1. /\ ASLTypeOK /\ WaitInv /\ Target(a) \in Used /\ Target(a) \in Semd
      /\ s_procQ \in [Semd -> Seq(Proc)] /\ p_semAdd \in [Proc -> SemAdd \cup {NullAdd}]
  BY FoundIs DEF ListInv, Used, ASLTypeOK
<1>2. /\ semdFree_h' \in SemdPtr /\ s_next' \in [Semd -> SemdPtr]
      /\ s_semAdd' \in [Semd -> 0..MAXINT] /\ s_procQ' \in [Semd -> Seq(Proc)]
      /\ s_procQ' = [s_procQ EXCEPT ![Target(a)] = q] /\ s_semAdd' = s_semAdd
  BY SetQueueType
<1>3. ASLTypeOK'
  BY <1>1, <1>2 DEF ASLTypeOK
<1>4. WaitInv'
  BY <1>1, <1>2 DEF WaitInv
<1>5. CASE q = <<>>
  BY <1>3, <1>4, <1>5, Unlink
<1>6. CASE q # <<>>
  <2>1. UNCHANGED aslLists
    BY <1>6 DEF SetQueue, aslLists
  <2> QED BY <1>1, <1>2, <1>3, <1>4, <1>6, <2>1, Requeue
<1> QED BY <1>5, <1>6

LEMMA Idle ==
  ASSUME ListInv, UNCHANGED <<aslLists, s_procQ, p_semAdd>>,
         aslRet' \in Proc \cup {NULL, "TRUE", "FALSE", "trap"}
  PROVE  ListInv'
<1>1. /\ s_next' = s_next /\ s_semAdd' = s_semAdd /\ semdFree_h' = semdFree_h
      /\ s_procQ' = s_procQ /\ p_semAdd' = p_semAdd
  BY DEF aslLists
<1>2. ASLTypeOK'
  BY <1>1 DEF ListInv, ASLTypeOK
<1>3. Active' = Active /\ Used' = Used
  BY <1>1 DEF Active, Used
<1>4. \A d, e : Follows(d, e)' <=> Follows(d, e)
  BY <1>1, <1>3 DEF Follows
<1>5. SortedInv' /\ WaitInv'
  BY <1>1, <1>3, <1>4 DEF ListInv, SortedInv, WaitInv
<1>6. Spare' = Spare /\ FreeList' = FreeList
  BY <1>1, <1>3 DEF Spare, FreeList
<1>7. FreeInv'
  BY <1>1, <1>6 DEF ListInv, FreeInv
<1> QED BY <1>2, <1>5, <1>7 DEF ListInv

LEMMA InsertStep ==
  ASSUME ListInv, NEW a \in SemAdd, NEW p \in Proc, InsertBlocked(a, p)
  PROVE  ListInv'
<1>1. /\ ASLTypeOK /\ WaitInv /\ \A d \in Semd : p \notin ToSet(s_procQ[d])
      /\ s_procQ \in [Semd -> Seq(Proc)] /\ p_semAdd \in [Proc -> SemAdd \cup {NullAdd}]
  BY DEF InsertBlocked, NotBlocked, ListInv, ASLTypeOK
<1>2. CASE Found(a)
  <2> DEFINE q == Append(s_procQ[Target(a)], p)
  <2>1. /\ UNCHANGED aslLists /\ s_procQ' = [s_procQ EXCEPT ![Target(a)] = q]
        /\ p_semAdd' = [p_semAdd EXCEPT ![p] = a] /\ aslRet' = "FALSE"
    BY <1>2 DEF InsertBlocked
  <2>2. /\ Target(a) \in Used /\ Target(a) \in Semd /\ s_semAdd[Target(a)] = a
        /\ s_procQ[Target(a)] \in Seq(Proc)
    BY <1>1, <1>2, FoundIs DEF Used
  <2>3. /\ q \in Seq(Proc) /\ q # <<>> /\ ToSet(q) = ToSet(s_procQ[Target(a)]) \cup {p}
        /\ IsInjective(q)
    <3>1. /\ q \in Seq(Proc) /\ Len(q) = Len(s_procQ[Target(a)]) + 1
          /\ ToSet(q) = ToSet(s_procQ[Target(a)]) \cup {p}
          /\ IsInjective(s_procQ[Target(a)]) /\ p \notin ToSet(s_procQ[Target(a)])
               => IsInjective(q)
      BY <2>2, AppendQueue
    <3>2. q # <<>>
      <4>1. Len(s_procQ[Target(a)]) \in Nat
        BY <2>2
      <4> HIDE DEF q
      <4> QED BY <3>1, <4>1
    <3> QED BY <1>1, <2>2, <3>1, <3>2 DEF WaitInv
  <2> HIDE DEF q
  <2>4. ASLTypeOK'
    BY <1>1, <2>1, <2>2, <2>3 DEF ASLTypeOK, aslLists
  <2>5. WaitInv'
    <3>1. s_semAdd' = s_semAdd
      BY <2>1 DEF aslLists
    <3>2. ASSUME NEW d \in Semd, d # Target(a), NEW x \in ToSet(s_procQ'[d])
          PROVE  p_semAdd'[x] = s_semAdd'[d]
      <4>1. s_procQ'[d] = s_procQ[d] /\ x # p
        BY <1>1, <2>1, <3>2
      <4> QED BY <1>1, <2>1, <3>1, <3>2, <4>1 DEF WaitInv
    <3>3. \A x \in ToSet(s_procQ'[Target(a)]) : p_semAdd'[x] = s_semAdd'[Target(a)]
      <4>1. ASSUME NEW x \in ToSet(q) PROVE p_semAdd'[x] = a
        BY <1>1, <2>1, <2>2, <2>3 DEF WaitInv
      <4> QED BY <1>1, <2>1, <2>2, <3>1, <4>1
    <3>4. \A d \in Semd : IsInjective(s_procQ'[d])
      BY <1>1, <2>1, <2>2, <2>3 DEF WaitInv
    <3> QED BY <3>2, <3>3, <3>4 DEF WaitInv
  <2> QED BY <2>1, <2>2, <2>3, <2>4, <2>5, Requeue
<1>3. CASE ~Found(a) /\ semdFree_h # NULL
  <2> DEFINE f == semdFree_h
  <2>1. /\ semdFree_h' = s_next[semdFree_h]
        /\ s_next' = [s_next EXCEPT ![semdFree_h] = Target(a), ![Predecessor(a)] = semdFree_h]
        /\ s_semAdd' = [s_semAdd EXCEPT ![semdFree_h] = a]
        /\ s_procQ' = [s_procQ EXCEPT ![semdFree_h] = <<p>>]
        /\ p_semAdd' = [p_semAdd EXCEPT ![p] = a]
        /\ aslRet' = "FALSE"
    BY <1>3 DEF InsertBlocked
  <2>2. /\ f \in Semd /\ f \in SemdPtr /\ Target(a) \in SemdPtr /\ Predecessor(a) \in Semd
        /\ s_next[f] \in SemdPtr /\ a \in 0..MAXINT
    <3>1. Target(a) \in Active /\ Predecessor(a) \in Active /\ Active \subseteq Semd
      BY <1>1, FoundIs, Search, SemdFacts DEF Active, Used
    <3>2. f \in Semd /\ a \in 0..MAXINT
      BY <1>1, <1>3, SemdFacts DEF ASLTypeOK, SemdPtr
    <3> QED BY <1>1, <3>1, <3>2 DEF ASLTypeOK, SemdPtr
  <2>3. <<p>> \in Seq(Proc) /\ <<p>> # <<>> /\ ToSet(<<p>>) = {p} /\ IsInjective(<<p>>)
    BY DEF ToSet, IsInjective
  <2>4. ASLTypeOK'
    BY <1>1, <2>1, <2>2, <2>3 DEF ASLTypeOK
  <2>5. WaitInv'
    <3>1. ASSUME NEW d \in Semd, d # f, NEW x \in ToSet(s_procQ'[d])
          PROVE  p_semAdd'[x] = s_semAdd'[d]
      <4>1. s_procQ'[d] = s_procQ[d] /\ s_semAdd'[d] = s_semAdd[d] /\ x # p
        BY <1>1, <2>1, <2>2, <3>1 DEF ASLTypeOK
      <4> QED BY <1>1, <2>1, <3>1, <4>1 DEF WaitInv
    <3>2. \A x \in ToSet(s_procQ'[f]) : p_semAdd'[x] = s_semAdd'[f]
      BY <1>1, <2>1, <2>2, <2>3 DEF ASLTypeOK
    <3>3. \A d \in Semd : IsInjective(s_procQ'[d])
      BY <1>1, <2>1, <2>2, <2>3 DEF WaitInv
    <3> QED BY <3>1, <3>2, <3>3 DEF WaitInv
  <2> QED BY <1>3, <2>1, <2>3, <2>4, <2>5, Link
<1>4. CASE ~Found(a) /\ semdFree_h = NULL
  BY <1>4, Idle DEF InsertBlocked
<1> QED BY <1>2, <1>3, <1>4

LEMMA RemoveStep ==
  ASSUME ListInv, NEW a \in SemAdd, RemoveBlocked(a)
  PROVE  ListInv'
<1>1. CASE Found(a)
  <2> DEFINE s == s_procQ[Target(a)]
  <2>1. aslRet' = Head(s) /\ SetQueue(a, Tail(s)) /\ p_semAdd' = p_semAdd
    BY <1>1 DEF RemoveBlocked
  <2>2. s \in Seq(Proc) /\ s # <<>> /\ IsInjective(s)
    BY <1>1, FoundIs DEF Used, ListInv, ASLTypeOK, WaitInv
  <2> HIDE DEF s
  <2>3. /\ Head(s) \in Proc /\ Tail(s) \in Seq(Proc) /\ IsInjective(Tail(s))
        /\ ToSet(Tail(s)) \subseteq ToSet(s)
    BY <2>2, TailQueue
  <2> QED BY <1>1, <2>1, <2>3, Shrink DEF s
<1>2. CASE ~Found(a)
  BY <1>2, Idle DEF RemoveBlocked
<1> QED BY <1>1, <1>2

\* What outProcQ returns, for a process of the queue, is of the queue.
LEMMA OutAnswerIs ==
  ASSUME NEW q \in Seq(Proc), NEW p \in ToSet(q)
  PROVE  OutAnswer(q, p) \in ToSet(q) /\ OutAnswer(q, p) \in Proc
<1>1. ToSet(q) \subseteq Proc /\ \A i \in 1..Len(q) : q[i] \in ToSet(q)
  BY ToSetDef
<1>2. Len(q) > 1 => Len(q) - 1 \in 1..Len(q)
  OBVIOUS
<1> QED BY <1>1, <1>2 DEF OutAnswer

\* A process waits in the queue that its p_semAdd leads to, if in any.
LEMMA WaitsAt ==
  ASSUME ListInv, NEW p \in Proc, NEW d \in Semd, p \in ToSet(s_procQ[d])
  PROVE  /\ p_semAdd[p] \in SemAdd /\ p_semAdd[p] = s_semAdd[d] /\ d \in Used
         /\ Found(p_semAdd[p]) /\ d = Target(p_semAdd[p])
<1>1. p_semAdd[p] = s_semAdd[d] /\ SortedInv
  BY DEF ListInv, WaitInv
<1>2. d \in Used
  BY DEF Used, ToSet
<1>3. p_semAdd[p] \in SemAdd
  BY <1>1, <1>2 DEF SortedInv
<1> QED BY <1>1, <1>2, <1>3, FoundIs DEF Active

LEMMA OutStep ==
  ASSUME ListInv, NEW p \in Proc, OutBlocked(p)
  PROVE  ListInv'
<1> DEFINE a == p_semAdd[p]
           q == s_procQ[Target(a)]
<1>0. a \in SemAdd \cup {NullAdd}
  BY DEF ListInv, ASLTypeOK
<1>1. CASE Found(a) /\ \E i \in DOMAIN q : q[i] = p /\ SetQueue(a, RemoveAt(q, i))
  <2>0. a \in SemAdd
    BY <1>0, <1>1, Search DEF Found, SearchTraps
  <2>1. PICK i \in DOMAIN q : q[i] = p /\ SetQueue(a, RemoveAt(q, i))
    BY <1>1
  <2>2. q \in Seq(Proc) /\ IsInjective(q)
    BY <1>1, <2>0, FoundIs DEF Used, ListInv, ASLTypeOK, WaitInv
  <2>3. i \in 1..Len(q)
    BY <2>1, <2>2
  <2>4. /\ RemoveAt(q, i) \in Seq(Proc) /\ IsInjective(RemoveAt(q, i))
        /\ ToSet(RemoveAt(q, i)) \subseteq ToSet(q)
    BY <2>2, <2>3, RemoveAtQueue
  <2>5. p \in ToSet(q)
    BY <2>1, <2>2, <2>3, ToSetDef
  <2>6. SearchTraps(a) = FALSE /\ p_semAdd' = p_semAdd
    BY <1>1 DEF Found, OutBlocked
  <2>7. aslRet' = OutAnswer(q, p)
    BY <1>1, <2>5, <2>6 DEF OutBlocked
  <2>8. aslRet' \in Proc
    BY <2>2, <2>5, <2>7, OutAnswerIs
  <2> QED BY <1>1, <2>0, <2>1, <2>4, <2>6, <2>8, Shrink
<1>2. CASE ~(Found(a) /\ \E i \in DOMAIN q : q[i] = p /\ SetQueue(a, RemoveAt(q, i)))
  BY <1>2, Idle DEF OutBlocked
<1> QED BY <1>1, <1>2

LEMMA ReuseStep ==
  ASSUME ListInv, NEW p \in Proc, ReusePcb(p)
  PROVE  ListInv'
<1>1. /\ s_next' = s_next /\ s_semAdd' = s_semAdd /\ semdFree_h' = semdFree_h
      /\ s_procQ' = s_procQ /\ p_semAdd' = [p_semAdd EXCEPT ![p] = NullAdd]
      /\ aslRet' = NULL /\ \A d \in Semd : p \notin ToSet(s_procQ[d])
  BY DEF ReusePcb, aslLists, NotBlocked
<1>2. ASLTypeOK'
  BY <1>1 DEF ListInv, ASLTypeOK
<1>3. Active' = Active /\ Used' = Used
  BY <1>1 DEF Active, Used
<1>4. \A d, e : Follows(d, e)' <=> Follows(d, e)
  BY <1>1, <1>3 DEF Follows
<1>5. SortedInv'
  BY <1>1, <1>3, <1>4 DEF ListInv, SortedInv
<1>6. WaitInv'
  <2>1. ASSUME NEW d \in Semd, NEW x \in ToSet(s_procQ[d]) PROVE p_semAdd'[x] = s_semAdd[d]
    <3>1. x # p /\ x \in Proc
      BY <1>1, ToSetDef DEF ListInv, ASLTypeOK
    <3> QED BY <1>1, <3>1 DEF ListInv, WaitInv, ASLTypeOK
  <2> QED BY <1>1, <2>1 DEF ListInv, WaitInv
<1>7. Spare' = Spare /\ FreeList' = FreeList
  BY <1>1, <1>3 DEF Spare, FreeList
<1>8. FreeInv'
  BY <1>1, <1>7 DEF ListInv, FreeInv
<1> QED BY <1>2, <1>5, <1>6, <1>8 DEF ListInv

LEMMA ListStep ==
  ASSUME ListInv, [ASLNext]_aslVars
  PROVE  ListInv'
<1>1. ASSUME NEW a \in SemAdd, HeadBlocked(a) PROVE ListInv'
  <2>1. /\ UNCHANGED <<aslLists, s_procQ, p_semAdd>>
        /\ aslRet' = IF Found(a) THEN Head(s_procQ[Target(a)]) ELSE NULL
    BY <1>1 DEF HeadBlocked
  <2>2. Found(a) => Head(s_procQ[Target(a)]) \in Proc
    <3>1. Found(a) => s_procQ[Target(a)] \in Seq(Proc) /\ s_procQ[Target(a)] # <<>>
      BY FoundIs DEF Used, ListInv, ASLTypeOK
    <3> QED BY <3>1, TailQueue
  <2> QED BY <2>1, <2>2, Idle
<1>2. CASE UNCHANGED aslVars
  BY <1>2, Idle DEF aslVars, aslLists, ListInv, ASLTypeOK
<1> QED BY <1>1, <1>2, InsertStep, RemoveStep, OutStep, ReuseStep DEF ASLNext

\* initASL frees the descriptors from the first to the last.
LEMMA FreeAtFirst ==
  ASSUME ASLInit
  PROVE  /\ Along(semdFree_h, s_next) = {d \in Semd : d < MAXSEMS}
         /\ \A d \in Semd : d < MAXSEMS => d \notin Along(s_next[d], s_next)
<1> USE SemdAssumption DEF Semd, semd_h, LastSemd
<1> DEFINE F == {d \in Semd : d < MAXSEMS}
<1>1. /\ semdFree_h = IF MAXSEMS = 0 THEN NULL ELSE MAXSEMS - 1
      /\ \A d \in F : s_next[d] = IF d = 0 THEN NULL ELSE d - 1
  BY DEF ASLInit
<1>2. Along(semdFree_h, s_next) \subseteq F
  <2>1. F \in SUBSET Semd /\ (semdFree_h # NULL => semdFree_h \in F)
        /\ \A d \in F : s_next[d] # NULL => s_next[d] \in F
    BY <1>1
  <2> HIDE DEF F
  <2> QED BY <2>1, AlongLeast
<1>3. ASSUME NEW d \in F PROVE d \notin Along(s_next[d], s_next)
  <2> DEFINE B == {e \in Semd : e < d}
  <2>1. B \in SUBSET Semd /\ (s_next[d] # NULL => s_next[d] \in B)
        /\ \A e \in B : s_next[e] # NULL => s_next[e] \in B
    BY <1>1
  <2>2. d \notin B
    OBVIOUS
  <2> HIDE DEF B
  <2>3. Along(s_next[d], s_next) \subseteq B
    BY <2>1, AlongLeast
  <2> QED BY <2>2, <2>3
<1>4. ASSUME F \ Along(semdFree_h, s_next) # {} PROVE FALSE
  <2> DEFINE L == Along(semdFree_h, s_next)
             T == {k \in Nat : k < MAXSEMS /\ MAXSEMS - 1 - k \notin L}
  <2>1. PICK d \in F : d \notin L
    BY <1>4
  <2>2. MAXSEMS - 1 - d \in T
    BY <2>1
  <2>3. PICK k \in T : \A i \in T : k <= i
    <3>1. T \in SUBSET Nat /\ T # {}
      BY <2>2
    <3> HIDE DEF T
    <3> QED BY <3>1, LeastElement
  <2>4. semdFree_h \in SemdPtr /\ semdFree_h = MAXSEMS - 1 /\ semdFree_h # NULL
    BY <1>1, <2>1 DEF SemdPtr
  <2>5. /\ MAXSEMS - 1 \in L
        /\ \A n \in L : s_next[n] \in SemdPtr /\ s_next[n] # NULL => s_next[n] \in L
    BY <2>4, AlongClosed
  <2> HIDE DEF L
  <2>6. k # 0 /\ k - 1 \notin T /\ k \in Nat /\ k < MAXSEMS
    BY <2>3, <2>5
  <2> DEFINE e == MAXSEMS - 1 - k
  <2>7. e + 1 \in L /\ e \notin L /\ e \in Nat /\ e + 1 < MAXSEMS
    BY <2>3, <2>6
  <2>8. e + 1 \in F /\ e \in Semd
    BY <2>7
  <2>9. s_next[e + 1] = e /\ e \in SemdPtr /\ e # NULL
    BY <1>1, <2>7, <2>8 DEF SemdPtr
  <2> QED BY <2>5, <2>7, <2>9
<1> QED BY <1>2, <1>3, <1>4

LEMMA ListInit ==
  ASSUME ASLInit
  PROVE  ListInv
<1>1. /\ semdFree_h = IF MAXSEMS = 0 THEN NULL ELSE MAXSEMS - 1
      /\ s_next = [d \in Semd |-> CASE d = semd_h -> LastSemd
                                    [] d \in {0, LastSemd} \ {semd_h} -> NULL
                                    [] OTHER -> d - 1]
      /\ s_semAdd = [d \in Semd |-> IF d = LastSemd THEN MAXINT ELSE 0]
      /\ s_procQ = [d \in Semd |-> <<>>]
      /\ p_semAdd = [p \in Proc |-> NullAdd] /\ aslRet = NULL
  BY DEF ASLInit
<1>2. /\ s_next[semd_h] = LastSemd /\ s_next[LastSemd] = NULL
      /\ \A d \in Semd : s_next[d] \in SemdPtr
  BY <1>1, SemdAssumption DEF SemdPtr, Semd, semd_h, LastSemd
<1>3. s_next \in [Semd -> SemdPtr]
  BY <1>1, <1>2
<1>4. /\ semdFree_h \in SemdPtr /\ s_semAdd \in [Semd -> 0..MAXINT]
      /\ s_procQ \in [Semd -> Seq(Proc)]
  BY <1>1, SemdAssumption, AddressAssumption DEF SemdPtr, Semd
<1>5. ASLTypeOK
  BY <1>1, <1>3, <1>4 DEF ASLTypeOK
<1>6. Used = {} /\ Active = {semd_h, LastSemd}
  BY <1>1 DEF Used, Active
<1>7. SortedInv
  <2>1. /\ s_semAdd[semd_h] = 0 /\ s_semAdd[LastSemd] = MAXINT /\ 0 < MAXINT /\ 0 # MAXINT
        /\ s_procQ[semd_h] = <<>> /\ s_procQ[LastSemd] = <<>>
    BY <1>1, SemdFacts
  <2>2. Follows(semd_h, LastSemd)
    <3>1. \A x \in Active : s_semAdd[x] <= 0 \/ s_semAdd[x] >= MAXINT
      BY <1>6, <2>1, SemdFacts
    <3> QED BY <1>6, <2>1, <3>1 DEF Follows
  <2>3. \A d, e \in Active : s_semAdd[d] = s_semAdd[e] => d = e
    BY <1>6, <2>1
  <2> QED BY <1>2, <1>6, <2>1, <2>2, <2>3 DEF SortedInv
<1>8. WaitInv
  BY <1>1 DEF WaitInv, IsInjective, ToSet
<1>9. FreeInv
  <2>1. Spare = {d \in Semd : d < MAXSEMS}
    BY <1>6, SemdAssumption DEF Spare, Semd, semd_h, LastSemd
  <2> QED BY <2>1, FreeAtFirst DEF FreeInv, FreeList
<1> QED BY <1>5, <1>7, <1>8, <1>9 DEF ListInv

LEMMA ListCorrect == ASLSpec => []ListInv
BY ListInit, ListStep, PTL DEF ASLSpec

\* After any operations every descriptor is on one of the two lists, on the
\* active one just when somebody waits at it, and that one ascends.
THEOREM DescriptorsSound == ASLSpec => []DescriptorInv
<1>1. ListInv => DescriptorInv
  <2> SUFFICES ASSUME ListInv PROVE DescriptorInv
    OBVIOUS
  <2>1. ActiveList = Active /\ FreeList = Spare /\ ASLTypeOK /\ SortedInv /\ WaitInv
    BY ActiveIs DEF ListInv, FreeInv
  <2>2. Active \subseteq Semd /\ Active \cup Spare = Semd /\ Active \cap Spare = {}
    BY SemdFacts DEF Active, Used, Spare
  <2>3. \A d \in Semd \ {semd_h, LastSemd} : d \in Active <=> s_procQ[d] # <<>>
    BY DEF Active, Used
  <2>4. \A d \in Active \ {LastSemd} : s_semAdd[d] < s_semAdd[s_next[d]]
    BY <2>1 DEF SortedInv, Follows
  <2> QED BY <2>1, <2>2, <2>3, <2>4 DEF DescriptorInv, WaitInv, Active
<1> QED BY <1>1, ListCorrect, PTL
-----------------------------------------------------------------------------
(***************************************************************************)
(* The refinement.  QueueOf is a map from semaphores to queues, of which   *)
(* an operation on a changes a's.                                          *)
(***************************************************************************)
LEMMA QueueIs ==
  ASSUME ListInv, NEW a \in SemAdd
  PROVE  /\ \A d \in Used : s_semAdd[d] = a => QueueOf(a) = s_procQ[d]
         /\ (\A d \in Used : s_semAdd[d] # a) => QueueOf(a) = <<>>
<1> DEFINE at == {d \in ActiveList \ {semd_h, LastSemd} : s_semAdd[d] = a}
<1>1. ActiveList \ {semd_h, LastSemd} = Used /\ SortedInv
  BY ActiveIs DEF ListInv, SortedInv, Active, Used
<1>2. at = {d \in Used : s_semAdd[d] = a}
  BY <1>1
<1>3. QueueOf(a) = IF at = {} THEN <<>> ELSE s_procQ[CHOOSE d \in at : TRUE]
  BY DEF QueueOf
<1>4. \A d \in at : \A e \in at : d = e
  BY <1>1, <1>2 DEF SortedInv, Active
<1>5. at # {} => (CHOOSE d \in at : TRUE) \in at
  OBVIOUS
<1> HIDE DEF at
<1>6. ASSUME NEW d \in at PROVE QueueOf(a) = s_procQ[d]
  BY <1>3, <1>4, <1>5
<1>7. at = {} => QueueOf(a) = <<>>
  BY <1>3
<1> QED BY <1>2, <1>6, <1>7

QueueFacts ==
  \A a \in SemAdd :
    /\ \A d \in Used : s_semAdd[d] = a => QueueOf(a) = s_procQ[d]
    /\ (\A d \in Used : s_semAdd[d] # a) => QueueOf(a) = <<>>

LEMMA QueueAfter == ListInv' => QueueFacts'
<1>1. ListInv => QueueFacts
  BY QueueIs DEF QueueFacts
<1> QED BY <1>1, PTL

\* The abstract view by the search for a.
LEMMA QueueFound ==
  ASSUME ListInv, NEW a \in SemAdd
  PROVE  /\ Found(a) => /\ queues[a] = s_procQ[Target(a)] /\ queues[a] # <<>>
                        /\ queues[a] \in Seq(Proc)
         /\ ~Found(a) => queues[a] = <<>>
         /\ a \in Blocked!Active <=> Found(a)
<1>1. Found(a) => Target(a) \in Used /\ s_semAdd[Target(a)] = a
  BY FoundIs
<1>2. ~Found(a) => \A d \in Used : s_semAdd[d] # a
  BY FoundIs DEF Active
<1>3. /\ Found(a) => QueueOf(a) = s_procQ[Target(a)]
      /\ ~Found(a) => QueueOf(a) = <<>>
  BY <1>1, <1>2, QueueIs
<1>4. Found(a) => s_procQ[Target(a)] # <<>> /\ s_procQ[Target(a)] \in Seq(Proc)
  BY <1>1 DEF Used, ListInv, ASLTypeOK
<1>5. a \in Blocked!Active <=> QueueOf(a) # <<>>
  BY DEF Blocked!Active, queues
<1> QED BY <1>3, <1>4, <1>5 DEF queues

\* An operation on a.
LEMMA QueueStep ==
  ASSUME ListInv, ListInv', NEW a \in SemAdd, NEW q, NEW t \in Semd,
         \A d \in Semd \ {t} : s_procQ'[d] = s_procQ[d] /\ s_semAdd'[d] = s_semAdd[d],
         t \in Used => s_semAdd[t] = a,
         \A d \in Used \ {t} : s_semAdd[d] # a,
         s_procQ'[t] = q, s_semAdd'[t] = a
  PROVE  queues' = [queues EXCEPT ![a] = q]
<1>1. Used' \ {t} = Used \ {t}
  BY DEF Used
<1>2. ASSUME NEW b \in SemAdd, b # a PROVE QueueOf(b)' = QueueOf(b)
  <2>1. CASE \E d \in Used : s_semAdd[d] = b
    <3>1. PICK d \in Used : s_semAdd[d] = b
      BY <2>1
    <3>2. d # t /\ d \in Semd /\ d \in Used'
      BY <1>1, <1>2, <3>1 DEF Used
    <3>3. QueueOf(b) = s_procQ[d] /\ QueueOf(b)' = s_procQ'[d]
      <4>1. s_semAdd'[d] = b
        BY <3>1, <3>2
      <4>2. QueueOf(b)' = s_procQ'[d]
        BY <3>2, <4>1, QueueAfter DEF QueueFacts
      <4> QED BY <3>1, <4>2, QueueIs
    <3> QED BY <3>2, <3>3
  <2>2. CASE \A d \in Used : s_semAdd[d] # b
    <3>1. \A d \in Used' : s_semAdd'[d] # b
      BY <1>1, <1>2, <2>2 DEF Used
    <3>2. QueueOf(b)' = <<>>
      BY <3>1, QueueAfter DEF QueueFacts
    <3> QED BY <2>2, <3>2, QueueIs
  <2> QED BY <2>1, <2>2
<1>3. QueueOf(a)' = q
  <2>1. CASE q # <<>>
    <3>1. t \in Used'
      BY <2>1 DEF Used
    <3> QED BY <3>1, QueueAfter DEF QueueFacts
  <2>2. CASE q = <<>>
    <3>1. \A d \in Used' : s_semAdd'[d] # a
      BY <1>1, <2>2 DEF Used
    <3> QED BY <2>2, <3>1, QueueAfter DEF QueueFacts
  <2> QED BY <2>1, <2>2
<1>4. queues' = [b \in SemAdd |-> QueueOf(b)']
  BY DEF queues
<1>5. [queues EXCEPT ![a] = q] = [b \in SemAdd |-> IF b = a THEN q ELSE QueueOf(b)]
  BY DEF queues
<1> QED BY <1>2, <1>3, <1>4, <1>5

LEMMA QueuesSame ==
  ASSUME UNCHANGED <<aslLists, s_procQ>>
  PROVE  queues' = queues
BY DEF queues, QueueOf, ActiveList, aslLists

LEMMA BlockedIs ==
  ASSUME ListInv, NEW p \in Proc
  PROVE  /\ Blocked!Blocked(p) <=> \E d \in Semd : p \in ToSet(s_procQ[d])
         /\ Blocked!Blocked(p) =>
              /\ p_semAdd[p] \in SemAdd /\ Found(p_semAdd[p])
              /\ p \in ToSet(queues[p_semAdd[p]])
<1>1. ASSUME NEW d \in Semd, p \in ToSet(s_procQ[d])
      PROVE  /\ p_semAdd[p] \in SemAdd /\ Found(p_semAdd[p])
             /\ p \in ToSet(queues[p_semAdd[p]])
  BY <1>1, WaitsAt, QueueFound
<1>2. ASSUME NEW a \in SemAdd, p \in ToSet(queues[a])
      PROVE  \E d \in Semd : p \in ToSet(s_procQ[d])
  <2>1. Found(a)
    BY <1>2, QueueFound DEF ToSet
  <2>2. Target(a) \in Semd /\ p \in ToSet(s_procQ[Target(a)])
    BY <1>2, <2>1, QueueFound, FoundIs DEF Used
  <2> QED BY <2>2
<1>3. Blocked!Blocked(p) <=> \E a \in SemAdd : p \in ToSet(queues[a])
  BY DEF Blocked!Blocked, Blocked!ToSet, ToSet
<1> QED BY <1>1, <1>2, <1>3

LEMMA AppendEmpty ==
  ASSUME NEW p
  PROVE  Append(<<>>, p) = <<p>>
OBVIOUS

\* The instance of BlockedProcs has its own name for the count of a set.
LEMMA SameCardinality ==
  ASSUME NEW S
  PROVE  Blocked!Cardinality(S) = Cardinality(S)
BY DEF Blocked!Cardinality, Cardinality

\* There is no free descriptor exactly when MAXSEMS semaphores have a queue.
LEMMA Full ==
  ASSUME ListInv
  PROVE  Cardinality(Blocked!Active) = MAXSEMS <=> semdFree_h = NULL
<1> DEFINE All == 0..(MAXSEMS - 1)
           g == [d \in Used |-> s_semAdd[d]]
<1>1. IsFiniteSet(All) /\ Cardinality(All) = MAXSEMS
  BY FS_Interval, SemdAssumption
<1>2. Semd = All \cup {semd_h, LastSemd} /\ Used \subseteq All
  <2>1. Semd = All \cup {semd_h, LastSemd} /\ semd_h \notin All /\ LastSemd \notin All
    BY SemdAssumption DEF Semd, semd_h, LastSemd
  <2> QED BY <2>1 DEF Used, ListInv, SortedInv
<1> HIDE DEF All
<1>3. IsFiniteSet(Used) /\ (Cardinality(Used) = MAXSEMS <=> Used = All)
  BY <1>1, <1>2, FS_Subset
<1>4. Cardinality(Blocked!Active) = Cardinality(Used)
  <2>1. ASSUME NEW d \in Used PROVE s_semAdd[d] \in Blocked!Active
    <3>1. s_semAdd[d] \in SemAdd
      BY DEF ListInv, SortedInv
    <3> QED BY <3>1, FoundIs, QueueFound DEF Active
  <2>2. ASSUME NEW a \in Blocked!Active PROVE \E d \in Used : s_semAdd[d] = a
    <3>1. a \in SemAdd
      BY DEF Blocked!Active
    <3> QED BY <3>1, QueueFound, FoundIs
  <2>3. \A d, e \in Used : s_semAdd[d] = s_semAdd[e] => d = e
    BY DEF ListInv, SortedInv, Active
  <2>4. g \in [Used -> Blocked!Active]
    BY <2>1
  <2>5. \A d, e \in Used : g[d] = g[e] => d = e
    BY <2>3
  <2>6. \A a \in Blocked!Active : \E d \in Used : g[d] = a
    BY <2>2
  <2> HIDE DEF g
  <2>7. g \in Bijection(Used, Blocked!Active)
    BY <2>4, <2>5, <2>6 DEF Bijection, Injection, Surjection, IsInjective
  <2> QED BY <1>3, <2>7, FS_Bijection DEF ExistsBijection
<1>5. Used = All <=> semdFree_h = NULL
  <2>1. Used = All <=> Spare = {}
    <3>1. semd_h \notin Used /\ LastSemd \notin Used
      BY DEF Used, ListInv, SortedInv
    <3>2. semd_h \notin All /\ LastSemd \notin All
      BY SemdAssumption DEF All, semd_h, LastSemd
    <3> QED BY <1>2, <3>1, <3>2 DEF Spare, Active
  <2>2. FreeList = Spare /\ semdFree_h \in SemdPtr
    BY DEF ListInv, FreeInv, ASLTypeOK
  <2>3. semdFree_h # NULL => FreeList # {}
    BY <2>2, AlongClosed DEF FreeList
  <2>4. semdFree_h = NULL => FreeList = {}
    <3> DEFINE S == {}
    <3>1. S \in SUBSET Semd /\ \A n \in S : s_next[n] # NULL => s_next[n] \in S
      OBVIOUS
    <3> HIDE DEF S
    <3>2. semdFree_h = NULL => Along(semdFree_h, s_next) \subseteq S
      BY <3>1, AlongLeast
    <3> QED BY <3>2 DEF FreeList, S
  <2> QED BY <2>1, <2>2, <2>3, <2>4
<1> QED BY <1>3, <1>4, <1>5

LEMMA InsertBlockedIs ==
  ASSUME ListInv, ListInv', NEW a \in SemAdd, NEW p \in Proc, InsertBlocked(a, p)
  PROVE  Blocked!InsertBlocked(a, p)
<1>1. ~Blocked!Blocked(p)
  BY BlockedIs DEF InsertBlocked, NotBlocked
<1>2. ASLTypeOK /\ ASLTypeOK'
  BY DEF ListInv
<1>3. CASE Found(a)
  <2>1. /\ UNCHANGED aslLists /\ s_procQ' = [s_procQ EXCEPT ![Target(a)] = Append(@, p)]
        /\ p_semAdd' = [p_semAdd EXCEPT ![p] = a] /\ aslRet' = "FALSE"
    BY <1>3 DEF InsertBlocked
  <2>2. /\ Target(a) \in Used /\ Target(a) \in Semd /\ s_semAdd[Target(a)] = a
        /\ \A d \in Used \ {Target(a)} : s_semAdd[d] # a
    BY <1>3, FoundIs DEF Used, Active
  <2>3. queues' = [queues EXCEPT ![a] = Append(s_procQ[Target(a)], p)]
    BY <1>2, <2>1, <2>2, QueueStep DEF aslLists, ASLTypeOK
  <2>4. queues' = [queues EXCEPT ![a] = Append(@, p)] /\ a \in Blocked!Active
    BY <1>3, <2>3, QueueFound
  <2> QED BY <1>1, <2>1, <2>4 DEF Blocked!InsertBlocked
<1>4. CASE ~Found(a) /\ semdFree_h # NULL
  <2>1. /\ s_semAdd' = [s_semAdd EXCEPT ![semdFree_h] = a]
        /\ s_procQ' = [s_procQ EXCEPT ![semdFree_h] = <<p>>]
        /\ p_semAdd' = [p_semAdd EXCEPT ![p] = a] /\ aslRet' = "FALSE"
    BY <1>4 DEF InsertBlocked
  <2>2. semdFree_h \in Semd /\ semdFree_h \notin Used
    <3>1. semdFree_h \in FreeList
      BY <1>2, <1>4, AlongClosed DEF FreeList, ASLTypeOK
    <3> QED BY <3>1 DEF ListInv, FreeInv, Spare, Active
  <2>3. \A d \in Used : s_semAdd[d] # a
    BY <1>4, FoundIs DEF Active
  <2>4. queues' = [queues EXCEPT ![a] = <<p>>]
    BY <1>2, <2>1, <2>2, <2>3, QueueStep DEF ASLTypeOK
  <2>5. Cardinality(Blocked!Active) # MAXSEMS /\ queues[a] = <<>>
    BY <1>4, QueueFound, Full
  <2>6. queues' = [queues EXCEPT ![a] = Append(@, p)]
    BY <2>4, <2>5, AppendEmpty
  <2> QED BY <1>1, <2>1, <2>5, <2>6, SameCardinality DEF Blocked!InsertBlocked
<1>5. CASE ~Found(a) /\ semdFree_h = NULL
  <2>1. aslRet' = "TRUE" /\ queues' = queues /\ p_semAdd' = p_semAdd
    BY <1>5, QueuesSame DEF InsertBlocked
  <2>2. a \notin Blocked!Active /\ Cardinality(Blocked!Active) = MAXSEMS
    BY <1>5, QueueFound, Full
  <2> QED BY <1>1, <2>1, <2>2, SameCardinality DEF Blocked!InsertBlocked
<1> QED BY <1>3, <1>4, <1>5

\* SetQueue, as the map sees it.
LEMMA SetQueueIs ==
  ASSUME ListInv, ListInv', NEW a \in SemAdd, Found(a), NEW q \in Seq(Proc), SetQueue(a, q)
  PROVE  queues' = [queues EXCEPT ![a] = q]
<1>1. /\ s_procQ' = [s_procQ EXCEPT ![Target(a)] = q] /\ s_semAdd' = s_semAdd
      /\ s_procQ \in [Semd -> Seq(Proc)]
  BY SetQueueType DEF ListInv, ASLTypeOK
<1>2. /\ Target(a) \in Used /\ Target(a) \in Semd /\ s_semAdd[Target(a)] = a
      /\ \A d \in Used \ {Target(a)} : s_semAdd[d] # a
  BY FoundIs DEF Used, Active
<1> QED BY <1>1, <1>2, QueueStep

LEMMA RemoveBlockedIs ==
  ASSUME ListInv, ListInv', NEW a \in SemAdd, RemoveBlocked(a)
  PROVE  Blocked!RemoveBlocked(a)
<1>1. CASE Found(a)
  <2>1. /\ aslRet' = Head(queues[a]) /\ SetQueue(a, Tail(queues[a])) /\ p_semAdd' = p_semAdd
        /\ queues[a] # <<>> /\ queues[a] \in Seq(Proc) /\ a \in Blocked!Active
    BY <1>1, QueueFound DEF RemoveBlocked
  <2>2. queues' = [queues EXCEPT ![a] = Tail(queues[a])]
    BY <1>1, <2>1, TailQueue, SetQueueIs
  <2>3. queues' = [queues EXCEPT ![a] = IF @ = <<>> THEN @ ELSE Tail(@)]
    BY <2>1, <2>2
  <2> QED BY <2>1, <2>3 DEF Blocked!RemoveBlocked
<1>2. CASE ~Found(a)
  <2>1. /\ aslRet' = NULL /\ queues' = queues /\ p_semAdd' = p_semAdd
        /\ queues[a] = <<>> /\ a \notin Blocked!Active
    BY <1>2, QueueFound, QueuesSame DEF RemoveBlocked
  <2>2. queues' = [queues EXCEPT ![a] = IF @ = <<>> THEN @ ELSE Tail(@)]
    BY <2>1 DEF queues
  <2> QED BY <2>1, <2>2 DEF Blocked!RemoveBlocked
<1> QED BY <1>1, <1>2

LEMMA HeadBlockedIs ==
  ASSUME ListInv, NEW a \in SemAdd, HeadBlocked(a)
  PROVE  Blocked!HeadBlocked(a)
<1>1. /\ aslRet' = IF Found(a) THEN Head(s_procQ[Target(a)]) ELSE NULL
      /\ queues' = queues /\ p_semAdd' = p_semAdd
  BY QueuesSame DEF HeadBlocked
<1>2. aslRet' = IF a \in Blocked!Active THEN Head(queues[a]) ELSE NULL
  BY <1>1, QueueFound
<1> QED BY <1>1, <1>2 DEF Blocked!HeadBlocked

LEMMA OutBlockedIs ==
  ASSUME ListInv, ListInv', NEW p \in Proc, OutBlocked(p)
  PROVE  Blocked!OutBlocked(p) \/ WrongAnswer(p) \/ NeverBlockedTraps(p)
<1> DEFINE a == p_semAdd[p]
           q == s_procQ[Target(a)]
<1>0. a \in SemAdd \cup {NullAdd} /\ p_semAdd' = p_semAdd
  BY DEF ListInv, ASLTypeOK, OutBlocked
<1>1. SearchTraps(a) <=> a = NullAdd
  BY <1>0, Search, FoundIs, SemdFacts DEF SearchTraps
<1>2. CASE SearchTraps(a) /\ aslRet' = "trap" /\ UNCHANGED <<aslLists, s_procQ>>
  <2>1. queues' = queues /\ a = NullAdd
    BY <1>1, <1>2, QueuesSame
  <2> QED BY <1>0, <1>2, <2>1 DEF NeverBlockedTraps
<1>3. ASSUME Found(a), NEW i \in DOMAIN q, q[i] = p, SetQueue(a, RemoveAt(q, i)),
             aslRet' = OutAnswer(q, p)
      PROVE  Blocked!OutBlocked(p) \/ WrongAnswer(p)
  <2>1. a \in SemAdd /\ a # NullAdd
    BY <1>0, <1>1, <1>3, SemdFacts DEF Found
  <2>2. q \in Seq(Proc) /\ q = queues[a] /\ Target(a) \in Semd
    BY <1>3, <2>1, QueueFound, FoundIs DEF Used
  <2>2a. \A m, n \in 1..Len(q) : q[m] = q[n] => m = n
    <3>1. IsInjective(q)
      BY <2>2 DEF ListInv, WaitInv
    <3> QED BY <2>2, <3>1, ToSetDef
  <2>3. i \in 1..Len(q)
    BY <1>3, <2>2
  <2>4. p \in ToSet(q)
    BY <1>3, <2>2, <2>3, ToSetDef
  <2>5. Blocked!Blocked(p)
    BY <2>2, <2>4, BlockedIs
  <2>6. RemoveAt(q, i) \in Seq(Proc)
    BY <2>2, <2>3, RemoveAtQueue
  <2>7. queues' = [queues EXCEPT ![a] = RemoveAt(q, i)]
    BY <1>3, <2>1, <2>6, SetQueueIs
  <2> HIDE DEF a, q
  <2>8. queues' = [queues EXCEPT ![a] = RemoveAt(@, i)]
    BY <2>1, <2>2, <2>7
  <2>9. i \in DOMAIN queues[a] /\ queues[a][i] = p
    BY <1>3, <2>2
  <2>10. CASE aslRet' = p
    BY <1>0, <2>1, <2>5, <2>8, <2>9, <2>10
       DEF Blocked!OutBlocked, Blocked!RemoveAt, RemoveAt, a
  <2>11. CASE aslRet' # p
    <3>1. Len(q) > 1 /\ Last(q) = p /\ aslRet' = q[Len(q) - 1]
      BY <1>3, <2>11 DEF OutAnswer
    <3>2. i = Len(q)
      <4>1. Len(q) \in 1..Len(q) /\ q[Len(q)] = q[i]
        BY <1>3, <2>2, <3>1 DEF Last
      <4> QED BY <2>2a, <2>3, <4>1
    <3>3. RemoveAt(q, Len(q)) = Front(q) /\ Last(Front(q)) = q[Len(q) - 1]
      BY <2>2, <3>1, RemoveLast
    <3>4. queues' = [queues EXCEPT ![a] = Front(@)]
      BY <2>1, <2>2, <2>7, <3>2, <3>3
    <3> QED BY <1>0, <2>1, <2>2, <3>1, <3>3, <3>4 DEF WrongAnswer, a
  <2> QED BY <2>10, <2>11
<1>4. CASE /\ ~SearchTraps(a) /\ (Found(a) => p \notin ToSet(q))
           /\ aslRet' = NULL /\ UNCHANGED <<aslLists, s_procQ>>
  <2>1. a \in SemAdd /\ a # NullAdd
    BY <1>0, <1>1, <1>4
  <2>2. ~Blocked!Blocked(p)
    BY <1>4, <2>1, BlockedIs, QueueFound
  <2>3. queues' = queues
    BY <1>4, QueuesSame
  <2> QED BY <1>0, <1>4, <2>1, <2>2, <2>3 DEF Blocked!OutBlocked
<1> QED BY <1>2, <1>3, <1>4 DEF OutBlocked

LEMMA BlockedStep ==
  ASSUME ListInv, ListInv', [ASLNext]_aslVars
  PROVE  [\/ Blocked!Next
          \/ \E p \in Proc : WrongAnswer(p) \/ NeverBlockedTraps(p)
         ]_<<queues, p_semAdd, aslRet>>
<1>1. ASSUME NEW p \in Proc, ReusePcb(p) PROVE Blocked!ReusePcb(p)
  <2>1. /\ ~Blocked!Blocked(p) /\ queues' = queues
        /\ p_semAdd' = [p_semAdd EXCEPT ![p] = NullAdd] /\ aslRet' = NULL
    BY <1>1, BlockedIs, QueuesSame DEF ReusePcb, NotBlocked
  <2> QED BY <2>1 DEF Blocked!ReusePcb
<1>2. CASE UNCHANGED aslVars
  <2>1. queues' = queues /\ p_semAdd' = p_semAdd /\ aslRet' = aslRet
    BY <1>2, QueuesSame DEF aslVars, aslLists
  <2> QED BY <2>1
<1> QED BY <1>1, <1>2, InsertBlockedIs, RemoveBlockedIs, HeadBlockedIs, OutBlockedIs
        DEF ASLNext, Blocked!Next

\* The active semaphore list is the map from semaphores to queues that the
\* nucleus takes it for, and is full when MAXSEMS semaphores have one; only
\* outBlocked (asl.c, 152 to 180) answers wrongly when it takes a tail off a
\* longer queue, and traps for a process that never blocked.
THEOREM BlockedImplemented == ASLSpec => ImplementsBlocked
<1>1. ASLInit => ListInv /\ Blocked!Init
  <2> SUFFICES ASSUME ASLInit PROVE ListInv /\ Blocked!Init
    OBVIOUS
  <2>1. ListInv
    BY ListInit
  <2>2. Used = {} /\ p_semAdd = [p \in Proc |-> NullAdd] /\ aslRet = NULL
    BY DEF ASLInit, Used
  <2>3. \A a \in SemAdd : QueueOf(a) = <<>>
    BY <2>1, <2>2, QueueIs
  <2> QED BY <2>1, <2>2, <2>3 DEF Blocked!Init, queues
<1>2. ListInv /\ [ASLNext]_aslVars => ListInv'
  BY ListStep
<1>3. ListInv /\ ListInv' /\ [ASLNext]_aslVars =>
        [\/ Blocked!Next
         \/ \E p \in Proc : WrongAnswer(p) \/ NeverBlockedTraps(p)
        ]_<<queues, p_semAdd, aslRet>>
  BY BlockedStep
<1> QED BY <1>1, <1>2, <1>3, PTL DEF ASLSpec, ImplementsBlocked
============================================================================
