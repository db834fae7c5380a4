---------------------------- MODULE ProcTreeProofs ----------------------------
(***************************************************************************)
(* The pointer structure of the process tree is sound for any set of PCBs. *)
(* SiblingInv is inductive as it stands: every operation relinks only      *)
(* neighbours, and SiblingInv says of every PCB how it sits between its    *)
(* neighbours.                                                             *)
(***************************************************************************)
EXTENDS ProcTree, QueueLemmas

\* What SiblingInv says of a single PCB.
LinksOK(p) ==
  /\ p_child[p] # NULL => p_prnt[p_child[p]] = p
  /\ p_prnt[p] = NULL => p_old[p] = NULL /\ p_yng[p] = NULL
  /\ p_prnt[p] # NULL => (p_child[p_prnt[p]] = p <=> p_yng[p] = NULL)
  /\ p_old[p] # NULL =>
       p_yng[p_old[p]] = p /\ p_prnt[p_old[p]] = p_prnt[p]
  /\ p_yng[p] # NULL =>
       p_old[p_yng[p]] = p /\ p_prnt[p_yng[p]] = p_prnt[p]

\* The types, link by link.
LEMMA Types ==
  ASSUME TreeTypeOK
  PROVE  /\ p_prnt \in [Pcb -> Ptr] /\ p_child \in [Pcb -> Ptr]
         /\ p_old \in [Pcb -> Ptr] /\ p_yng \in [Pcb -> Ptr]
         /\ treeRet \in Ptr
  BY DEF TreeTypeOK

\* Setting a link where there is somebody to have it.
LEMMA SetLink ==
  ASSUME NEW link \in [Pcb -> Ptr], NEW p \in Ptr, NEW q \in Ptr
  PROVE  /\ Set(link, p, q) \in [Pcb -> Ptr]
         /\ \A r \in Pcb : Set(link, p, q)[r] = IF r = p THEN q ELSE link[r]
  BY NullAssumption DEF Set, Ptr

\* A new first child: its parent and the former first child are relinked.
LEMMA InsertChildSound ==
  ASSUME SiblingInv, NEW prnt \in Pcb, NEW p \in Pcb, InsertChild(prnt, p)
  PROVE  SiblingInv'
<1> USE NullAssumption DEF Ptr
<1>1. /\ p_prnt \in [Pcb -> Ptr] /\ p_child \in [Pcb -> Ptr]
      /\ p_old \in [Pcb -> Ptr] /\ p_yng \in [Pcb -> Ptr]
  BY Types DEF SiblingInv
<1>2. \A q \in Pcb : LinksOK(q)
  BY DEF SiblingInv, LinksOK
<1> DEFINE first == p_child[prnt]
<1>3. /\ p # prnt /\ p_prnt[p] = NULL /\ p_child[p] = NULL
      /\ first \in Ptr /\ first # p
      /\ p_prnt' = [p_prnt EXCEPT ![p] = prnt]
      /\ p_old' = [p_old EXCEPT ![p] = first]
      /\ p_child' = [p_child EXCEPT ![prnt] = p]
      /\ treeRet' = NULL
  BY <1>1, <1>2 DEF InsertChild, LinksOK
<1>4. /\ p_yng' \in [Pcb -> Ptr]
      /\ \A q \in Pcb : p_yng'[q] = IF q = first THEN p
                                    ELSE IF q = p THEN NULL ELSE p_yng[q]
  <2> DEFINE cleared == [p_yng EXCEPT ![p] = NULL]
  <2>1. cleared \in [Pcb -> Ptr] /\ p_yng' = Set(cleared, first, p)
    BY <1>1 DEF InsertChild
  <2>2. \A q \in Pcb : cleared[q] = IF q = p THEN NULL ELSE p_yng[q]
    BY <1>1
  <2> HIDE DEF cleared, first
  <2>3. /\ Set(cleared, first, p) \in [Pcb -> Ptr]
        /\ \A q \in Pcb :
             Set(cleared, first, p)[q] = IF q = first THEN p ELSE cleared[q]
    BY <1>3, <2>1, SetLink
  <2> QED BY <2>1, <2>2, <2>3
<1>5. TreeTypeOK'
  BY <1>1, <1>3, <1>4 DEF TreeTypeOK
<1>6. ASSUME NEW q \in Pcb PROVE LinksOK(q)'
  <2>1. /\ LinksOK(q) /\ LinksOK(p) /\ LinksOK(prnt)
        /\ first # NULL => LinksOK(first)
    BY <1>1, <1>2, <1>3
  <2>2. \A r \in Pcb : p_child[r] # p /\ p_old[r] # p /\ p_yng[r] # p
    BY <1>1, <1>2, <1>3 DEF LinksOK
  <2>3. \A r \in Pcb : p_child[r] # NULL => p_prnt[p_child[r]] = r
    BY <1>2 DEF LinksOK
  <2> HIDE DEF first
  <2> QED BY <1>1, <1>3, <1>4, <2>1, <2>2, <2>3 DEF LinksOK, first
<1> QED BY <1>5, <1>6 DEF SiblingInv, LinksOK

\* The first child leaves.
LEMMA OutFirstSound ==
  ASSUME SiblingInv, NEW p \in Pcb, HasParent(p), OutFirst(p),
         p_prnt' = [p_prnt EXCEPT ![p] = NULL], treeRet' \in Ptr
  PROVE  SiblingInv'
<1> USE NullAssumption DEF Ptr
<1>1. /\ p_prnt \in [Pcb -> Ptr] /\ p_child \in [Pcb -> Ptr]
      /\ p_old \in [Pcb -> Ptr] /\ p_yng \in [Pcb -> Ptr]
  BY Types DEF SiblingInv
<1>2. \A q \in Pcb : LinksOK(q)
  BY DEF SiblingInv, LinksOK
<1> DEFINE next == p_old[p]
<1> DEFINE prnt == p_prnt[p]
<1>3. /\ prnt \in Pcb /\ p_child[prnt] = p /\ p_yng[p] = NULL
      /\ next \in Ptr
      /\ p_child' = [p_child EXCEPT ![prnt] = next]
      /\ p_old' = [p_old EXCEPT ![p] = NULL]
  BY <1>1, <1>2 DEF OutFirst, HasParent, LinksOK
<1>4. /\ p_yng' \in [Pcb -> Ptr]
      /\ \A q \in Pcb :
           p_yng'[q] = IF q \in {p, next} THEN NULL ELSE p_yng[q]
  <2>1. p_yng' = [Set(p_yng, next, NULL) EXCEPT ![p] = NULL]
    BY DEF OutFirst
  <2> HIDE DEF next
  <2>2. /\ Set(p_yng, next, NULL) \in [Pcb -> Ptr]
        /\ \A q \in Pcb :
             Set(p_yng, next, NULL)[q] = IF q = next THEN NULL ELSE p_yng[q]
    BY <1>1, <1>3 DEF Set
  <2> QED BY <2>1, <2>2
<1>5. TreeTypeOK'
  <2> HIDE DEF next, prnt
  <2>1. p_child' \in [Pcb -> Ptr] /\ p_old' \in [Pcb -> Ptr]
    BY <1>1, <1>3
  <2>2. p_prnt' \in [Pcb -> Ptr]
    BY <1>1
  <2> QED BY <1>4, <2>1, <2>2 DEF TreeTypeOK
<1>6. ASSUME NEW q \in Pcb PROVE LinksOK(q)'
  <2>1. /\ LinksOK(q) /\ LinksOK(p) /\ LinksOK(prnt)
        /\ next # NULL => LinksOK(next)
    BY <1>1, <1>2, <1>3
  <2>2. next # NULL => /\ p_prnt[next] = prnt /\ p_yng[next] = p
                       /\ next # p
    BY <1>1, <1>3, <2>1 DEF LinksOK
  <2>3. \A r \in Pcb : /\ p_child[r] = p => r = prnt
                       /\ p_child[r] = next /\ next # NULL => r = prnt
                       /\ p_old[r] # p
                       /\ p_old[r] = next /\ next # NULL => r = p
                       /\ p_yng[r] = p => r = next
    BY <1>1, <1>2, <1>3, <2>2 DEF LinksOK
  <2> HIDE DEF next, prnt
  <2> QED BY <1>1, <1>3, <1>4, <2>1, <2>2, <2>3 DEF LinksOK
<1> QED BY <1>5, <1>6 DEF SiblingInv, LinksOK

\* Another child leaves: its two neighbours are linked to each other.
LEMMA OutOtherSound ==
  ASSUME SiblingInv, NEW p \in Pcb, HasParent(p), OutOther(p),
         p_prnt' = [p_prnt EXCEPT ![p] = NULL], treeRet' \in Ptr
  PROVE  SiblingInv'
<1> USE NullAssumption DEF Ptr
<1>1. /\ p_prnt \in [Pcb -> Ptr] /\ p_child \in [Pcb -> Ptr]
      /\ p_old \in [Pcb -> Ptr] /\ p_yng \in [Pcb -> Ptr]
  BY Types DEF SiblingInv
<1>2. \A q \in Pcb : LinksOK(q)
  BY DEF SiblingInv, LinksOK
<1> DEFINE old == p_old[p]
<1> DEFINE yng == p_yng[p]
<1>3. /\ p_prnt[p] \in Pcb /\ p_child[p_prnt[p]] # p
      /\ old \in Ptr /\ yng \in Pcb /\ yng # p /\ old # p
      /\ p_old[yng] = p /\ p_prnt[yng] = p_prnt[p]
      /\ old # NULL => p_yng[old] = p /\ p_prnt[old] = p_prnt[p]
  BY <1>1, <1>2 DEF OutOther, HasParent, LinksOK
<1>4. /\ p_child' = p_child
      /\ p_old' = [q \in Pcb |-> IF q = p THEN NULL
                                  ELSE IF q = yng THEN old ELSE p_old[q]]
      /\ p_yng' = [q \in Pcb |-> IF q = p THEN NULL
                                  ELSE IF q = old THEN yng ELSE p_yng[q]]
  BY <1>1, <1>3 DEF OutOther, Set
<1>5. TreeTypeOK'
  BY <1>1, <1>3, <1>4 DEF TreeTypeOK
<1>6. ASSUME NEW q \in Pcb PROVE LinksOK(q)'
  <2>1. LinksOK(q) /\ LinksOK(p) /\ LinksOK(yng)
    BY <1>2, <1>3
  <2>2. \A r \in Pcb : /\ p_child[r] # p
                       /\ p_old[r] = p => r = yng
                       /\ p_old[r] = old /\ old # NULL => r = p
                       /\ p_yng[r] = p => r = old
                       /\ p_yng[r] = yng => r = p
    BY <1>1, <1>2, <1>3 DEF LinksOK
  <2> HIDE DEF old, yng
  <2> QED BY <1>1, <1>3, <1>4, <2>1, <2>2 DEF LinksOK
<1> QED BY <1>5, <1>6 DEF SiblingInv, LinksOK

LEMMA OutChildSound ==
  ASSUME SiblingInv, NEW p \in Pcb, OutChild(p)
  PROVE  SiblingInv'
<1>1. CASE ~ HasParent(p)
  <2>1. UNCHANGED treeLinks /\ treeRet' = NULL
    BY <1>1 DEF OutChild
  <2> QED BY <2>1 DEF SiblingInv, TreeTypeOK, Ptr, treeLinks
<1>2. CASE HasParent(p)
  <2>1. /\ OutFirst(p) \/ OutOther(p)
        /\ p_prnt' = [p_prnt EXCEPT ![p] = NULL] /\ treeRet' \in Ptr
    BY <1>2 DEF OutChild, Ptr
  <2> QED BY <1>2, <2>1, OutFirstSound, OutOtherSound
<1> QED BY <1>1, <1>2

\* After any sequence of operations the sibling lists and the parent links
\* agree, whatever the number of PCBs (pcb.c, 258 to 343).
THEOREM SiblingsSound == TreeSpec => []SiblingInv
<1>1. TreeInit => SiblingInv
  BY NullAssumption DEF TreeInit, SiblingInv, TreeTypeOK, Ptr
<1>2. SiblingInv /\ [TreeNext]_treeVars => SiblingInv'
  <2> SUFFICES ASSUME SiblingInv, [TreeNext]_treeVars PROVE SiblingInv'
    OBVIOUS
  <2>1. ASSUME NEW p \in Pcb, OutChild(p) PROVE SiblingInv'
    BY <2>1, OutChildSound
  <2>2. ASSUME NEW p \in Pcb, RemoveChild(p) PROVE SiblingInv'
    <3>1. CASE p_child[p] = NULL
      <4>1. UNCHANGED treeLinks /\ treeRet' = NULL
        BY <2>2, <3>1 DEF RemoveChild
      <4> QED BY <4>1 DEF SiblingInv, TreeTypeOK, Ptr, treeLinks
    <3>2. CASE p_child[p] # NULL
      <4>1. p_child[p] \in Pcb /\ OutChild(p_child[p])
        BY <2>2, <3>2, Types DEF RemoveChild, SiblingInv, Ptr
      <4> QED BY <4>1, OutChildSound
    <3> QED BY <3>1, <3>2
  <2>3. ASSUME NEW p \in Pcb, NEW prnt \in Pcb, InsertChild(prnt, p)
        PROVE  SiblingInv'
    BY <2>3, InsertChildSound
  <2>4. CASE UNCHANGED treeVars
    BY <2>4 DEF SiblingInv, TreeTypeOK, treeVars
  <2> QED BY <2>1, <2>2, <2>3, <2>4 DEF TreeNext
<1> QED BY <1>1, <1>2, PTL DEF TreeSpec
-----------------------------------------------------------------------------
(***************************************************************************)
(* The refinement.  The children of r are the sequence s: p_old leads from *)
(* p_child through s and to its end.                                       *)
(***************************************************************************)
InLine(r, s) ==
  /\ s \in Seq(Pcb) /\ IsInjective(s)
  /\ \A c \in Pcb : c \in ToSet(s) <=> p_prnt[c] = r
  /\ p_child[r] = IF s = <<>> THEN NULL ELSE s[1]
  /\ \A i \in 1..Len(s) : p_old[s[i]] = IF i = Len(s) THEN NULL ELSE s[i + 1]
Lines == \A r \in Pcb : \E s \in Seq(Pcb) : InLine(r, s)
ForestInv == SiblingInv /\ Lines

LEMMA FinitePcbs == IsFiniteSet(Pcb)
<1>1. 1 \in Int /\ MAXPROC \in Int
  BY SizeAssumption
<1> QED BY <1>1, FS_Interval DEF Pcb

\* The walk of ChildrenOf finds them.
LEMMA ChildrenAre ==
  ASSUME TreeTypeOK, NEW r \in Pcb, NEW s \in Seq(Pcb), InLine(r, s)
  PROVE  ChildrenOf(r) = s
<1> DEFINE N == Cardinality(Pcb)
           n == Len(s)
           walk == Walk(p_child[r], p_old, N)
           At(i) == IF i = n THEN NULL ELSE s[i + 1]
<1>1. N \in Nat /\ n \in Nat /\ n <= N
  <2>1. IsFiniteSet(Pcb) /\ ToSet(s) \in SUBSET Pcb /\ IsInjective(s)
    BY FinitePcbs, ToSetDef DEF InLine
  <2>2. Cardinality(ToSet(s)) = n /\ n \in Nat
    BY <2>1, InjectiveLength
  <2> QED BY <2>1, <2>2, FS_Subset, FS_CardinalityType
<1>2. /\ walk[0] = p_child[r]
      /\ \A i \in 1..N : walk[i] = On(walk[i - 1], p_old)
  BY <1>1, WalkIs
<1>3. /\ DOMAIN p_old = Pcb /\ NULL \notin Pcb
      /\ \A i \in 1..n : s[i] \in Pcb
      /\ s = <<>> <=> n = 0
  BY NullAssumption, Types
<1> HIDE DEF walk, N
<1>4. \A i \in 0..n : walk[i] = At(i)
  <2> DEFINE T == {i \in Nat : i <= n /\ walk[i] # At(i)}
  <2> SUFFICES ASSUME T # {} PROVE FALSE
    BY <1>1
  <2>1. PICK i \in T : \A j \in T : i <= j
    <3>1. T \in SUBSET Nat
      OBVIOUS
    <3> HIDE DEF T
    <3> QED BY <3>1, LeastElement
  <2>2. i # 0
    BY <1>2, <1>3, <2>1 DEF InLine
  <2>3. i \in 1..n /\ i - 1 \in Nat /\ i - 1 \notin T
    <3>1. i \in Nat /\ i <= n
      OBVIOUS
    <3> HIDE DEF T
    <3> QED BY <1>1, <2>1, <2>2, <3>1
  <2>4. walk[i - 1] = s[i]
    BY <1>1, <2>3
  <2>5. walk[i] = p_old[s[i]]
    BY <1>1, <1>2, <1>3, <2>3, <2>4 DEF On
  <2> QED BY <2>1, <2>3, <2>5 DEF InLine
<1> DEFINE ends == {i \in 0..N : walk[i] = NULL}
           len == CHOOSE i \in ends : \A j \in ends : i <= j
<1>5. n \in ends /\ \A j \in ends : n <= j
  <2>1. n \in ends
    BY <1>1, <1>4
  <2>2. ASSUME NEW j \in ends, j < n PROVE FALSE
    <3>1. j \in 0..n /\ j + 1 \in 1..n
      BY <1>1, <2>2
    <3>2. walk[j] = s[j + 1] /\ walk[j] = NULL
      BY <1>4, <2>2, <3>1
    <3> QED BY <1>3, <3>1, <3>2
  <2> QED BY <1>1, <2>1, <2>2
<1>6. ChildrenOf(r) = IF ends = {} THEN <<>> ELSE [i \in 1..len |-> walk[i - 1]]
  BY DEF ChildrenOf, walk, N
<1>7. ends \subseteq Int
  OBVIOUS
<1> HIDE DEF ends
<1>8. len = n
  <2>1. \E i \in ends : \A j \in ends : i <= j
    BY <1>5
  <2>2. len \in ends /\ \A j \in ends : len <= j
    BY <2>1
  <2> HIDE DEF len
  <2> QED BY <1>1, <1>5, <1>7, <2>2
<1> HIDE DEF len
<1>9. \A i \in 1..n : walk[i - 1] = s[i]
  BY <1>1, <1>4
<1>10. s = [i \in 1..n |-> s[i]]
  OBVIOUS
<1> QED BY <1>5, <1>6, <1>8, <1>9, <1>10

LineFacts ==
  \A r \in Pcb : \A s \in Seq(Pcb) : InLine(r, s) => ChildrenOf(r) = s

LEMMA ChildrenNext == TreeTypeOK' => LineFacts'
<1>1. TreeTypeOK => LineFacts
  BY ChildrenAre DEF LineFacts
<1> QED BY <1>1, PTL

\* The children of q stay as they are.
LEMMA LineKept ==
  ASSUME NEW q \in Pcb, NEW s \in Seq(Pcb), InLine(q, s), p_child'[q] = p_child[q],
         \A c \in Pcb : p_prnt'[c] = q <=> p_prnt[c] = q,
         \A c \in Pcb : p_prnt[c] = q => p_old'[c] = p_old[c]
  PROVE  InLine(q, s)'
<1>1. \A i \in 1..Len(s) : s[i] \in Pcb /\ s[i] \in ToSet(s)
  BY ToSetDef
<1>2. \A i \in 1..Len(s) : p_old'[s[i]] = p_old[s[i]]
  BY <1>1 DEF InLine
<1> QED BY <1>2 DEF InLine

\* The children of r become t.
LEMMA LineStep ==
  ASSUME TreeTypeOK, TreeTypeOK', Lines, NEW r \in Pcb, NEW t \in Seq(Pcb), InLine(r, t)',
         \A q \in Pcb \ {r} : \A s \in Seq(Pcb) : InLine(q, s) => InLine(q, s)'
  PROVE  Lines' /\ children' = [children EXCEPT ![r] = t]
<1>1. ASSUME NEW q \in Pcb, q # r
      PROVE  (\E s \in Seq(Pcb) : InLine(q, s)') /\ ChildrenOf(q)' = ChildrenOf(q)
  <2>1. PICK s \in Seq(Pcb) : InLine(q, s)
    BY DEF Lines
  <2>2. InLine(q, s)'
    BY <1>1, <2>1
  <2> QED BY <2>1, <2>2, ChildrenAre, ChildrenNext DEF LineFacts
<1>2. ChildrenOf(r)' = t
  BY ChildrenNext DEF LineFacts
<1>3. Lines'
  BY <1>1 DEF Lines
<1>4. children' = [q \in Pcb |-> ChildrenOf(q)']
  BY DEF children
<1>5. [children EXCEPT ![r] = t] = [q \in Pcb |-> IF q = r THEN t ELSE ChildrenOf(q)]
  BY DEF children
<1> QED BY <1>1, <1>2, <1>3, <1>4, <1>5

\* Nothing moves.
LEMMA LinksKept ==
  ASSUME UNCHANGED treeLinks
  PROVE  (Lines <=> Lines') /\ children' = children
<1>1. /\ p_prnt' = p_prnt /\ p_child' = p_child
      /\ p_old' = p_old
  BY DEF treeLinks
<1>2. ASSUME NEW r \in Pcb, NEW s \in Seq(Pcb) PROVE InLine(r, s)' <=> InLine(r, s)
  BY <1>1 DEF InLine
<1>3. Lines <=> Lines'
  BY <1>2 DEF Lines
<1>4. ASSUME NEW r \in Pcb PROVE ChildrenOf(r)' = ChildrenOf(r)
  BY <1>1 DEF ChildrenOf
<1> QED BY <1>3, <1>4 DEF children

\* Whose child a PCB is, in both views.
LEMMA OrphanIs ==
  ASSUME ForestInv, NEW p \in Pcb
  PROVE  /\ Forest!Orphan(p) <=> p_prnt[p] = NULL
         /\ \A r \in Pcb : /\ children[r] \in Seq(Pcb) /\ InLine(r, children[r])
                           /\ p_child[r] = NULL <=> children[r] = <<>>
                           /\ p_child[r] # NULL => Head(children[r]) = p_child[r]
<1>1. TreeTypeOK /\ p_prnt[p] \in Ptr
  BY Types DEF ForestInv, SiblingInv
<1>2. ASSUME NEW r \in Pcb
      PROVE  children[r] \in Seq(Pcb) /\ InLine(r, children[r])
  <2>1. PICK s \in Seq(Pcb) : InLine(r, s)
    BY DEF ForestInv, Lines
  <2>2. children[r] = s
    BY <1>1, <2>1, ChildrenAre DEF children
  <2> QED BY <2>1, <2>2
<1>3. ASSUME NEW r \in Pcb
      PROVE  /\ p_child[r] = NULL <=> children[r] = <<>>
             /\ p_child[r] # NULL => Head(children[r]) = p_child[r]
  <2>1. PICK s \in Seq(Pcb) : s = children[r] /\ InLine(r, s)
    BY <1>2
  <2>2. s # <<>> => s[1] \in Pcb /\ Head(s) = s[1]
    OBVIOUS
  <2> QED BY <2>1, <2>2, NullAssumption DEF InLine
<1>4. Forest!Orphan(p) <=> \A r \in Pcb : p \notin ToSet(children[r])
  BY DEF Forest!Orphan, Forest!ToSet, ToSet
<1>5. \A r \in Pcb : p \in ToSet(children[r]) <=> p_prnt[p] = r
  BY <1>2 DEF InLine
<1> QED BY <1>1, <1>2, <1>3, <1>4, <1>5, NullAssumption DEF Ptr

LEMMA InsertChildIs ==
  ASSUME ForestInv, SiblingInv', NEW prnt \in Pcb, NEW p \in Pcb, InsertChild(prnt, p)
  PROVE  Lines' /\ Forest!InsertChild(prnt, p)
<1>1. /\ TreeTypeOK /\ TreeTypeOK' /\ Lines
      /\ p_prnt \in [Pcb -> Ptr] /\ p_child \in [Pcb -> Ptr]
      /\ p_old \in [Pcb -> Ptr] /\ NULL \notin Pcb
  BY Types, NullAssumption DEF ForestInv, SiblingInv
<1>2. /\ p # prnt /\ p_prnt[p] = NULL /\ p_child[p] = NULL /\ treeRet' = NULL
      /\ p_prnt' = [p_prnt EXCEPT ![p] = prnt]
      /\ p_old' = [p_old EXCEPT ![p] = p_child[prnt]]
      /\ p_child' = [p_child EXCEPT ![prnt] = p]
  BY DEF InsertChild
<1>3. PICK s \in Seq(Pcb) : InLine(prnt, s)
  BY <1>1 DEF Lines
<1>4. PICK t \in Seq(Pcb) : t = <<p>> \o s
  <2>1. <<p>> \in Seq(Pcb)
    OBVIOUS
  <2> QED BY <2>1, ConcatQueue
<1>5. /\ Len(s) \in Nat /\ Len(t) = Len(s) + 1 /\ t[1] = p
      /\ \A i \in 1..Len(s) : t[i + 1] = s[i]
      /\ \A i \in 1..Len(t) : i # 1 => i - 1 \in 1..Len(s) /\ t[i] = s[i - 1]
  BY <1>4
<1>6. p \notin ToSet(s)
  BY <1>1, <1>2, <1>3 DEF InLine
<1>7. IsInjective(t) /\ ToSet(t) = {p} \cup ToSet(s)
  <2>1. PICK u \in Seq(Pcb) : u = <<p>>
    <3>1. <<p>> \in Seq(Pcb)
      OBVIOUS
    <3> QED BY <3>1, Zenon
  <2>2. ToSet(u) = {p} /\ IsInjective(u)
    BY <2>1 DEF ToSet, IsInjective
  <2>3. t = u \o s
    BY <1>4, <2>1
  <2>4. ToSet(u) \cap ToSet(s) = {} /\ IsInjective(s)
    BY <1>3, <1>6, <2>2 DEF InLine
  <2>5. IsInjective(u \o s) /\ ToSet(u \o s) = ToSet(u) \cup ToSet(s)
    BY <2>2, <2>4, ConcatQueue
  <2> QED BY <2>2, <2>3, <2>5
<1>8. InLine(prnt, t)'
  <2>1. \A c \in Pcb : c \in ToSet(t) <=> p_prnt'[c] = prnt
    BY <1>1, <1>2, <1>3, <1>7 DEF InLine
  <2>2. p_child'[prnt] = t[1] /\ t # <<>>
    BY <1>1, <1>2, <1>5
  <2>3. ASSUME NEW i \in 1..Len(t)
        PROVE  p_old'[t[i]] = IF i = Len(t) THEN NULL ELSE t[i + 1]
    <3>1. CASE i = 1
      <4>1. p_old'[p] = IF s = <<>> THEN NULL ELSE s[1]
        BY <1>1, <1>2, <1>3 DEF InLine
      <4>2. s = <<>> <=> Len(t) = 1
        BY <1>5
      <4> QED BY <1>5, <3>1, <4>1, <4>2
    <3>2. CASE i # 1
      <4>1. i - 1 \in 1..Len(s) /\ t[i] = s[i - 1] /\ s[i - 1] \in Pcb
        BY <1>5, <3>2
      <4>2. s[i - 1] # p
        BY <1>6, <4>1, ToSetDef
      <4>3. p_old'[t[i]] = p_old[s[i - 1]]
        BY <1>1, <1>2, <4>1, <4>2
      <4>4. p_old[s[i - 1]] = IF i - 1 = Len(s) THEN NULL ELSE s[i - 1 + 1]
        BY <1>3, <4>1 DEF InLine
      <4>5. i # Len(t) => t[i + 1] = s[i]
        BY <1>5, <4>1
      <4> QED BY <1>5, <4>3, <4>4, <4>5
    <3> QED BY <3>1, <3>2
  <2> QED BY <1>7, <2>1, <2>2, <2>3 DEF InLine
<1>9. ASSUME NEW q \in Pcb \ {prnt}, NEW u \in Seq(Pcb), InLine(q, u)
      PROVE  InLine(q, u)'
  <2>1. /\ p_child'[q] = p_child[q]
        /\ \A c \in Pcb : p_prnt'[c] = q <=> p_prnt[c] = q
        /\ \A c \in Pcb : p_prnt[c] = q => p_old'[c] = p_old[c]
    BY <1>1, <1>2
  <2> QED BY <1>9, <2>1, LineKept
<1>10. Lines' /\ children' = [children EXCEPT ![prnt] = t]
  BY <1>1, <1>8, <1>9, LineStep
<1>11. children[prnt] = s
  BY <1>1, <1>3, ChildrenAre DEF children
<1>12. children[p] = <<>> /\ Forest!Orphan(p)
  BY <1>2, OrphanIs
<1> QED BY <1>2, <1>4, <1>10, <1>11, <1>12 DEF Forest!InsertChild

\* A child leaves the list of its parent.
LEMMA OutIs ==
  ASSUME ForestInv, SiblingInv', NEW p \in Pcb, HasParent(p), OutFirst(p) \/ OutOther(p),
         p_prnt' = [p_prnt EXCEPT ![p] = NULL]
  PROVE  /\ Lines'
         /\ \E r \in Pcb : \E i \in DOMAIN children[r] :
              children[r][i] = p /\ children' = [children EXCEPT ![r] = RemoveAt(@, i)]
<1>1. /\ TreeTypeOK /\ TreeTypeOK' /\ Lines
      /\ p_prnt \in [Pcb -> Ptr] /\ p_child \in [Pcb -> Ptr]
      /\ p_old \in [Pcb -> Ptr] /\ p_yng \in [Pcb -> Ptr] /\ NULL \notin Pcb
  BY Types, NullAssumption DEF ForestInv, SiblingInv
<1>2. PICK r \in Pcb : r = p_prnt[p]
  BY <1>1 DEF HasParent, Ptr
<1>3. PICK s \in Seq(Pcb) : InLine(r, s)
  BY <1>1 DEF Lines
<1> DEFINE n == Len(s)
<1>4. /\ n \in Nat /\ \A i \in 1..n : s[i] \in Pcb /\ p_prnt[s[i]] = r
      /\ \A i, j \in 1..n : s[i] = s[j] => i = j
      /\ \A c \in Pcb : p_prnt[c] = r => \E i \in 1..n : s[i] = c
  BY <1>3, ToSetDef DEF InLine
<1>5. PICK k \in 1..n : s[k] = p
  BY <1>2, <1>4
<1>6. PICK t \in Seq(Pcb) : t = RemoveAt(s, k)
  BY RemoveAtIs
<1>7. /\ Len(t) = n - 1
      /\ \A i \in 1..Len(t) : t[i] = IF i < k THEN s[i] ELSE s[i + 1]
      /\ IsInjective(t) /\ ToSet(t) = ToSet(s) \ {p}
  BY <1>3, <1>5, <1>6, RemoveAtIs, RemoveAtQueue DEF InLine
<1>8. p_child[r] = s[1] /\ (p_child[r] = p <=> k = 1)
  <2>1. 1 \in 1..n
    BY <1>4, <1>5
  <2> QED BY <1>3, <1>4, <1>5, <2>1 DEF InLine
<1>9. p_old[p] = IF k = n THEN NULL ELSE s[k + 1]
  BY <1>3, <1>5 DEF InLine
<1>10. /\ p_child'[r] = IF k = 1 THEN p_old[p] ELSE p_child[r]
       /\ \A q \in Pcb \ {r} : p_child'[q] = p_child[q]
       /\ \A c \in Pcb \ {p} :
            p_old'[c] = IF k # 1 /\ c = s[k - 1] THEN p_old[p] ELSE p_old[c]
  <2>1. CASE OutFirst(p)
    <3>1. /\ p_child' = [p_child EXCEPT ![r] = p_old[p]] /\ k = 1
          /\ p_old' = [p_old EXCEPT ![p] = NULL] /\ r \in Pcb
      BY <1>1, <1>2, <1>8, <2>1 DEF OutFirst
    <3> QED BY <1>1, <3>1
  <2>2. CASE OutOther(p)
    <3>1. k # 1 /\ k - 1 \in 1..n
      BY <1>2, <1>4, <1>8, <2>2 DEF OutOther
    <3>2. p_old[s[k - 1]] = p
      BY <1>3, <1>4, <1>5, <3>1 DEF InLine
    <3>3. p_yng[p] = s[k - 1]
      BY <1>1, <1>4, <3>1, <3>2 DEF ForestInv, SiblingInv
    <3> QED BY <1>1, <2>2, <3>1, <3>3 DEF OutOther
  <2> QED BY <2>1, <2>2
<1>11. InLine(r, t)'
  <2>1. \A c \in Pcb : c \in ToSet(t) <=> p_prnt'[c] = r
    BY <1>1, <1>3, <1>7 DEF InLine
  <2>2. p_child'[r] = IF t = <<>> THEN NULL ELSE t[1]
    <3>1. t = <<>> <=> n = 1
      BY <1>4, <1>7
    <3>2. n # 1 => t[1] = IF k = 1 THEN s[2] ELSE s[1]
      BY <1>4, <1>5, <1>7
    <3>3. n = 1 => k = 1
      BY <1>4, <1>5
    <3>4. CASE k = 1
      <4>1. p_child'[r] = p_old[p]
        BY <1>10, <3>4
      <4>2. p_old[p] = IF n = 1 THEN NULL ELSE s[2]
        BY <1>9, <3>4
      <4> QED BY <3>1, <3>2, <3>4, <4>1, <4>2
    <3>5. CASE k # 1
      <4>1. p_child'[r] = s[1]
        BY <1>8, <1>10, <3>5
      <4> QED BY <3>1, <3>2, <3>3, <3>5, <4>1
    <3> QED BY <3>4, <3>5
  <2>3. ASSUME NEW i \in 1..Len(t)
        PROVE  p_old'[t[i]] = IF i = Len(t) THEN NULL ELSE t[i + 1]
    <3>1. CASE i < k
      <4>1. t[i] = s[i] /\ s[i] # p /\ i \in 1..n /\ s[i] \in Pcb
        BY <1>4, <1>5, <1>7, <3>1
      <4>2. CASE i = k - 1
        <5>1. p_old'[t[i]] = p_old[p]
          BY <1>4, <1>5, <1>10, <4>1, <4>2
        <5>2. i # Len(t) => t[i + 1] = s[k + 1]
          BY <1>4, <1>5, <1>7, <4>2
        <5> QED BY <1>4, <1>7, <1>9, <4>2, <5>1, <5>2
      <4>3. CASE i # k - 1
        <5>1. k # 1 => k - 1 \in 1..n /\ s[i] # s[k - 1]
          BY <1>4, <1>5, <4>1, <4>3
        <5>2. p_old'[t[i]] = p_old[s[i]]
          BY <1>10, <4>1, <5>1
        <5>3. p_old[s[i]] = IF i = n THEN NULL ELSE s[i + 1]
          BY <1>3, <4>1 DEF InLine
        <5>4. i + 1 < k /\ i + 1 \in 1..Len(t) /\ i # Len(t) /\ i # n
          BY <1>4, <1>5, <1>7, <3>1, <4>3
        <5>5. t[i + 1] = s[i + 1]
          BY <1>7, <5>4
        <5> QED BY <5>2, <5>3, <5>4, <5>5
      <4> QED BY <4>2, <4>3
    <3>2. CASE i >= k
      <4>1. t[i] = s[i + 1] /\ i + 1 \in 1..n /\ i + 1 # k /\ i + 1 # k - 1
        BY <1>4, <1>5, <1>7, <3>2
      <4>2. s[i + 1] \in Pcb /\ s[i + 1] # p /\ (k # 1 => s[i + 1] # s[k - 1])
        <5>1. k # 1 => k - 1 \in 1..n
          BY <1>4, <1>5
        <5> QED BY <1>4, <1>5, <4>1, <5>1
      <4>3. p_old'[t[i]] = p_old[s[i + 1]]
        BY <1>10, <4>1, <4>2
      <4>4. p_old[s[i + 1]] = IF i + 1 = n THEN NULL ELSE s[i + 1 + 1]
        BY <1>3, <4>1 DEF InLine
      <4>5. i # Len(t) => t[i + 1] = s[i + 1 + 1]
        BY <1>4, <1>5, <1>7, <3>2
      <4> QED BY <1>4, <1>7, <4>3, <4>4, <4>5
    <3> QED BY <1>4, <1>5, <3>1, <3>2
  <2> QED BY <1>7, <2>1, <2>2, <2>3 DEF InLine
<1>12. ASSUME NEW q \in Pcb \ {r}, NEW u \in Seq(Pcb), InLine(q, u)
       PROVE  InLine(q, u)'
  <2>1. \A c \in Pcb : p_prnt'[c] = q <=> p_prnt[c] = q
    BY <1>1, <1>2
  <2>2. \A c \in Pcb : p_prnt[c] = q => p_old'[c] = p_old[c]
    <3>1. k # 1 => k - 1 \in 1..n
      BY <1>4, <1>5
    <3> QED BY <1>2, <1>4, <1>10, <3>1
  <2> QED BY <1>10, <1>12, <2>1, <2>2, LineKept
<1>13. Lines' /\ children' = [children EXCEPT ![r] = t]
  BY <1>1, <1>11, <1>12, LineStep
<1>14. children[r] = s
  BY <1>1, <1>3, ChildrenAre DEF children
<1>15. k \in DOMAIN children[r] /\ children[r][k] = p
  BY <1>4, <1>5, <1>14
<1> QED BY <1>6, <1>13, <1>14, <1>15

LEMMA OutChildIs ==
  ASSUME ForestInv, SiblingInv', NEW p \in Pcb, OutChild(p)
  PROVE  Lines' /\ Forest!OutChild(p)
<1>1. HasParent(p) <=> p_prnt[p] # NULL
  <2>1. ASSUME p_prnt[p] # NULL PROVE p_child[p_prnt[p]] # NULL
    <3>1. p_prnt[p] \in Pcb
      BY <2>1, Types DEF ForestInv, SiblingInv, Ptr
    <3>2. InLine(p_prnt[p], children[p_prnt[p]])
      BY <3>1, OrphanIs
    <3>3. p \in ToSet(children[p_prnt[p]])
      BY <3>2 DEF InLine
    <3> QED BY <3>1, <3>3, OrphanIs, ToSetDef
  <2> QED BY <2>1 DEF HasParent
<1>2. CASE ~ HasParent(p)
  <2>1. treeRet' = NULL /\ UNCHANGED treeLinks /\ Forest!Orphan(p)
    BY <1>1, <1>2, OrphanIs DEF OutChild
  <2> QED BY <2>1, LinksKept DEF Forest!OutChild, ForestInv
<1>3. CASE HasParent(p)
  <2>1. /\ OutFirst(p) \/ OutOther(p)
        /\ p_prnt' = [p_prnt EXCEPT ![p] = NULL] /\ treeRet' = p
    BY <1>3 DEF OutChild
  <2> QED BY <1>3, <2>1, OutIs DEF Forest!OutChild, Forest!RemoveAt, RemoveAt
<1> QED BY <1>2, <1>3

LEMMA RemoveChildIs ==
  ASSUME ForestInv, SiblingInv', NEW prnt \in Pcb, RemoveChild(prnt)
  PROVE  Lines' /\ Forest!RemoveChild(prnt)
<1>1. CASE p_child[prnt] = NULL
  <2>1. treeRet' = NULL /\ UNCHANGED treeLinks /\ children[prnt] = <<>>
    BY <1>1, OrphanIs DEF RemoveChild
  <2> QED BY <2>1, LinksKept DEF Forest!RemoveChild, ForestInv
<1>2. CASE p_child[prnt] # NULL
  <2>1. p_child[prnt] \in Pcb /\ OutChild(p_child[prnt])
    BY <1>2, Types DEF RemoveChild, ForestInv, SiblingInv, Ptr
  <2>2. children[prnt] # <<>> /\ Head(children[prnt]) = p_child[prnt]
    BY <1>2, OrphanIs
  <2> QED BY <2>1, <2>2, OutChildIs DEF Forest!RemoveChild
<1> QED BY <1>1, <1>2

\* The links are the lists of children that the operations promise, the
\* youngest first, for any set of PCBs.
THEOREM ForestImplemented == TreeSpec => ImplementsForest
<1>1. TreeInit => ForestInv /\ Forest!Init
  <2> SUFFICES ASSUME TreeInit PROVE ForestInv /\ Forest!Init
    OBVIOUS
  <2>1. SiblingInv
    BY NullAssumption DEF TreeInit, SiblingInv, TreeTypeOK, Ptr
  <2>2. ASSUME NEW r \in Pcb PROVE InLine(r, <<>>)
    <3>1. <<>> \in Seq(Pcb) /\ IsInjective(<<>>) /\ ToSet(<<>>) = {} /\ Len(<<>>) = 0
      BY DEF IsInjective, ToSet
    <3>2. p_prnt = [p \in Pcb |-> NULL] /\ p_child = [p \in Pcb |-> NULL]
      BY DEF TreeInit
    <3> QED BY <3>1, <3>2, NullAssumption DEF InLine
  <2>3. Lines
    <3>1. \A r \in Pcb : <<>> \in Seq(Pcb) /\ InLine(r, <<>>)
      BY <2>2
    <3> QED BY <3>1 DEF Lines
  <2>4. \A r \in Pcb : ChildrenOf(r) = <<>>
    <3>1. TreeTypeOK /\ \A r \in Pcb : <<>> \in Seq(Pcb) /\ InLine(r, <<>>)
      BY <2>1, <2>2 DEF SiblingInv
    <3> QED BY <3>1, ChildrenAre
  <2>5. treeRet = NULL
    BY DEF TreeInit
  <2> QED BY <2>1, <2>3, <2>4, <2>5 DEF ForestInv, Forest!Init, children
<1>2. ForestInv /\ SiblingInv' /\ [TreeNext]_treeVars => Lines' /\ [Forest!Next]_(Forest!vars)
  <2> SUFFICES ASSUME ForestInv, SiblingInv', [TreeNext]_treeVars
               PROVE  Lines' /\ [Forest!Next]_(Forest!vars)
    OBVIOUS
  <2>1. ASSUME NEW p \in Pcb, RemoveChild(p)
        PROVE  Lines' /\ Forest!Next
    BY <2>1, RemoveChildIs DEF Forest!Next
  <2>2. ASSUME NEW p \in Pcb, OutChild(p)
        PROVE  Lines' /\ Forest!Next
    BY <2>2, OutChildIs DEF Forest!Next
  <2>3. ASSUME NEW p \in Pcb, NEW prnt \in Pcb, InsertChild(prnt, p)
        PROVE  Lines' /\ Forest!Next
    BY <2>3, InsertChildIs DEF Forest!Next
  <2>4. CASE UNCHANGED treeVars
    <3>1. UNCHANGED treeLinks /\ treeRet' = treeRet
      BY <2>4 DEF treeVars, treeLinks
    <3> QED BY <3>1, LinksKept DEF ForestInv, Forest!vars
  <2> QED BY <2>1, <2>2, <2>3, <2>4 DEF TreeNext
<1>3. ForestInv <=> SiblingInv /\ Lines
  BY DEF ForestInv
<1> QED BY <1>1, <1>2, <1>3, SiblingsSound, PTL DEF TreeSpec, ImplementsForest, Forest!Spec
================================================================================
