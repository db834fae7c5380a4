----------------------------- MODULE QueueLemmas -----------------------------
(***************************************************************************)
(* What the queue operations the nucleus is built from return: the type,   *)
(* the length, the set of elements and the absence of duplicates.          *)
(***************************************************************************)
EXTENDS Walks, FiniteSets, SequencesExt, SequenceTheorems,
        FiniteSetTheorems, WellFoundedInduction, TLAPS

\* The elements of a sequence by index.
LEMMA ToSetDef ==
  ASSUME NEW S, NEW s \in Seq(S)
  PROVE  /\ ToSet(s) \subseteq S
         /\ \A x : x \in ToSet(s) <=> \E i \in 1..Len(s) : s[i] = x
         /\ ToSet(s) = {} <=> s = <<>>
         /\ IsInjective(s) <=>
              \A i, j \in 1..Len(s) : s[i] = s[j] => i = j
  BY DEF ToSet, IsInjective

\* Joining the tail of a queue.
LEMMA AppendQueue ==
  ASSUME NEW S, NEW s \in Seq(S), NEW x \in S
  PROVE  /\ Append(s, x) \in Seq(S)
         /\ Len(Append(s, x)) = Len(s) + 1
         /\ ToSet(Append(s, x)) = ToSet(s) \cup {x}
         /\ IsInjective(s) /\ x \notin ToSet(s) => IsInjective(Append(s, x))
<1> DEFINE t == Append(s, x)
<1>1. /\ t \in Seq(S) /\ Len(t) = Len(s) + 1
      /\ \A i \in 1..Len(t) : t[i] = IF i = Len(s) + 1 THEN x ELSE s[i]
  OBVIOUS
<1>2. /\ \A y : y \in ToSet(s) <=> \E i \in 1..Len(s) : s[i] = y
      /\ \A y : y \in ToSet(t) <=> \E i \in 1..Len(t) : t[i] = y
  BY <1>1, ToSetDef
<1>3. ToSet(t) = ToSet(s) \cup {x}
  <2>1. ASSUME NEW y \in ToSet(t) PROVE y \in ToSet(s) \cup {x}
    BY <1>1, <1>2, <2>1
  <2>2. ASSUME NEW y \in ToSet(s) \cup {x} PROVE y \in ToSet(t)
    BY <1>1, <1>2, <2>2
  <2> QED BY <2>1, <2>2
<1>4. ASSUME IsInjective(s), x \notin ToSet(s) PROVE IsInjective(t)
  <2>1. \A i, j \in 1..Len(s) : s[i] = s[j] => i = j
    BY <1>4, ToSetDef
  <2>2. \A i \in 1..Len(s) : s[i] # x
    BY <1>2, <1>4
  <2>3. \A i, j \in 1..Len(t) : t[i] = t[j] => i = j
    BY <1>1, <2>1, <2>2
  <2> QED BY <1>1, <2>3, ToSetDef
<1> QED BY <1>1, <1>3, <1>4

\* Leaving a queue from the head.
LEMMA TailQueue ==
  ASSUME NEW S, NEW s \in Seq(S), s # <<>>
  PROVE  /\ Head(s) \in S /\ Head(s) \in ToSet(s)
         /\ Tail(s) \in Seq(S)
         /\ Len(Tail(s)) = Len(s) - 1
         /\ ToSet(s) = {Head(s)} \cup ToSet(Tail(s))
         /\ IsInjective(s) => /\ IsInjective(Tail(s))
                              /\ Head(s) \notin ToSet(Tail(s))
<1> DEFINE t == Tail(s)
<1>1. /\ t \in Seq(S) /\ Len(t) = Len(s) - 1 /\ Len(s) \in Nat /\ Len(s) > 0
      /\ \A i \in 1..Len(t) : t[i] = s[i + 1]
      /\ Head(s) = s[1] /\ s[1] \in S
  OBVIOUS
<1>2. /\ \A y : y \in ToSet(s) <=> \E i \in 1..Len(s) : s[i] = y
      /\ \A y : y \in ToSet(t) <=> \E i \in 1..Len(t) : t[i] = y
  BY <1>1, ToSetDef
<1>3. ToSet(s) = {Head(s)} \cup ToSet(t)
  <2>1. ASSUME NEW y \in ToSet(s) PROVE y \in {Head(s)} \cup ToSet(t)
    <3>1. PICK i \in 1..Len(s) : s[i] = y
      BY <1>2
    <3>2. CASE i = 1
      BY <3>1, <3>2, <1>1
    <3>3. CASE i # 1
      <4>1. i - 1 \in 1..Len(t) /\ t[i - 1] = y
        BY <3>1, <3>3, <1>1
      <4> QED BY <4>1, <1>2
    <3> QED BY <3>2, <3>3
  <2>2. ASSUME NEW y \in {Head(s)} \cup ToSet(t) PROVE y \in ToSet(s)
    <3>1. CASE y = Head(s)
      <4>1. 1 \in 1..Len(s) /\ s[1] = y
        BY <3>1, <1>1
      <4> QED BY <4>1, <1>2
    <3>2. CASE y \in ToSet(t)
      <4>1. PICK i \in 1..Len(t) : t[i] = y
        BY <3>2, <1>2
      <4>2. i + 1 \in 1..Len(s) /\ s[i + 1] = y
        BY <4>1, <1>1
      <4> QED BY <4>2, <1>2
    <3> QED BY <3>1, <3>2, <2>2
  <2> QED BY <2>1, <2>2
<1>4. ASSUME IsInjective(s)
      PROVE  IsInjective(t) /\ Head(s) \notin ToSet(t)
  <2>1. \A i, j \in 1..Len(s) : s[i] = s[j] => i = j
    BY <1>4, ToSetDef
  <2>2. \A i, j \in 1..Len(t) : t[i] = t[j] => i = j
    BY <1>1, <2>1
  <2>3. ASSUME NEW i \in 1..Len(t) PROVE t[i] # Head(s)
    <3>1. i + 1 \in 1..Len(s) /\ 1 \in 1..Len(s) /\ i + 1 # 1
      BY <1>1
    <3> QED BY <3>1, <2>1, <1>1
  <2>4. IsInjective(t)
    BY <1>1, <2>2, ToSetDef
  <2>5. Head(s) \notin ToSet(t)
    BY <1>2, <2>3
  <2> QED BY <2>4, <2>5
<1> QED BY <1>1, <1>3, <1>4

\* What is left of a queue when its k-th leaves.
LEMMA RemoveAtIs ==
  ASSUME NEW S, NEW s \in Seq(S), NEW k \in 1..Len(s)
  PROVE  /\ RemoveAt(s, k) \in Seq(S) /\ Len(RemoveAt(s, k)) = Len(s) - 1
         /\ \A i \in 1..Len(RemoveAt(s, k)) :
              RemoveAt(s, k)[i] = IF i < k THEN s[i] ELSE s[i + 1]
<1> DEFINE u == SubSeq(s, 1, k - 1)
           v == SubSeq(s, k + 1, Len(s))
           t == RemoveAt(s, k)
<1>1. t = u \o v
  BY DEF RemoveAt
<1>2. /\ u \in Seq(S) /\ Len(u) = k - 1
      /\ \A i \in 1..k - 1 : u[i] = s[i]
  <2>1. \A i \in 1..k - 1 : s[i] \in S
    OBVIOUS
  <2> QED BY <2>1, SubSeqProperties
<1>3. /\ v \in Seq(S) /\ Len(v) = Len(s) - k
      /\ \A i \in 1..Len(s) - k : v[i] = s[k + i]
  <2>1. \A i \in k + 1..Len(s) : s[i] \in S
    OBVIOUS
  <2>2. k + 1 \in Int /\ Len(s) \in Int
    OBVIOUS
  <2>3. /\ v \in Seq(S)
        /\ Len(v) = IF k + 1 <= Len(s) THEN Len(s) - (k + 1) + 1 ELSE 0
        /\ \A i \in 1..Len(s) - (k + 1) + 1 : v[i] = s[k + 1 + i - 1]
    BY <2>1, <2>2, SubSeqProperties
  <2> QED BY <2>3
<1> HIDE DEF u, v
<1>4. /\ t \in Seq(S) /\ Len(t) = Len(s) - 1
      /\ \A i \in 1..Len(t) : t[i] = IF i < k THEN s[i] ELSE s[i + 1]
  <2>1. /\ t \in Seq(S) /\ Len(t) = Len(u) + Len(v)
        /\ \A i \in 1..Len(u) + Len(v) :
             t[i] = IF i <= Len(u) THEN u[i] ELSE v[i - Len(u)]
    <3>1. /\ u \o v \in Seq(S) /\ Len(u \o v) = Len(u) + Len(v)
          /\ \A i \in 1..Len(u) + Len(v) :
               (u \o v)[i] = IF i <= Len(u) THEN u[i] ELSE v[i - Len(u)]
      BY <1>2, <1>3, ConcatProperties
    <3> QED BY <3>1, <1>1, Zenon
  <2> HIDE DEF t
  <2>2. Len(t) = Len(s) - 1
    BY <2>1, <1>2, <1>3
  <2>3. ASSUME NEW i \in 1..Len(t)
        PROVE  t[i] = IF i < k THEN s[i] ELSE s[i + 1]
    <3>1. CASE i < k
      BY <3>1, <2>1, <2>2, <1>2
    <3>2. CASE i >= k
      BY <3>2, <2>1, <2>2, <1>2, <1>3
    <3> QED BY <3>1, <3>2
  <2> QED BY <2>1, <2>2, <2>3
<1> QED BY <1>4

\* Leaving a queue from anywhere.
LEMMA RemoveAtQueue ==
  ASSUME NEW S, NEW s \in Seq(S), NEW k \in 1..Len(s)
  PROVE  /\ RemoveAt(s, k) \in Seq(S)
         /\ Len(RemoveAt(s, k)) = Len(s) - 1
         /\ IsInjective(s) =>
              /\ IsInjective(RemoveAt(s, k))
              /\ ToSet(RemoveAt(s, k)) = ToSet(s) \ {s[k]}
<1> DEFINE t == RemoveAt(s, k)
<1>1. /\ t \in Seq(S) /\ Len(t) = Len(s) - 1
      /\ \A i \in 1..Len(t) : t[i] = IF i < k THEN s[i] ELSE s[i + 1]
  BY RemoveAtIs
<1>2. ASSUME IsInjective(s)
      PROVE  IsInjective(t) /\ ToSet(t) = ToSet(s) \ {s[k]}
  <2>1. \A i, j \in 1..Len(s) : s[i] = s[j] => i = j
    BY <1>2, ToSetDef
  <2>2. \A i, j \in 1..Len(t) : t[i] = t[j] => i = j
    BY <1>1, <2>1
  <2>3. /\ \A y : y \in ToSet(s) <=> \E i \in 1..Len(s) : s[i] = y
        /\ \A y : y \in ToSet(t) <=> \E i \in 1..Len(t) : t[i] = y
    BY <1>1, ToSetDef
  <2>4. ASSUME NEW y \in ToSet(t) PROVE y \in ToSet(s) \ {s[k]}
    <3>1. PICK i \in 1..Len(t) : t[i] = y
      BY <2>3
    <3>2. PICK j \in 1..Len(s) : s[j] = y /\ j # k
      <4>1. CASE i < k
        BY <4>1, <3>1, <1>1
      <4>2. CASE i >= k
        <5>1. i + 1 \in 1..Len(s) /\ s[i + 1] = y /\ i + 1 # k
          BY <4>2, <3>1, <1>1
        <5> QED BY <5>1
      <4> QED BY <4>1, <4>2
    <3> QED BY <3>2, <2>1, <2>3
  <2>5. ASSUME NEW y \in ToSet(s) \ {s[k]} PROVE y \in ToSet(t)
    <3>1. PICK i \in 1..Len(s) : s[i] = y /\ i # k
      BY <2>3
    <3>2. CASE i < k
      <4>1. i \in 1..Len(t) /\ t[i] = y
        BY <3>1, <3>2, <1>1
      <4> QED BY <4>1, <2>3
    <3>3. CASE i > k
      <4>1. i - 1 \in 1..Len(t) /\ t[i - 1] = y
        BY <3>1, <3>3, <1>1
      <4> QED BY <4>1, <2>3
    <3> QED BY <3>1, <3>2, <3>3
  <2> QED BY <1>1, <2>2, <2>4, <2>5, ToSetDef
<1> QED BY <1>1, <1>2

\* One queue put behind another.
LEMMA ConcatQueue ==
  ASSUME NEW S, NEW s \in Seq(S), NEW t \in Seq(S)
  PROVE  /\ s \o t \in Seq(S)
         /\ Len(s \o t) = Len(s) + Len(t)
         /\ ToSet(s \o t) = ToSet(s) \cup ToSet(t)
         /\ IsInjective(s) /\ IsInjective(t) /\ ToSet(s) \cap ToSet(t) = {}
              => IsInjective(s \o t)
<1> DEFINE w == s \o t
<1>1. /\ w \in Seq(S) /\ Len(w) = Len(s) + Len(t)
      /\ Len(s) \in Nat /\ Len(t) \in Nat
      /\ \A i \in 1..Len(w) : w[i] = IF i <= Len(s) THEN s[i] ELSE t[i - Len(s)]
  BY ConcatProperties
<1>2. /\ \A y : y \in ToSet(s) <=> \E i \in 1..Len(s) : s[i] = y
      /\ \A y : y \in ToSet(t) <=> \E i \in 1..Len(t) : t[i] = y
      /\ \A y : y \in ToSet(w) <=> \E i \in 1..Len(w) : w[i] = y
  BY <1>1, ToSetDef
<1>3. ToSet(w) = ToSet(s) \cup ToSet(t)
  <2>1. ASSUME NEW y \in ToSet(w) PROVE y \in ToSet(s) \cup ToSet(t)
    <3>1. PICK i \in 1..Len(w) : w[i] = y
      BY <1>2
    <3>2. CASE i <= Len(s)
      BY <3>1, <3>2, <1>1, <1>2
    <3>3. CASE i > Len(s)
      <4>1. i - Len(s) \in 1..Len(t) /\ t[i - Len(s)] = y
        BY <3>1, <3>3, <1>1
      <4> QED BY <4>1, <1>2
    <3> QED BY <3>1, <3>2, <3>3, <1>1
  <2>2. ASSUME NEW y \in ToSet(s) PROVE y \in ToSet(w)
    <3>1. PICK i \in 1..Len(s) : s[i] = y
      BY <1>2
    <3>2. i \in 1..Len(w) /\ w[i] = y
      BY <3>1, <1>1
    <3> QED BY <3>2, <1>2
  <2>3. ASSUME NEW y \in ToSet(t) PROVE y \in ToSet(w)
    <3>1. PICK i \in 1..Len(t) : t[i] = y
      BY <1>2
    <3>2. i + Len(s) \in 1..Len(w) /\ w[i + Len(s)] = y
      BY <3>1, <1>1
    <3> QED BY <3>2, <1>2
  <2> QED BY <2>1, <2>2, <2>3
<1>4. ASSUME IsInjective(s), IsInjective(t), ToSet(s) \cap ToSet(t) = {}
      PROVE  IsInjective(w)
  <2>1. /\ \A i, j \in 1..Len(s) : s[i] = s[j] => i = j
        /\ \A i, j \in 1..Len(t) : t[i] = t[j] => i = j
    BY <1>4, ToSetDef
  <2>2. \A i \in 1..Len(s), j \in 1..Len(t) : s[i] # t[j]
    BY <1>2, <1>4
  <2>3. ASSUME NEW i \in 1..Len(w), NEW j \in 1..Len(w), w[i] = w[j]
        PROVE  i = j
    <3>1. CASE i <= Len(s) /\ j <= Len(s)
      BY <3>1, <2>1, <2>3, <1>1
    <3>2. CASE i > Len(s) /\ j > Len(s)
      <4>1. i - Len(s) \in 1..Len(t) /\ j - Len(s) \in 1..Len(t)
        BY <3>2, <1>1
      <4>2. t[i - Len(s)] = t[j - Len(s)]
        BY <3>2, <2>3, <1>1
      <4>3. i - Len(s) = j - Len(s)
        BY <4>1, <4>2, <2>1
      <4> QED BY <4>3, <1>1
    <3>3. CASE i <= Len(s) /\ j > Len(s)
      <4>1. i \in 1..Len(s) /\ j - Len(s) \in 1..Len(t)
        BY <3>3, <1>1
      <4> QED BY <4>1, <3>3, <2>2, <2>3, <1>1
    <3>4. CASE i > Len(s) /\ j <= Len(s)
      <4>1. j \in 1..Len(s) /\ i - Len(s) \in 1..Len(t)
        BY <3>4, <1>1
      <4> QED BY <4>1, <3>4, <2>2, <2>3, <1>1
    <3> QED BY <3>1, <3>2, <3>3, <3>4, <1>1
  <2> QED BY <1>1, <2>3, ToSetDef
<1> QED BY <1>1, <1>3, <1>4

\* Popping a stack.
LEMMA FrontQueue ==
  ASSUME NEW S, NEW s \in Seq(S), s # <<>>
  PROVE  /\ Last(s) \in S /\ Last(s) \in ToSet(s)
         /\ Front(s) \in Seq(S)
         /\ Len(Front(s)) = Len(s) - 1
         /\ Front(s) # <<>> => Head(Front(s)) = Head(s)
         /\ IsInjective(s) =>
              IsInjective(Front(s)) /\ ToSet(Front(s)) = ToSet(s) \ {Last(s)}
<1> DEFINE n == Len(s)
           t == Front(s)
<1>1. n \in Nat /\ n > 0 /\ s[n] \in S /\ Last(s) = s[n]
  BY DEF Last
<1>2. /\ t \in Seq(S) /\ Len(t) = n - 1
      /\ \A i \in 1..n - 1 : t[i] = s[i]
  <2>1. \A i \in 1..n - 1 : s[i] \in S
    OBVIOUS
  <2>2. /\ t \in Seq(S)
        /\ Len(t) = IF 1 <= n - 1 THEN n - 1 - 1 + 1 ELSE 0
        /\ \A i \in 1..n - 1 - 1 + 1 : t[i] = s[1 + i - 1]
    BY <1>1, <2>1, SubSeqProperties DEF Front
  <2> HIDE DEF t, n
  <2> QED BY <1>1, <2>2
<1>3. /\ \A y : y \in ToSet(s) <=> \E i \in 1..n : s[i] = y
      /\ \A y : y \in ToSet(t) <=> \E i \in 1..Len(t) : t[i] = y
  BY <1>2, ToSetDef
<1>4. Last(s) \in ToSet(s)
  BY <1>1, <1>3
<1>5. t # <<>> => Head(t) = Head(s)
  BY <1>1, <1>2
<1>6. ASSUME IsInjective(s)
      PROVE  IsInjective(t) /\ ToSet(t) = ToSet(s) \ {Last(s)}
  <2>1. \A i, j \in 1..n : s[i] = s[j] => i = j
    BY <1>6, ToSetDef
  <2>2. \A i, j \in 1..Len(t) : t[i] = t[j] => i = j
    BY <1>1, <1>2, <2>1
  <2>3. ToSet(t) \subseteq ToSet(s) \ {Last(s)}
    <3>1. ASSUME NEW y \in ToSet(t) PROVE y \in ToSet(s) \ {Last(s)}
      <4>1. PICK i \in 1..Len(t) : t[i] = y
        BY <1>3
      <4>2. i \in 1..n /\ i # n /\ s[i] = y
        BY <4>1, <1>1, <1>2
      <4> QED BY <4>2, <1>1, <1>3, <2>1
    <3> QED BY <3>1
  <2>4. ToSet(s) \ {Last(s)} \subseteq ToSet(t)
    <3>1. ASSUME NEW y \in ToSet(s) \ {Last(s)} PROVE y \in ToSet(t)
      <4>1. PICK i \in 1..n : s[i] = y
        BY <1>3
      <4>2. i \in 1..Len(t) /\ t[i] = y
        BY <4>1, <1>1, <1>2
      <4> QED BY <4>2, <1>3
    <3> QED BY <3>1
  <2> QED BY <1>2, <2>2, <2>3, <2>4, ToSetDef
<1> QED BY <1>1, <1>2, <1>4, <1>5, <1>6

\* To take out the last element is to keep the front.
LEMMA RemoveLast ==
  ASSUME NEW S, NEW s \in Seq(S), Len(s) > 1
  PROVE  /\ RemoveAt(s, Len(s)) = Front(s)
         /\ Last(Front(s)) = s[Len(s) - 1]
<1> DEFINE n == Len(s)
<1>1. n \in Nat /\ n \in 1..n /\ n - 1 \in 1..n - 1
  OBVIOUS
<1>2. PICK t \in Seq(S) : t = Front(s) /\ Len(t) = n - 1 /\ \A i \in 1..n - 1 : t[i] = s[i]
  <2>1. \A i \in 1..n - 1 : s[i] \in S
    OBVIOUS
  <2>2. /\ Front(s) \in Seq(S) /\ Len(Front(s)) = n - 1
        /\ \A i \in 1..n - 1 : Front(s)[i] = s[i]
    BY <1>1, <2>1, SubSeqProperties DEF Front
  <2> QED BY <2>2
<1>3. PICK r \in Seq(S) : /\ r = RemoveAt(s, n) /\ Len(r) = n - 1
                          /\ \A i \in 1..Len(r) : r[i] = IF i < n THEN s[i] ELSE s[i + 1]
  BY <1>1, RemoveAtIs
<1>4. \A i \in 1..n - 1 : r[i] = t[i]
  BY <1>1, <1>2, <1>3
<1>5. r = t
  BY <1>2, <1>3, <1>4, SeqEqual
<1>6. Last(t) = s[n - 1]
  BY <1>1, <1>2 DEF Last
<1> QED BY <1>2, <1>3, <1>5, <1>6

\* A queue without duplicates is as long as it has members.
LEMMA InjectiveLength ==
  ASSUME NEW S, NEW s \in Seq(S), IsInjective(s)
  PROVE  IsFiniteSet(ToSet(s)) /\ Cardinality(ToSet(s)) = Len(s)
<1>1. s \in [1..Len(s) -> ToSet(s)] /\ Len(s) \in Nat
  BY DEF ToSet
<1>2. \A i, j \in 1..Len(s) : s[i] = s[j] => i = j
  BY ToSetDef
<1>3. \A y \in ToSet(s) : \E i \in 1..Len(s) : s[i] = y
  BY ToSetDef
<1>4. s \in Bijection(1..Len(s), ToSet(s))
  BY <1>1, <1>2, <1>3 DEF Bijection, Injection, Surjection
<1>5. IsFiniteSet(1..Len(s)) /\ Cardinality(1..Len(s)) = Len(s)
  <2>1. PICK n \in Nat : n = Len(s)
    BY <1>1
  <2>2. IsFiniteSet(1..n) /\ Cardinality(1..n) = IF 1 > n THEN 0 ELSE n - 1 + 1
    BY FS_Interval
  <2> QED BY <2>1, <2>2
<1>6. ExistsBijection(1..Len(s), ToSet(s))
  BY <1>4 DEF ExistsBijection
<1> QED BY <1>5, <1>6, FS_Bijection
-----------------------------------------------------------------------------
\* A nonempty set of naturals has a least element.
LEMMA LeastElement ==
  ASSUME NEW T \in SUBSET Nat, T # {}
  PROVE  \E m \in T : \A k \in T : m <= k
<1> DEFINE Less == {ss \in Nat \X Nat : ss[1] < ss[2]}
<1>1. Less = OpToRel(<, Nat)
  BY DEF OpToRel
<1>2. ASSUME NEW x \in Nat, NEW y \in Nat, ~ (<<y, x>> \in Less) PROVE x <= y
  BY <1>2
<1> HIDE DEF Less
<1>3. \E x \in T : \A y \in T : ~ (<<y, x>> \in Less)
  BY <1>1, NatLessThanWellFounded, WFMin
<1> QED BY <1>2, <1>3
-----------------------------------------------------------------------------
\* A walk from a, as Walk computes it.
IsWalk(w, a, next, n) == w = [i \in 0..n |-> IF i = 0 THEN a ELSE On(w[i - 1], next)]

\* There is a walk of any length: else there would be a least one missing.
LEMMA WalkExists ==
  ASSUME NEW a, NEW next, NEW n \in Nat
  PROVE  \E w : IsWalk(w, a, next, n)
<1> DEFINE T == {k \in Nat : \A w : ~ IsWalk(w, a, next, k)}
<1>1. SUFFICES ASSUME T # {} PROVE FALSE
  <2>1. n \notin T => \E w : IsWalk(w, a, next, n)
    OBVIOUS
  <2> QED BY <2>1
<1>2. PICK k \in T : \A j \in T : k <= j
  <2>1. T \in SUBSET Nat
    OBVIOUS
  <2> HIDE DEF T
  <2> QED BY <1>1, <2>1, LeastElement
<1>3. k # 0
  <2> DEFINE w == [i \in 0..0 |-> a]
  <2>1. w = [i \in 0..0 |-> IF i = 0 THEN a ELSE On(w[i - 1], next)]
    OBVIOUS
  <2>2. IsWalk(w, a, next, 0)
    BY <2>1 DEF IsWalk
  <2> QED BY <1>2, <2>2
<1>4. k \in Nat /\ k - 1 \in Nat /\ k - 1 \notin T
  <2>1. k \in Nat
    OBVIOUS
  <2> HIDE DEF T
  <2> QED BY <1>2, <1>3, <2>1
<1>5. PICK v : IsWalk(v, a, next, k - 1)
  BY <1>4
<1> DEFINE w == [i \in 0..k |-> IF i = 0 THEN a ELSE On(v[i - 1], next)]
<1>6. \A i \in 0..(k - 1) : w[i] = v[i]
  <2>1. v = [i \in 0..(k - 1) |-> IF i = 0 THEN a ELSE On(v[i - 1], next)]
    BY <1>5 DEF IsWalk
  <2> QED BY <1>4, <2>1 DEF On
<1>7. w = [i \in 0..k |-> IF i = 0 THEN a ELSE On(w[i - 1], next)]
  <2>1. \A i \in 0..k : i # 0 => i - 1 \in 0..(k - 1)
    BY <1>4
  <2>2. \A i \in 0..k : w[i] = IF i = 0 THEN a ELSE On(w[i - 1], next)
    BY <1>6, <2>1
  <2> QED BY <2>2
<1>8. IsWalk(w, a, next, k)
  <2> HIDE DEF w
  <2> QED BY <1>7 DEF IsWalk
<1> QED BY <1>2, <1>8

\* What a walk comes by.
LEMMA WalkIs ==
  ASSUME NEW a, NEW next, NEW n \in Nat
  PROVE  /\ Walk(a, next, n)[0] = a
         /\ \A i \in 1..n : Walk(a, next, n)[i] = On(Walk(a, next, n)[i - 1], next)
<1> DEFINE w == Walk(a, next, n)
<1>1. w = CHOOSE v : IsWalk(v, a, next, n)
  BY DEF Walk, IsWalk
<1>2. IsWalk(w, a, next, n)
  <2> HIDE DEF w
  <2> QED BY <1>1, WalkExists
<1> HIDE DEF w
<1>3. w = [i \in 0..n |-> IF i = 0 THEN a ELSE On(w[i - 1], next)]
  BY <1>2 DEF IsWalk
<1>4. w[0] = a /\ \A i \in 1..n : w[i] = On(w[i - 1], next)
  BY <1>3 DEF On
<1> QED BY <1>4 DEF w
=============================================================================
