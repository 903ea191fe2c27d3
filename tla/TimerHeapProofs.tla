---------------------------- MODULE TimerHeapProofs ----------------------------
(***************************************************************************)
(* The vector of TimerHeap is a heap of the active timers for any number   *)
(* of timers, any times and any width of the insertion order, and it is    *)
(* the queue of TimerQueue.                                                *)
(***************************************************************************)
EXTENDS TimerHeap, FiniteSetTheorems, WellFoundedInduction, TLAPS

-----------------------------------------------------------------------------
(* Numbers.                                                                  *)

LEMMA SmallestNumber ==
    ASSUME NEW T \in SUBSET Nat, T # {}
    PROVE  \E x \in T : \A y \in T : x <= y
<1> DEFINE R == OpToRel(<, Nat)
<1>1. IsWellFoundedOn(R, Nat)
  BY NatLessThanWellFounded
<1>2. R = {ss \in Nat \X Nat : ss[1] < ss[2]}
  BY DEF OpToRel
<1>3. \A x, y \in Nat : <<x, y>> \in R <=> x < y
  BY <1>2
<1> HIDE DEF R
<1>4. PICK x \in T : \A y \in T : ~ (<<y, x>> \in R)
  BY <1>1, WFMin
<1>5. ASSUME NEW y \in T
      PROVE  x <= y
  <2>1. x \in Nat /\ y \in Nat /\ ~(y < x)
    BY <1>3, <1>4
  <2> QED  BY <2>1
<1> QED  BY <1>5

\* 2^Width is the number of subsets of a set of Width elements.
LEMMA ModulusFacts == 2^Width \in Nat /\ 2^Width > 2
<1>1. IsFiniteSet(1..Width) /\ Cardinality(1..Width) = Width
  BY FS_Interval, WidthAssumption
<1>2. IsFiniteSet(SUBSET (1..Width)) /\ Cardinality(SUBSET (1..Width)) = 2^Width
  BY <1>1, FS_SUBSET
<1>3. 2^Width \in Nat
  BY <1>2, FS_CardinalityType
<1> DEFINE U == ({{}} \cup {{1}}) \cup {{2}}
<1>4. U \in SUBSET SUBSET (1..Width)
  BY WidthAssumption
<1>5. Cardinality(U) = 3
  <2>1. IsFiniteSet({{}}) /\ Cardinality({{}}) = 1
    BY FS_Singleton
  <2>2. {1} \notin {{}} /\ {2} \notin {{}} \cup {{1}}
    OBVIOUS
  <2> DEFINE V == {{}} \cup {{1}}
  <2>3. IsFiniteSet(V) /\ Cardinality(V) = 2
    <3>1. /\ IsFiniteSet(V)
          /\ Cardinality(V) = IF {1} \in {{}} THEN Cardinality({{}}) ELSE Cardinality({{}}) + 1
      BY <2>1, FS_AddElement, Zenon
    <3> QED  BY <2>1, <2>2, <3>1
  <2>4. Cardinality(U) = IF {2} \in V THEN Cardinality(V) ELSE Cardinality(V) + 1
    BY <2>3, FS_AddElement, Zenon
  <2> QED  BY <2>2, <2>3, <2>4
<1>6. Cardinality(U) <= 2^Width
  BY <1>2, <1>4, FS_Subset
<1> QED  BY <1>3, <1>5, <1>6

LEMMA HalfRangeFacts == HalfRange \in Nat \ {0} /\ 2 * HalfRange < 2^Width
BY ModulusFacts DEF HalfRange

-----------------------------------------------------------------------------
(* The way from a place of the heap to the top.                              *)

\* The recursive function exists: its values are the least sets closed under
\* halving.
LEMMA WayUpDef ==
    \A i \in Nat : WayUp[i] = IF i = 0 THEN {} ELSE {i} \cup WayUp[i \div 2]
<1> DEFINE Closed(Q, i) == i \in Q /\ \A q \in Q : q > 1 => q \div 2 \in Q
           W == [i \in Nat |-> {k \in 1..i : \A Q \in SUBSET (1..i) : Closed(Q, i) => k \in Q}]
           D(w) == [i \in Nat |-> IF i = 0 THEN {} ELSE {i} \cup w[i \div 2]]
<1>1. ASSUME NEW i \in Nat
      PROVE  W[i] = IF i = 0 THEN {} ELSE {i} \cup W[i \div 2]
  <2>1. CASE i = 0
    BY <2>1
  <2>2. CASE i # 0
    <3>1. i \in 1..i /\ i \div 2 \in Nat /\ i \div 2 < i
      BY <2>2
    <3>2. W[i] \subseteq 1..i /\ W[i \div 2] \subseteq 1..(i \div 2)
      BY <3>1
    <3>3. i \in W[i]
      BY <3>1
    <3>4. ASSUME NEW k \in W[i \div 2]
          PROVE  k \in W[i]
      <4>1. k \in 1..i
        BY <3>1, <3>2
      <4>2. ASSUME NEW Q \in SUBSET (1..i), Closed(Q, i)
            PROVE  k \in Q
        <5> DEFINE P == Q \cap (1..(i \div 2))
        <5>1. i > 1 /\ i \div 2 \in P
          BY <3>1, <3>2, <4>2
        <5>2. ASSUME NEW q \in P, q > 1
              PROVE  q \div 2 \in P
          BY <5>2, <3>1, <4>2
        <5>3. Closed(P, i \div 2) /\ P \in SUBSET (1..(i \div 2))
          BY <5>1, <5>2
        <5> QED  BY <3>1, <5>3
      <4> QED  BY <4>1, <4>2
    <3>5. ASSUME NEW k \in W[i]
          PROVE  k \in {i} \cup W[i \div 2]
      <4> DEFINE P == {i} \cup W[i \div 2]
      <4>1. P \in SUBSET (1..i)
        BY <3>1, <3>2
      <4>2. ASSUME i > 1
            PROVE  i \div 2 \in W[i \div 2]
        BY <3>1, <4>2
      <4>3. ASSUME NEW q \in W[i \div 2], q > 1
            PROVE  q \div 2 \in W[i \div 2]
        BY <3>1, <3>2, <4>3
      <4>4. Closed(P, i)
        BY <4>2, <4>3
      <4> HIDE DEF P
      <4>5. k \in P
        BY <4>1, <4>4
      <4> QED  BY <4>5 DEF P
    <3> HIDE DEF W
    <3>6. W[i] = {i} \cup W[i \div 2]
      BY <3>3, <3>4, <3>5
    <3> QED  BY <2>2, <3>6
  <2> QED  BY <2>1, <2>2
<1>2. W = D(W)
  BY <1>1
<1> HIDE DEF W
<1>3. WayUp = CHOOSE w : w = D(w)
  BY DEF WayUp
<1>4. WayUp = D(WayUp)
  BY <1>2, <1>3
<1> QED  BY <1>4

\* The way starts and ends where it should, and never branches.
Way(n) ==
    /\ n \in WayUp[n] /\ 1 \in WayUp[n] /\ WayUp[n] \subseteq 1..n
    /\ \A i \in WayUp[n] : i > 1 => i \div 2 \in WayUp[n]
    /\ \A i, k \in WayUp[n] : k < i => k <= i \div 2
    /\ \A i \in WayUp[n] \ {n} : \E k \in WayUp[n] : k > 1 /\ k \div 2 = i

LEMMA WayFacts == \A n \in Nat \ {0} : Way(n)
<1> DEFINE Bad == {n \in Nat \ {0} : ~Way(n)}
<1> SUFFICES ASSUME Bad # {}
             PROVE  FALSE
  OBVIOUS
<1>1. PICK n \in Bad : \A k \in Bad : n <= k
  <2>1. Bad \in SUBSET Nat
    OBVIOUS
  <2> HIDE DEF Bad
  <2> QED  BY <2>1, SmallestNumber
<1> DEFINE m == n \div 2
<1>2. n \in Nat \ {0} /\ WayUp[n] = {n} \cup WayUp[m]
  BY WayUpDef
<1>3. CASE n = 1
  <2>1. WayUp[n] = {1}
    <3>1. m = 0
      BY <1>3
    <3>2. WayUp[m] = {}
      BY <3>1, WayUpDef
    <3> QED  BY <1>2, <1>3, <3>2
  <2> QED  BY <1>3, <2>1 DEF Way
<1>4. CASE n > 1
  <2>1. m \in Nat \ {0} /\ m < n /\ Way(m)
    BY <1>1, <1>2, <1>4
  <2>2. WayUp[m] \subseteq 1..m /\ 1 \in WayUp[m] /\ m \in WayUp[m]
    BY <2>1 DEF Way
  <2>3. \A i \in WayUp[n] : i > 1 => i \div 2 \in WayUp[n]
    BY <1>2, <2>1, <2>2 DEF Way
  <2>4. ASSUME NEW i \in WayUp[n], NEW k \in WayUp[n], k < i
        PROVE  k <= i \div 2
    <3>1. CASE i = n  BY <1>2, <2>1, <2>2, <2>4, <3>1
    <3>2. CASE i # n  BY <1>2, <2>1, <2>2, <2>4, <3>2 DEF Way
    <3> QED  BY <3>1, <3>2
  <2>5. ASSUME NEW i \in WayUp[n] \ {n}
        PROVE  \E k \in WayUp[n] : k > 1 /\ k \div 2 = i
    <3>1. CASE i = m  BY <1>2, <1>4, <3>1
    <3>2. CASE i # m  BY <1>2, <2>1, <3>2 DEF Way
    <3> QED  BY <3>1, <3>2
  <2>6. n \in WayUp[n] /\ 1 \in WayUp[n] /\ WayUp[n] \subseteq 1..n
    BY <1>2, <2>1, <2>2
  <2> QED  BY <2>3, <2>4, <2>5, <2>6 DEF Way
<1> QED  BY <1>2, <1>3, <1>4

-----------------------------------------------------------------------------
(* Vectors whose elements change places.                                     *)

Rearranged(h, from) == [i \in DOMAIN from |-> h[from[i]]]

LEMMA RearrangeFacts ==
    ASSUME NEW S, NEW h \in Seq(S), NEW size \in Nat,
           NEW from \in [1..size -> 1..Len(h)]
    PROVE  /\ Rearranged(h, from) \in Seq(S) /\ Len(Rearranged(h, from)) = size
           /\ \A i \in 1..size : Rearranged(h, from)[i] = h[from[i]]
           /\ ToSet(Rearranged(h, from)) = {h[from[i]] : i \in 1..size}
           /\ IsInjective(h) /\ IsInjective(from) => IsInjective(Rearranged(h, from))
<1> DEFINE g == Rearranged(h, from)
<1>1. DOMAIN h = 1..Len(h) /\ DOMAIN from = 1..size /\ g = [i \in 1..size |-> h[from[i]]]
  BY DEF Rearranged
<1>2. g \in Seq(S) /\ Len(g) = size
  <2>1. g \in [1..size -> S]
    BY <1>1
  <2> HIDE DEF g
  <2> QED  BY <2>1
<1> HIDE DEF g
<1>3. ToSet(g) = {h[from[i]] : i \in 1..size}
  BY <1>1 DEF ToSet
<1>4. ASSUME IsInjective(h), IsInjective(from)
      PROVE  IsInjective(g)
  <2>1. ASSUME NEW i \in 1..size, NEW k \in 1..size, g[i] = g[k]
        PROVE  i = k
    <3>1. h[from[i]] = h[from[k]]
      BY <1>1, <2>1
    <3>2. from[i] = from[k]
      BY <1>1, <1>4, <3>1 DEF IsInjective
    <3> QED  BY <1>1, <1>4, <3>2 DEF IsInjective
  <2> QED  BY <1>1, <2>1 DEF IsInjective
<1>5. \A i \in 1..size : g[i] = h[from[i]]
  BY <1>1
<1> QED  BY <1>2, <1>3, <1>4, <1>5 DEF g

LEMMA MemberFacts ==
    ASSUME NEW S, NEW h \in Seq(S)
    PROVE  /\ \A i \in 1..Len(h) : h[i] \in ToSet(h) /\ h[i] \in S
           /\ \A t \in ToSet(h) : t \in S /\ \E i \in 1..Len(h) : h[i] = t
           /\ IsInjective(h) <=> \A i, k \in 1..Len(h) : h[i] = h[k] => i = k
BY DEF ToSet, IsInjective

LEMMA AppendMembers ==
    ASSUME NEW S, NEW h \in Seq(S), NEW t \in S
    PROVE  /\ Append(h, t) \in Seq(S) /\ Len(Append(h, t)) = Len(h) + 1
           /\ \A i \in 1..Len(h) : Append(h, t)[i] = h[i]
           /\ Append(h, t)[Len(h) + 1] = t
           /\ ToSet(Append(h, t)) = ToSet(h) \cup {t}
           /\ IsInjective(h) /\ t \notin ToSet(h) => IsInjective(Append(h, t))
<1> DEFINE r == Append(h, t)
<1>1. /\ r \in Seq(S) /\ Len(r) = Len(h) + 1 /\ Len(h) \in Nat
      /\ r[Len(h) + 1] = t
      /\ \A i \in 1..Len(h) : r[i] = h[i]
  OBVIOUS
<1> HIDE DEF r
<1>2. ToSet(r) = ToSet(h) \cup {t}
  <2>1. Len(h) + 1 \in 1..Len(r) /\ 1..Len(h) \subseteq 1..Len(r)
    BY <1>1
  <2>2. ASSUME NEW u \in ToSet(r)
        PROVE  u \in ToSet(h) \cup {t}
    BY <1>1, MemberFacts
  <2>3. ASSUME NEW u \in ToSet(h) \cup {t}
        PROVE  u \in ToSet(r)
    <3>1. CASE u = t
      BY <1>1, <2>1, <3>1, MemberFacts
    <3>2. CASE u \in ToSet(h)
      <4>1. PICK i \in 1..Len(h) : h[i] = u
        BY <3>2, MemberFacts
      <4>2. i \in 1..Len(r) /\ r[i] = u
        BY <1>1, <2>1, <4>1
      <4> QED  BY <1>1, <4>2, MemberFacts
    <3> QED  BY <2>3, <3>1, <3>2
  <2> QED  BY <2>2, <2>3
<1>3. ASSUME IsInjective(h), t \notin ToSet(h)
      PROVE  IsInjective(r)
  <2>1. \A i \in 1..Len(h) : r[i] # t
    BY <1>1, <1>3, MemberFacts
  <2>2. ASSUME NEW i \in 1..Len(r), NEW k \in 1..Len(r), r[i] = r[k]
        PROVE  i = k
    <3>1. (i \in 1..Len(h) \/ i = Len(h) + 1) /\ (k \in 1..Len(h) \/ k = Len(h) + 1)
      BY <1>1
    <3>2. CASE i \in 1..Len(h) /\ k \in 1..Len(h)
      <4>1. h[i] = h[k]
        BY <1>1, <2>2, <3>2
      <4> QED  BY <1>3, <3>2, <4>1, MemberFacts
    <3> QED  BY <1>1, <2>1, <2>2, <3>1, <3>2
  <2> QED  BY <1>1, <2>2, MemberFacts
<1> QED  BY <1>1, <1>2, <1>3 DEF r

LEMMA FrontMembers ==
    ASSUME NEW S, NEW h \in Seq(S), h # <<>>
    PROVE  /\ Front(h) \in Seq(S) /\ Len(Front(h)) = Len(h) - 1
           /\ \A i \in 1..(Len(h) - 1) : Front(h)[i] = h[i]
<1>1. Len(h) \in Nat \ {0}
  OBVIOUS
<1>2. \A i \in 1..(Len(h) - 1) : i \in 1..Len(h) /\ h[i] \in S
  BY <1>1
<1>3. \A i \in 1..(Len(h) - 1) : SubSeq(h, 1, Len(h) - 1)[i] = h[i]
  BY <1>1
<1> DEFINE m == Len(h) - 1
<1>4. m \in Nat /\ m <= Len(h)
  BY <1>1
<1>5. SubSeq(h, 1, m) = [i \in 1..m |-> h[i]]
  BY <1>4
<1>6. [i \in 1..m |-> h[i]] \in [1..m -> S]
  BY <1>2
<1>7. SubSeq(h, 1, m) \in Seq(S) /\ Len(SubSeq(h, 1, m)) = m
  <2> HIDE DEF m
  <2> QED  BY <1>4, <1>5, <1>6
<1> QED  BY <1>3, <1>7 DEF Front

-----------------------------------------------------------------------------
(* push_heap and pop_heap, for any times and orders under which LessThan is  *)
(* a strict order of different timers.                                       *)

Linear(time, ord, S) ==
    /\ \A t, u \in S :
          t # u => (LessThan(time, ord, t, u) <=> ~LessThan(time, ord, u, t))
    /\ \A t, u, v \in S :
          /\ t # u /\ u # v /\ t # v
          /\ LessThan(time, ord, t, u) /\ LessThan(time, ord, u, v)
          => LessThan(time, ord, t, v)

IsHeap(time, ord, h) ==
    \A i \in 2..Len(h) : ~LessThan(time, ord, h[i \div 2], h[i])

\* What push_heap finds when it is called for place n, in the middle or at the
\* end: only the edge above n may be wrong, and what is below n is not larger
\* than what is above it.
IsHeapBut(time, ord, h, n) ==
    /\ \A i \in (2..Len(h)) \ {n} : ~LessThan(time, ord, h[i \div 2], h[i])
    /\ n > 1 => \A i \in 2..Len(h) :
                   i \div 2 = n => ~LessThan(time, ord, h[n \div 2], h[i])

\* A heap's first element is the largest.
LEMMA TopFacts ==
    ASSUME NEW time, NEW ord, NEW h \in Seq(Timer), IsInjective(h),
           Linear(time, ord, ToSet(h)), IsHeap(time, ord, h),
           NEW i \in 2..Len(h)
    PROVE  LessThan(time, ord, h[i], h[1])
<1> DEFINE Bad == {k \in 2..Len(h) : ~LessThan(time, ord, h[k], h[1])}
<1> SUFFICES ASSUME Bad # {}
             PROVE  FALSE
  OBVIOUS
<1>1. PICK k \in Bad : \A m \in Bad : k <= m
  <2>1. Bad \in SUBSET Nat
    OBVIOUS
  <2> HIDE DEF Bad
  <2> QED  BY <2>1, SmallestNumber
<1> DEFINE m == k \div 2
<1>2. /\ k \in 2..Len(h) /\ 1 \in 1..Len(h) /\ m \in 1..Len(h) /\ m < k
      /\ k # 1 /\ k \in 1..Len(h)
  OBVIOUS
<1>3. ~LessThan(time, ord, h[m], h[k]) /\ ~LessThan(time, ord, h[k], h[1])
  BY <1>2 DEF IsHeap
<1>4. /\ h[1] \in ToSet(h) /\ h[m] \in ToSet(h) /\ h[k] \in ToSet(h)
      /\ h[k] # h[1] /\ h[k] # h[m] /\ (m # 1 => h[m] # h[1])
  BY <1>2, MemberFacts
<1>5. LessThan(time, ord, h[k], h[m])
  BY <1>3, <1>4 DEF Linear
<1>6. CASE m = 1
  BY <1>3, <1>5, <1>6
<1>7. CASE m # 1
  <2>1. m \in 2..Len(h) /\ m \notin Bad
    BY <1>1, <1>2, <1>7
  <2>2. LessThan(time, ord, h[m], h[1])
    BY <2>1
  <2> HIDE DEF Bad, m
  <2> QED  BY <1>3, <1>4, <1>5, <1>7, <2>2 DEF Linear
<1> QED  BY <1>6, <1>7

\* The places that the moved element passes, and the place where it stays.
Passed(time, ord, h, n) ==
    {i \in WayUp[n] : \A k \in WayUp[n] :
        i <= k /\ k < n => LessThan(time, ord, h[k], h[n])}

\* Where the elements of the vector come from when those of P are passed.
From(P, n, i) == IF i \notin P THEN i ELSE IF i \div 2 \in P THEN i \div 2 ELSE n

Moves(P, n, size) == [i \in 1..size |-> From(P, n, i)]

\* The part of the way from place n up to some place.
IsPart(P, n) ==
    /\ P \subseteq WayUp[n] /\ n \in P
    /\ \A i \in P, k \in WayUp[n] : i <= k => k \in P

LEMMA PassedFacts ==
    ASSUME NEW time, NEW ord, NEW h, NEW n \in Nat \ {0}
    PROVE  LET P == Passed(time, ord, h, n)
           IN  /\ IsPart(P, n)
               /\ \A i \in P : i # n => LessThan(time, ord, h[i], h[n])
               /\ \A i \in P : i > 1 =>
                     (i \div 2 \in P <=> LessThan(time, ord, h[i \div 2], h[n]))
<1> DEFINE P == Passed(time, ord, h, n)
<1>1. Way(n)
  BY WayFacts
<1>2. P \subseteq WayUp[n] /\ n \in P /\ WayUp[n] \subseteq 1..n
  BY <1>1 DEF Passed, Way
<1>3. \A i \in P : i # n => LessThan(time, ord, h[i], h[n])
  BY <1>2 DEF Passed
<1>4. \A i \in P, k \in WayUp[n] : i <= k => k \in P
  BY <1>2 DEF Passed
<1>5. ASSUME NEW i \in P, i > 1
      PROVE  i \div 2 \in P <=> LessThan(time, ord, h[i \div 2], h[n])
  <2>1. i \in 1..n /\ i \div 2 \in WayUp[n] /\ i \div 2 < i
    BY <1>1, <1>2, <1>5 DEF Way
  <2>2. ASSUME LessThan(time, ord, h[i \div 2], h[n]),
               NEW k \in WayUp[n], i \div 2 <= k, k < n
        PROVE  LessThan(time, ord, h[k], h[n])
    <3>1. k < i => k <= i \div 2
      BY <1>1, <1>2 DEF Way
    <3>2. CASE k < i
      <4>1. k = i \div 2
        BY <1>2, <2>1, <2>2, <3>1, <3>2
      <4> QED  BY <2>2, <4>1
    <3>3. CASE ~(k < i)
      BY <1>2, <2>1, <2>2, <3>3 DEF Passed
    <3> QED  BY <3>2, <3>3
  <2>3. LessThan(time, ord, h[i \div 2], h[n]) => i \div 2 \in P
    BY <2>1, <2>2 DEF Passed
  <2>4. i \div 2 \in P => LessThan(time, ord, h[i \div 2], h[n])
    BY <1>3, <2>1
  <2> QED  BY <2>3, <2>4
<1> QED  BY <1>2, <1>3, <1>4, <1>5 DEF IsPart

LEMMA MovesFacts ==
    ASSUME NEW size \in Nat, NEW n \in 1..size, NEW P, IsPart(P, n)
    PROVE  /\ Moves(P, n, size) \in [1..size -> 1..size]
           /\ IsInjective(Moves(P, n, size))
           /\ \A k \in 1..size : \E i \in 1..size : Moves(P, n, size)[i] = k
<1> DEFINE f == Moves(P, n, size)
<1>0. f = [i \in 1..size |-> From(P, n, i)]
  BY DEF Moves
<1> HIDE DEF f
<1>1. Way(n) /\ n \in Nat \ {0}
  BY WayFacts
<1>2. P \subseteq 1..n /\ 1..n \subseteq 1..size /\ n \in P
  BY <1>1 DEF Way, IsPart
<1>3. \A i \in P, k \in P : i \div 2 = k \div 2 /\ i > 1 /\ k > 1 => i = k
  <2>1. ASSUME NEW i \in P, NEW k \in P, i \div 2 = k \div 2, i > 1, k < i
        PROVE  FALSE
    <3>1. k <= i \div 2
      BY <1>1, <2>1 DEF Way, IsPart
    <3> QED  BY <1>2, <2>1, <3>1
  <2>2. \A i, k \in P : i < k \/ k < i \/ i = k
    BY <1>2
  <2> QED  BY <2>1, <2>2
\* Only one place is the end of the way.
<1>4. \A i \in P, k \in P : i \div 2 \notin P /\ k \div 2 \notin P => i = k
  <2>1. ASSUME NEW i \in P, NEW k \in P, k \div 2 \notin P, i < k
        PROVE  FALSE
    <3>1. i <= k \div 2 /\ k > 1
      <4>1. k > 1
        BY <1>2, <2>1
      <4>2. i \in WayUp[n] /\ k \in WayUp[n]
        BY <2>1 DEF IsPart
      <4> QED  BY <1>1, <2>1, <4>1, <4>2 DEF Way
    <3>2. k \div 2 \in WayUp[n]
      BY <1>1, <2>1, <3>1 DEF Way, IsPart
    <3> QED  BY <2>1, <3>1, <3>2 DEF IsPart
  <2>2. \A i, k \in P : i < k \/ k < i \/ i = k
    BY <1>2
  <2> QED  BY <2>1, <2>2
<1>5. \A i \in P : i \div 2 \in P => i > 1 /\ i \div 2 \in 1..n /\ i \div 2 < n
  BY <1>2
<1>6. f \in [1..size -> 1..size]
  BY <1>0, <1>2, <1>5 DEF From
<1>7. ASSUME NEW i \in 1..size, NEW k \in 1..size, f[i] = f[k]
      PROVE  i = k
  <2>1. f[i] = From(P, n, i) /\ f[k] = From(P, n, k)
    BY <1>0
  <2>2. CASE i \notin P \/ k \notin P
    <3>1. \A m \in 1..size : m \notin P => From(P, n, m) = m
      BY DEF From
    <3>2. \A m \in 1..size : m \in P => From(P, n, m) \in P
      BY <1>2 DEF From
    <3> QED  BY <1>7, <2>1, <2>2, <3>1, <3>2
  <2>3. CASE i \in P /\ k \in P
    <3> DEFINE a == i \div 2
               b == k \div 2
    <3>1. f[i] = (IF a \in P THEN a ELSE n) /\ f[k] = (IF b \in P THEN b ELSE n)
      BY <2>1, <2>3 DEF From
    <3>2. (a \in P => i > 1 /\ a # n) /\ (b \in P => k > 1 /\ b # n)
      BY <1>5, <2>3
    <3>3. a = b /\ i > 1 /\ k > 1 => i = k
      BY <1>3, <2>3
    <3>4. a \notin P /\ b \notin P => i = k
      BY <1>4, <2>3
    <3> HIDE DEF a, b
    <3> QED  BY <1>7, <3>1, <3>2, <3>3, <3>4
  <2> QED  BY <2>2, <2>3
<1>8. ASSUME NEW k \in 1..size
      PROVE  \E i \in 1..size : f[i] = k
  <2>1. CASE k \notin P
    BY <1>0, <2>1 DEF From
  <2>2. CASE k \in P /\ k # n
    <3>1. PICK i \in WayUp[n] : i > 1 /\ i \div 2 = k
      BY <1>1, <2>2 DEF Way, IsPart
    <3>2. i \in 1..n /\ k <= i
      BY <1>1, <3>1 DEF Way
    <3>3. i \in P
      BY <2>2, <3>2 DEF IsPart
    <3> QED  BY <1>0, <1>2, <2>2, <3>1, <3>3 DEF From
  <2>3. CASE k = n
    <3>1. PICK i \in P : \A m \in P : i <= m
      <4>1. P \in SUBSET Nat /\ P # {}
        BY <1>2
      <4> QED  BY <4>1, SmallestNumber
    <3>2. i \div 2 < i /\ i \in 1..size
      BY <1>2
    <3>3. i \div 2 \notin P
      BY <1>2, <3>1, <3>2
    <3> QED  BY <1>0, <2>3, <3>1, <3>2, <3>3 DEF From
  <2> QED  BY <2>1, <2>2, <2>3
<1>9. IsInjective(f)
  <2>1. DOMAIN f = 1..size
    BY <1>0
  <2> QED  BY <1>7, <2>1 DEF IsInjective
<1> QED  BY <1>6, <1>8, <1>9 DEF f

LEMMA MovesAt ==
    ASSUME NEW P, NEW n, NEW size, NEW i \in 1..size
    PROVE  Moves(P, n, size)[i] = From(P, n, i)
BY DEF Moves

LEMMA PushIs ==
    ASSUME NEW time, NEW ord, NEW h \in Seq(Timer), NEW n \in 1..Len(h)
    PROVE  PushHeap(time, ord, h, n) =
               Rearranged(h, Moves(Passed(time, ord, h, n), n, Len(h)))
BY DEF PushHeap, Passed, From, Moves, Rearranged

\* push_heap moves elements and leaves what is behind the prefix alone.
LEMMA PushMembers ==
    ASSUME NEW time, NEW ord, NEW h \in Seq(Timer), IsInjective(h),
           NEW n \in 1..Len(h)
    PROVE  /\ PushHeap(time, ord, h, n) \in Seq(Timer)
           /\ Len(PushHeap(time, ord, h, n)) = Len(h)
           /\ IsInjective(PushHeap(time, ord, h, n))
           /\ ToSet(PushHeap(time, ord, h, n)) = ToSet(h)
           /\ \A i \in 1..Len(h) : i > n => PushHeap(time, ord, h, n)[i] = h[i]
<1> DEFINE g == PushHeap(time, ord, h, n)
           P == Passed(time, ord, h, n)
           f == Moves(P, n, Len(h))
<1>1. n \in Nat \ {0} /\ IsPart(P, n) /\ Len(h) \in Nat
  BY PassedFacts
<1>2. P \subseteq 1..n
  BY <1>1, WayFacts DEF Way, IsPart
<1>3. g = Rearranged(h, f)
  BY PushIs
<1> HIDE DEF P, g
<1>4. /\ f \in [1..Len(h) -> 1..Len(h)] /\ IsInjective(f)
      /\ \A k \in 1..Len(h) : \E i \in 1..Len(h) : f[i] = k
  BY <1>1, MovesFacts, Zenon
<1>5. \A i \in 1..Len(h) : f[i] = From(P, n, i)
  BY MovesAt, Zenon
<1> HIDE DEF f
<1>6. /\ g \in Seq(Timer) /\ Len(g) = Len(h) /\ IsInjective(g)
      /\ ToSet(g) = {h[f[i]] : i \in 1..Len(h)}
      /\ \A i \in 1..Len(h) : g[i] = h[f[i]]
  <2>1. /\ Rearranged(h, f) \in Seq(Timer) /\ Len(Rearranged(h, f)) = Len(h)
        /\ \A i \in 1..Len(h) : Rearranged(h, f)[i] = h[f[i]]
        /\ ToSet(Rearranged(h, f)) = {h[f[i]] : i \in 1..Len(h)}
        /\ IsInjective(h) /\ IsInjective(f) => IsInjective(Rearranged(h, f))
    BY <1>1, <1>4, RearrangeFacts, Zenon
  <2> QED  BY <1>3, <1>4, <2>1
<1>7. ToSet(g) = ToSet(h)
  <2>1. ASSUME NEW t \in ToSet(g)
        PROVE  t \in ToSet(h)
    <3>1. PICK i \in 1..Len(h) : t = h[f[i]]
      BY <1>6
    <3>2. f[i] \in 1..Len(h)
      BY <1>4
    <3> QED  BY <3>1, <3>2, MemberFacts
  <2>2. ASSUME NEW t \in ToSet(h)
        PROVE  t \in ToSet(g)
    <3>1. PICK k \in 1..Len(h) : t = h[k]
      BY MemberFacts
    <3>2. PICK i \in 1..Len(h) : f[i] = k
      BY <1>4
    <3> QED  BY <1>6, <3>1, <3>2
  <2> QED  BY <2>1, <2>2
<1>8. ASSUME NEW i \in 1..Len(h), i > n
      PROVE  g[i] = h[i]
  <2>1. i \notin P
    BY <1>2, <1>8
  <2>2. f[i] = i
    BY <1>5, <2>1 DEF From
  <2> QED  BY <1>6, <2>2
<1> QED  BY <1>6, <1>7, <1>8 DEF g

LEMMA PushOrders ==
    ASSUME NEW time, NEW ord, NEW h \in Seq(Timer), IsInjective(h),
           Linear(time, ord, ToSet(h)),
           NEW n \in 1..Len(h), IsHeapBut(time, ord, h, n)
    PROVE  IsHeap(time, ord, PushHeap(time, ord, h, n))
<1> DEFINE g == PushHeap(time, ord, h, n)
           P == Passed(time, ord, h, n)
           L(i, k) == LessThan(time, ord, h[i], h[k])
           f == Moves(P, n, Len(h))
<1>1. /\ n \in Nat \ {0} /\ Len(h) \in Nat
      /\ IsPart(P, n)
      /\ \A i \in P : i # n => L(i, n)
      /\ \A i \in P : i > 1 => (i \div 2 \in P <=> L(i \div 2, n))
  BY PassedFacts
<1>2. P \subseteq 1..n /\ n \in P
  BY <1>1, WayFacts DEF Way, IsPart
<1>3. \A i, k \in 1..Len(h) : i # k => (L(i, k) <=> ~L(k, i))
  BY MemberFacts DEF Linear
<1>4. \A i, k, m \in 1..Len(h) :
         i # k /\ k # m /\ i # m /\ L(i, k) /\ L(k, m) => L(i, m)
  BY MemberFacts DEF Linear
<1>5. \A i \in (2..Len(h)) \ {n} : ~L(i \div 2, i)
  BY DEF IsHeapBut
<1>6. n > 1 => \A i \in 2..Len(h) : i \div 2 = n => ~L(n \div 2, i)
  BY DEF IsHeapBut
<1>g. g = Rearranged(h, f)
  BY PushIs
<1> HIDE DEF g, P
<1>7. f \in [1..Len(h) -> 1..Len(h)] /\ \A i \in 1..Len(h) : f[i] = From(P, n, i)
  BY <1>1, MovesFacts, MovesAt, Zenon
<1> HIDE DEF f
<1>8. Len(g) = Len(h) /\ \A i \in 1..Len(h) : g[i] = h[f[i]]
  <2>1. /\ Rearranged(h, f) \in Seq(Timer) /\ Len(Rearranged(h, f)) = Len(h)
        /\ \A i \in 1..Len(h) : Rearranged(h, f)[i] = h[f[i]]
        /\ ToSet(Rearranged(h, f)) = {h[f[i]] : i \in 1..Len(h)}
        /\ IsInjective(h) /\ IsInjective(f) => IsInjective(Rearranged(h, f))
    BY <1>1, <1>7, RearrangeFacts, Zenon
  <2> QED  BY <1>g, <2>1
<1>9. ASSUME NEW i \in 2..Len(h)
      PROVE  ~L(f[i \div 2], f[i])
  <2>1. /\ i \in 1..Len(h) /\ i \div 2 \in 1..Len(h) /\ i \div 2 < i
        /\ (i \div 2) \div 2 < i \div 2
    OBVIOUS
  <2>2. f[i] = From(P, n, i) /\ f[i \div 2] = From(P, n, i \div 2)
    BY <1>7, <2>1
  <2> HIDE DEF L
  <2> DEFINE p == i \div 2
             q == p \div 2
  \* An element of the way has moved down, and its parent too or the moved one
  \* is its parent.
  <2>3. CASE i \in P /\ p \in P
    <3>1. f[i] = p /\ p # n /\ i # n => ~L(p, i)
      BY <1>5, <2>2, <2>3 DEF From
    <3>2. f[i] = p /\ p < n
      BY <1>2, <2>1, <2>2, <2>3 DEF From
    <3>3. CASE q \in P
      <4>1. f[p] = q /\ p \in 2..Len(h)
        BY <1>2, <2>1, <2>2, <2>3, <3>3 DEF From
      <4> QED  BY <1>5, <3>2, <4>1
    <3>4. CASE q \notin P
      <4>1. f[p] = n
        BY <2>2, <2>3, <3>4 DEF From
      <4>2. L(p, n) /\ n \in 1..Len(h) /\ p # n
        BY <1>1, <2>3, <3>2
      <4> QED  BY <1>3, <2>1, <3>2, <4>1, <4>2
    <3> QED  BY <3>3, <3>4
  \* The moved element has stayed below a larger one.
  <2>4. CASE i \in P /\ p \notin P
    <3>1. f[i] = n /\ f[p] = p
      BY <2>2, <2>4 DEF From
    <3>2. ~L(p, n)
      BY <1>1, <2>4
    <3> QED  BY <3>1, <3>2
  \* An element beside the way.
  <2>5. CASE i \notin P /\ p \in P
    <3>1. f[i] = i /\ i # n /\ ~L(p, i)
      <4>1. f[i] = i
        BY <2>2, <2>5 DEF From
      <4>2. i # n
        BY <1>2, <2>5
      <4> QED  BY <1>5, <4>1, <4>2
    <3>2. CASE q \in P
      <4>1. f[p] = q /\ p \in 2..Len(h) /\ q \in 1..Len(h)
        BY <1>2, <2>1, <2>2, <2>5, <3>2 DEF From
      <4>2. CASE p = n
        BY <1>6, <3>1, <4>1, <4>2
      <4>3. CASE p # n
        <5>1. ~L(q, p)
          BY <1>5, <4>1, <4>3
        <5>2. L(p, q) /\ L(i, p)
          BY <1>3, <2>1, <3>1, <4>1, <5>1
        <5>3. L(i, q)
          BY <1>4, <2>1, <4>1, <5>2
        <5> QED  BY <1>3, <2>1, <3>1, <4>1, <5>3
      <4> QED  BY <4>2, <4>3
    <3>3. CASE q \notin P
      <4>1. f[p] = n
        BY <2>2, <2>5, <3>3 DEF From
      <4>2. CASE p = n
        BY <3>1, <4>1, <4>2
      <4>3. CASE p # n
        <5>1. L(p, n) /\ L(i, p)
          BY <1>1, <1>3, <2>1, <2>5, <3>1, <4>3
        <5>2. L(i, n)
          BY <1>4, <2>1, <3>1, <4>3, <5>1
        <5> QED  BY <1>3, <2>1, <3>1, <4>1, <5>2
      <4> QED  BY <4>2, <4>3
    <3> QED  BY <3>2, <3>3
  <2>6. CASE i \notin P /\ p \notin P
    <3>1. f[i] = i /\ f[p] = p
      BY <2>2, <2>6 DEF From
    <3>2. i # n
      BY <1>2, <2>6
    <3> QED  BY <1>5, <3>1, <3>2
  <2> QED  BY <2>3, <2>4, <2>5, <2>6
<1>10. ASSUME NEW i \in 2..Len(g)
       PROVE  ~LessThan(time, ord, g[i \div 2], g[i])
  <2>1. i \in 2..Len(h) /\ i \in 1..Len(h) /\ i \div 2 \in 1..Len(h)
    BY <1>8
  <2> QED  BY <1>8, <1>9, <2>1
<1> QED  BY <1>10 DEF IsHeap, g

\* An element that is larger than all on its way moves to the top.
LEMMA PushToTop ==
    ASSUME NEW time, NEW ord, NEW h \in Seq(Timer), NEW n \in 1..Len(h),
           \A i \in 1..Len(h) : i # n => LessThan(time, ord, h[i], h[n])
    PROVE  PushHeap(time, ord, h, n)[1] = h[n]
<1> DEFINE P == Passed(time, ord, h, n)
<1>1. Way(n)
  BY WayFacts
<1>2. 1 \in P
  BY <1>1 DEF Passed, Way
<1>3. P \subseteq 1..n
  BY <1>1 DEF Passed, Way
<1>4. 1 \in 1..Len(h) /\ From(P, n, 1) = n
  <2>1. 1 \div 2 = 0 /\ 0 \notin P
    BY <1>3
  <2> HIDE DEF P
  <2> QED  BY <1>2, <2>1 DEF From
<1>5. PushHeap(time, ord, h, n)[1] = h[From(P, n, 1)]
  BY <1>4 DEF PushHeap, Passed, From
<1> QED  BY <1>4, <1>5

\* The larger of the children of place i in a heap of m elements.
Larger(time, ord, h, m, i) ==
    IF 2 * i + 1 > m \/ LessThan(time, ord, h[2 * i + 1], h[2 * i])
    THEN 2 * i ELSE 2 * i + 1

\* The hole of pop_heap comes past place i, and stays at it.
ComesPast(time, ord, h, m, i) ==
    \A k \in WayUp[i] \ {1} : k = Larger(time, ord, h, m, k \div 2)

IsEnd(time, ord, h, m, i) ==
    i \in 1..m /\ 2 * i > m /\ ComesPast(time, ord, h, m, i)

\* Where the elements come from once the hole is closed.
Closing(time, ord, h, m, leaf) ==
    [i \in 1..m |-> IF i = leaf THEN m + 1
                    ELSE IF i \in WayUp[leaf] THEN Larger(time, ord, h, m, i) ELSE i]

LEMMA LargerFacts ==
    ASSUME NEW time, NEW ord, NEW h, NEW m \in Nat, NEW i \in Nat \ {0}
    PROVE  LET j == Larger(time, ord, h, m, i)
           IN  /\ j \in {2 * i, 2 * i + 1}
               /\ j \in Nat \ {0} /\ j > 1 /\ j > i /\ j \div 2 = i
               /\ 2 * i <= m => j <= m
               /\ j = 2 * i /\ 2 * i + 1 <= m =>
                     LessThan(time, ord, h[2 * i + 1], h[2 * i])
               /\ j = 2 * i + 1 => ~LessThan(time, ord, h[2 * i + 1], h[2 * i])
BY DEF Larger

\* The hole ends at some leaf.
LEMMA EndExists ==
    ASSUME NEW time, NEW ord, NEW h, NEW m \in Nat \ {0}
    PROVE  \E i \in 1..m : IsEnd(time, ord, h, m, i)
<1> DEFINE Past(i) == ComesPast(time, ord, h, m, i)
           Left == {m - i : i \in {k \in 1..m : Past(k)}}
<1>1. Past(1)
  <2>1. WayUp[1] \subseteq 1..1
    BY WayFacts DEF Way
  <2> QED  BY <2>1 DEF ComesPast
<1> HIDE DEF Past
<1>2. PICK l \in Left : \A k \in Left : l <= k
  <2>1. Left \in SUBSET Nat
    OBVIOUS
  <2>2. m - 1 \in Left
    BY <1>1
  <2> HIDE DEF Left
  <2> QED  BY <2>1, <2>2, SmallestNumber
<1>3. PICK i \in 1..m : Past(i) /\ l = m - i
  OBVIOUS
<1>4. \A k \in 1..m : Past(k) => k <= i
  <2>1. ASSUME NEW k \in 1..m, Past(k)
        PROVE  k <= i
    <3>1. l <= m - k
      BY <1>2, <2>1
    <3> QED  BY <1>3, <3>1
  <2> QED  BY <2>1
<1> HIDE DEF Left
<1>5. ASSUME 2 * i <= m
      PROVE  FALSE
  <2> DEFINE j == Larger(time, ord, h, m, i)
  <2>1. j \in 1..m /\ j > 1 /\ j > i /\ j \div 2 = i
    BY <1>5, LargerFacts
  <2> HIDE DEF j
  <2>2. WayUp[j] = {j} \cup WayUp[i]
    <3>1. j \in Nat /\ j # 0
      BY <2>1
    <3>2. WayUp[j] = IF j = 0 THEN {} ELSE {j} \cup WayUp[j \div 2]
      BY <3>1, WayUpDef
    <3> QED  BY <2>1, <3>1, <3>2
  <2>3. ASSUME NEW k \in WayUp[j] \ {1}
        PROVE  k = Larger(time, ord, h, m, k \div 2)
    <3>1. CASE k = j
      BY <2>1, <3>1 DEF j
    <3>2. CASE k # j
      BY <1>3, <2>2, <2>3, <3>2 DEF Past, ComesPast
    <3> QED  BY <3>1, <3>2
  <2>4. Past(j)
    BY <2>3 DEF Past, ComesPast
  <2> QED  BY <1>4, <2>1, <2>4
<1> QED  BY <1>3, <1>5 DEF IsEnd, Past

\* The hole goes from a place of its way to the next one.
LEMMA EndFacts ==
    ASSUME NEW time, NEW ord, NEW h, NEW m \in Nat \ {0}, NEW leaf,
           IsEnd(time, ord, h, m, leaf)
    PROVE  /\ leaf \in 1..m /\ 2 * leaf > m
           /\ leaf \in WayUp[leaf] /\ 1 \in WayUp[leaf] /\ WayUp[leaf] \subseteq 1..leaf
           /\ \A i \in WayUp[leaf] : i > 1 =>
                 i \div 2 \in WayUp[leaf] /\ i = Larger(time, ord, h, m, i \div 2)
           /\ \A i \in WayUp[leaf] \ {leaf} :
                 Larger(time, ord, h, m, i) \in WayUp[leaf]
<1>1. leaf \in 1..m /\ 2 * leaf > m /\ ComesPast(time, ord, h, m, leaf)
  BY DEF IsEnd
<1>2. Way(leaf)
  BY <1>1, WayFacts
<1>3. leaf \in WayUp[leaf] /\ 1 \in WayUp[leaf] /\ WayUp[leaf] \subseteq 1..leaf
  BY <1>2 DEF Way
<1>4. ASSUME NEW i \in WayUp[leaf], i > 1
      PROVE  i \div 2 \in WayUp[leaf] /\ i = Larger(time, ord, h, m, i \div 2)
  <2>1. i \div 2 \in WayUp[leaf]
    BY <1>2, <1>4 DEF Way
  <2>2. i # 1
    BY <1>4
  <2> QED  BY <1>1, <2>1, <2>2 DEF ComesPast
<1>5. ASSUME NEW i \in WayUp[leaf] \ {leaf}
      PROVE  Larger(time, ord, h, m, i) \in WayUp[leaf]
  <2>1. PICK k \in WayUp[leaf] : k > 1 /\ k \div 2 = i
    BY <1>2 DEF Way
  <2>2. k = Larger(time, ord, h, m, i)
    BY <1>4, <2>1
  <2> QED  BY <2>1, <2>2
<1> QED  BY <1>1, <1>3, <1>4, <1>5

LEMMA ClosingFacts ==
    ASSUME NEW time, NEW ord, NEW h, NEW m \in Nat \ {0}, NEW leaf,
           IsEnd(time, ord, h, m, leaf)
    PROVE  /\ Closing(time, ord, h, m, leaf) \in [1..m -> 1..(m + 1)]
           /\ IsInjective(Closing(time, ord, h, m, leaf))
           /\ \A i \in 1..m : Closing(time, ord, h, m, leaf)[i] # 1
           /\ \A k \in 2..(m + 1) : \E i \in 1..m :
                 Closing(time, ord, h, m, leaf)[i] = k
<1> DEFINE f == Closing(time, ord, h, m, leaf)
           W == WayUp[leaf]
           J(i) == Larger(time, ord, h, m, i)
<1>1. /\ leaf \in 1..m /\ 2 * leaf > m
      /\ leaf \in W /\ 1 \in W /\ W \subseteq 1..leaf
      /\ \A i \in W : i > 1 => i \div 2 \in W /\ i = J(i \div 2)
      /\ \A i \in W \ {leaf} : J(i) \in W
  BY EndFacts
<1>2. \A i \in Nat \ {0} : J(i) > 1 /\ J(i) \div 2 = i
  BY LargerFacts
<1>3. f = [i \in 1..m |-> IF i = leaf THEN m + 1 ELSE IF i \in W THEN J(i) ELSE i]
  BY DEF Closing
<1> HIDE DEF f, W, J
<1>4. W \subseteq 1..m
  BY <1>1
<1>5. \A i \in 1..m : i = leaf \/ (i \in W /\ i # leaf) \/ i \notin W
  OBVIOUS
<1>6. f[leaf] = m + 1
  BY <1>1, <1>3
<1>7. \A i \in W \ {leaf} : f[i] = J(i) /\ f[i] \in W /\ f[i] # 1 /\ f[i] # m + 1
  BY <1>1, <1>2, <1>3, <1>4
<1>8. \A i \in (1..m) \ W : f[i] = i /\ i # 1 /\ i # m + 1
  BY <1>1, <1>3
<1>9. ASSUME NEW i \in 1..m
      PROVE  f[i] \in 1..(m + 1) /\ f[i] # 1
  <2>1. CASE i = leaf
    BY <1>6, <2>1
  <2>2. CASE i \in W /\ i # leaf
    <3>1. f[i] \in W /\ f[i] # 1
      BY <1>7, <2>2
    <3>2. f[i] \in 1..m
      BY <1>4, <3>1
    <3> QED  BY <3>1, <3>2
  <2>3. CASE i \notin W
    BY <1>8, <2>3
  <2> QED  BY <2>1, <2>2, <2>3
<1>10. f \in [1..m -> 1..(m + 1)]
  <2>1. f = [i \in 1..m |-> f[i]]
    BY <1>3
  <2> QED  BY <1>9, <2>1
<1>11. ASSUME NEW i \in 1..m, NEW k \in 1..m, f[i] = f[k]
       PROVE  i = k
  <2>1. CASE i \in W \ {leaf} /\ k \in W \ {leaf}
    <3>1. J(i) = J(k)
      BY <1>7, <1>11, <2>1
    <3> QED  BY <1>2, <3>1
  <2>2. CASE i \in W \ {leaf} /\ k \notin W \ {leaf}
    BY <1>6, <1>7, <1>8, <1>11, <2>2
  <2>3. CASE i \notin W \ {leaf} /\ k \in W \ {leaf}
    BY <1>6, <1>7, <1>8, <1>11, <2>3
  <2>4. CASE i \notin W \ {leaf} /\ k \notin W \ {leaf}
    BY <1>6, <1>8, <1>11, <2>4
  <2> QED  BY <2>1, <2>2, <2>3, <2>4
<1>12. IsInjective(f)
  BY <1>3, <1>11 DEF IsInjective
<1>13. ASSUME NEW k \in 2..(m + 1)
       PROVE  \E i \in 1..m : f[i] = k
  <2>1. CASE k = m + 1
    BY <1>1, <1>6, <2>1
  <2>2. CASE k # m + 1 /\ k \notin W
    BY <1>8, <2>2
  <2>3. CASE k # m + 1 /\ k \in W
    <3>1. k > 1 /\ k \in 1..m
      BY <2>3
    <3>2. k \div 2 \in W /\ k = J(k \div 2)
      BY <1>1, <2>3, <3>1
    <3>3. k \div 2 # leaf
      BY <1>1, <3>1
    <3> QED  BY <1>4, <1>7, <3>2, <3>3
  <2> QED  BY <2>1, <2>2, <2>3
<1> QED  BY <1>9, <1>10, <1>12, <1>13 DEF f

LEMMA PopIs ==
    ASSUME NEW time, NEW ord, NEW h, Len(h) - 1 \in Nat \ {0}
    PROVE  \E leaf \in 1..(Len(h) - 1) :
              /\ IsEnd(time, ord, h, Len(h) - 1, leaf)
              /\ PopHeap(time, ord, h) =
                    Append(PushHeap(time, ord,
                              Rearranged(h, Closing(time, ord, h, Len(h) - 1, leaf)),
                              leaf),
                           h[1])
<1> DEFINE m == Len(h) - 1
           leaf == CHOOSE i \in 1..m :
              2 * i > m /\ \A k \in WayUp[i] \ {1} : k = Larger(time, ord, h, m, k \div 2)
           closed == [i \in 1..m |->
              IF i = leaf THEN h[m + 1]
              ELSE IF i \in WayUp[leaf] THEN h[Larger(time, ord, h, m, i)] ELSE h[i]]
<1>1. ~(m < 1)
  OBVIOUS
<1>2. PopHeap(time, ord, h) =
         IF m < 1 THEN h ELSE Append(PushHeap(time, ord, closed, leaf), h[1])
  BY DEF PopHeap, Larger
<1>3. leaf \in 1..m /\ IsEnd(time, ord, h, m, leaf)
  BY EndExists DEF IsEnd, ComesPast
<1> HIDE DEF leaf
<1>4. closed = Rearranged(h, Closing(time, ord, h, m, leaf))
  BY DEF Rearranged, Closing
<1> HIDE DEF closed
<1> QED  BY <1>1, <1>2, <1>3, <1>4

\* Below the end of its way the hole leaves nothing, and beside it nothing larger.
LEMMA ClosedOrders ==
    ASSUME NEW time, NEW ord, NEW h \in Seq(Timer), IsInjective(h),
           Linear(time, ord, ToSet(h)), IsHeap(time, ord, h),
           NEW m \in Nat \ {0}, Len(h) = m + 1,
           NEW leaf, IsEnd(time, ord, h, m, leaf),
           NEW g, Len(g) = m,
           \A i \in 1..m : g[i] = h[Closing(time, ord, h, m, leaf)[i]]
    PROVE  IsHeapBut(time, ord, g, leaf)
<1> DEFINE W == WayUp[leaf]
           J(i) == Larger(time, ord, h, m, i)
           L(i, k) == LessThan(time, ord, h[i], h[k])
<1>1. /\ leaf \in 1..m /\ 2 * leaf > m
      /\ leaf \in W /\ 1 \in W /\ W \subseteq 1..leaf
      /\ \A i \in W : i > 1 => i \div 2 \in W /\ i = J(i \div 2)
      /\ \A i \in W \ {leaf} : J(i) \in W
  BY ONLY m \in Nat \ {0}, IsEnd(time, ord, h, m, leaf), EndFacts, Zenon
<1>2. \A i \in Nat \ {0} :
         /\ J(i) \in {2 * i, 2 * i + 1} /\ J(i) > 1 /\ J(i) \div 2 = i
         /\ J(i) = 2 * i /\ 2 * i + 1 <= m => L(2 * i + 1, 2 * i)
         /\ J(i) = 2 * i + 1 => ~L(2 * i + 1, 2 * i)
  BY LargerFacts
<1>3. /\ \A i \in W \ {leaf} : g[i] = h[J(i)]
      /\ \A i \in (1..m) \ W : g[i] = h[i]
  BY <1>1 DEF Closing
<1>4. \A i \in 2..(m + 1) : ~L(i \div 2, i)
  BY DEF IsHeap
<1>5. \A i, k \in 1..(m + 1) : i # k => (L(i, k) <=> ~L(k, i))
  BY MemberFacts DEF Linear
<1> HIDE DEF W, J
<1>6. ASSUME NEW i \in 2..m, i # leaf
      PROVE  ~LessThan(time, ord, g[i \div 2], g[i])
  <2> DEFINE p == i \div 2
  <2>1. p \in 1..m /\ p # leaf /\ i \in {2 * p, 2 * p + 1} /\ p \in Nat \ {0} /\ i \in 1..m
    BY <1>1
  <2>2. CASE i \in W
    <3>1. p \in W /\ i = J(p)
      BY <1>1, <2>2
    <3>2. g[p] = h[i] /\ g[i] = h[J(i)] /\ J(i) \in W /\ i \in Nat \ {0}
      BY <1>1, <1>3, <1>6, <2>1, <2>2, <3>1
    <3>3. J(i) \in 2..(m + 1) /\ J(i) \div 2 = i
      <4>1. J(i) > 1 /\ J(i) \div 2 = i
        BY <1>2, <3>2
      <4>2. 1..leaf \subseteq 1..m
        BY <1>1
      <4>3. J(i) \in 1..m
        BY <1>1, <3>2, <4>2
      <4> QED  BY <4>1, <4>3
    <3>4. ~L(i, J(i))
      BY <1>4, <3>3
    <3> QED  BY <3>2, <3>4
  <2>3. CASE i \notin W /\ p \in W
    <3>1. g[p] = h[J(p)] /\ g[i] = h[i] /\ J(p) \in W
      BY <1>1, <1>3, <2>1, <2>3
    <3>2. i # J(p)
      BY <2>3, <3>1
    <3>3. CASE J(p) = 2 * p
      <4>1. i = 2 * p + 1
        BY <2>1, <3>2, <3>3
      <4>2. L(i, J(p))
        <5>1. 2 * p + 1 <= m
          BY <4>1
        <5>2. L(2 * p + 1, 2 * p)
          BY <1>2, <2>1, <3>3, <5>1
        <5> QED  BY <3>3, <4>1, <5>2
      <4>3. J(p) \in 1..(m + 1) /\ i \in 1..(m + 1)
        BY <2>1, <3>3, <4>1
      <4>4. ~L(J(p), i)
        BY <1>5, <3>2, <4>2, <4>3
      <4> QED  BY <3>1, <4>4
    <3>4. CASE J(p) = 2 * p + 1
      <4>1. i = 2 * p
        BY <2>1, <3>2, <3>4
      <4>2. ~L(J(p), i)
        BY <1>2, <2>1, <3>4, <4>1
      <4> QED  BY <3>1, <4>2
    <3> QED  BY <1>2, <2>1, <3>3, <3>4
  <2>4. CASE i \notin W /\ p \notin W
    <3>1. g[p] = h[p] /\ g[i] = h[i] /\ i \in 2..(m + 1)
      BY <1>3, <2>1, <2>4
    <3> QED  BY <1>4, <3>1
  <2>5. i \in W => p \in W
    BY <1>1
  <2> QED  BY <2>2, <2>3, <2>4
<1>7. \A i \in 2..m : i \div 2 # leaf
  BY <1>1
<1> QED  BY <1>6, <1>7 DEF IsHeapBut

\* pop_heap takes the largest element to the end and leaves a heap before it.
LEMMA PopFacts ==
    ASSUME NEW time, NEW ord, NEW h \in Seq(Timer), h # <<>>, IsInjective(h),
           Linear(time, ord, ToSet(h)), IsHeap(time, ord, h)
    PROVE  LET g == PopHeap(time, ord, h)
           IN  /\ g \in Seq(Timer) /\ Len(g) = Len(h) /\ IsInjective(g)
               /\ ToSet(g) = ToSet(h)
               /\ g[Len(g)] = h[1]
               /\ \A i \in 2..(Len(g) - 1) : ~LessThan(time, ord, g[i \div 2], g[i])
<1> DEFINE g == PopHeap(time, ord, h)
           m == Len(h) - 1
<1>1. Len(h) \in Nat \ {0} /\ m \in Nat /\ Len(h) = m + 1
  OBVIOUS
<1> HIDE DEF g, m
<1>2. CASE m = 0
  <2>1. g = IF m < 1 THEN h ELSE g
    BY DEF PopHeap, g, m
  <2>2. g = h
    BY <1>2, <2>1
  <2>3. Len(h) = 1
    BY <1>1, <1>2
  <2>4. \A i \in 2..(Len(h) - 1) : FALSE
    BY <2>3
  <2> QED  BY <2>2, <2>3, <2>4 DEF g
<1>3. CASE m # 0
  <2>1. PICK leaf \in 1..m :
           /\ IsEnd(time, ord, h, m, leaf)
           /\ g = Append(PushHeap(time, ord,
                    Rearranged(h, Closing(time, ord, h, m, leaf)), leaf), h[1])
    BY <1>1, <1>3, PopIs DEF g, m
  <2> DEFINE f == Closing(time, ord, h, m, leaf)
             c == Rearranged(h, f)
             b == PushHeap(time, ord, c, leaf)
  <2>2. m \in Nat \ {0}
    BY <1>1, <1>3
  <2>3. /\ f \in [1..m -> 1..(m + 1)] /\ IsInjective(f)
        /\ \A i \in 1..m : f[i] # 1
        /\ \A k \in 2..(m + 1) : \E i \in 1..m : f[i] = k
    BY <2>1, <2>2, ClosingFacts
  <2> HIDE DEF f
  <2>4. f \in [1..m -> 1..Len(h)]
    BY <1>1, <2>3
  <2>5. /\ c \in Seq(Timer) /\ Len(c) = m
        /\ \A i \in 1..m : c[i] = h[f[i]]
        /\ ToSet(c) = {h[f[i]] : i \in 1..m}
        /\ IsInjective(c)
    <3>1. /\ Rearranged(h, f) \in Seq(Timer) /\ Len(Rearranged(h, f)) = m
          /\ \A i \in 1..m : Rearranged(h, f)[i] = h[f[i]]
          /\ ToSet(Rearranged(h, f)) = {h[f[i]] : i \in 1..m}
          /\ IsInjective(h) /\ IsInjective(f) => IsInjective(Rearranged(h, f))
      BY <1>1, <2>4, RearrangeFacts, Zenon
    <3> QED  BY <2>3, <3>1
  <2> HIDE DEF c
  <2>6. ToSet(c) = ToSet(h) \ {h[1]}
    <3>1. ASSUME NEW t \in ToSet(c)
          PROVE  t \in ToSet(h) \ {h[1]}
      <4>1. PICK i \in 1..m : t = h[f[i]]
        BY <2>5
      <4>2. f[i] \in 1..Len(h) /\ f[i] # 1 /\ 1 \in 1..Len(h)
        BY <1>1, <2>3, <2>4
      <4> QED  BY <4>1, <4>2, MemberFacts
    <3>2. ASSUME NEW t \in ToSet(h), t # h[1]
          PROVE  t \in ToSet(c)
      <4>1. PICK k \in 1..Len(h) : t = h[k]
        BY MemberFacts
      <4>2. k \in 2..(m + 1)
        BY <1>1, <3>2, <4>1
      <4>3. PICK i \in 1..m : f[i] = k
        BY <2>3, <4>2
      <4> QED  BY <2>5, <4>1, <4>3
    <3> QED  BY <3>1, <3>2
  <2>7. Linear(time, ord, ToSet(c))
    BY <2>6 DEF Linear
  <2>8. IsHeapBut(time, ord, c, leaf)
    <3>1. \A i \in 1..m : c[i] = h[Closing(time, ord, h, m, leaf)[i]]
      BY <2>5 DEF f
    <3> QED  BY <1>1, <2>1, <2>2, <2>5, <3>1, ClosedOrders
  <2>9. leaf \in 1..Len(c)
    BY <2>1, <2>5
  <2>10. /\ b \in Seq(Timer) /\ Len(b) = m /\ IsInjective(b)
         /\ ToSet(b) = ToSet(c) /\ IsHeap(time, ord, b)
    <3>0. c \in Seq(Timer) /\ IsInjective(c)
      BY <2>5
    <3>1. /\ b \in Seq(Timer) /\ Len(b) = Len(c) /\ IsInjective(b)
          /\ ToSet(b) = ToSet(c)
      BY ONLY <3>0, <2>9, PushMembers
    <3>2. IsHeap(time, ord, b)
      BY <2>5, <2>7, <2>8, <2>9, PushOrders, Zenon
    <3> HIDE DEF b
    <3> QED  BY <2>5, <3>1, <3>2
  <2>11. g = Append(b, h[1])
    BY <2>1 DEF c, f
  <2> HIDE DEF b
  <2>12. h[1] \in Timer /\ h[1] \in ToSet(h) /\ h[1] \notin ToSet(b)
    BY <1>1, <2>6, <2>10, MemberFacts
  <2>13. /\ g \in Seq(Timer) /\ Len(g) = m + 1
         /\ \A i \in 1..m : g[i] = b[i]
         /\ g[m + 1] = h[1]
         /\ ToSet(g) = ToSet(b) \cup {h[1]}
         /\ IsInjective(g)
    BY <2>10, <2>11, <2>12, AppendMembers
  <2>14. ToSet(g) = ToSet(h)
    BY <2>6, <2>10, <2>12, <2>13
  <2>15. ASSUME NEW i \in 2..(Len(g) - 1)
         PROVE  ~LessThan(time, ord, g[i \div 2], g[i])
    <3>1. i \in 2..m /\ i \in 1..m /\ i \div 2 \in 1..m
      BY <2>2, <2>13
    <3>2. ~LessThan(time, ord, b[i \div 2], b[i])
      BY <2>10, <3>1 DEF IsHeap
    <3> QED  BY <2>13, <3>1, <3>2
  <2> QED  BY <1>1, <2>13, <2>14, <2>15 DEF g
<1> QED  BY <1>2, <1>3 DEF g

-----------------------------------------------------------------------------
(* The order of the timers.                                                  *)

LEMMA DifferenceIs ==
    ASSUME NEW M \in Nat \ {0}, NEW c \in 0..(M - 1), NEW x \in 0..(M - 1)
    PROVE  (c - x) % M = IF x <= c THEN c - x ELSE c - x + M
<1> DEFINE d == c - x
<1>1. d \in Int /\ -M <= d /\ d < M /\ (x <= c <=> 0 <= d)
  OBVIOUS
<1> HIDE DEF d
<1>2. d % M = IF 0 <= d THEN d ELSE d + M
  <2>1. 0 <= d => d % M = d
    BY <1>1
  <2>2. ~(0 <= d) => d % M = d + M
    BY <1>1
  <2> QED  BY <2>1, <2>2
<1> QED  BY <1>1, <1>2 DEF d

LEMMA SuccessorIs ==
    ASSUME NEW M \in Nat \ {0}, NEW c \in 0..(M - 1)
    PROVE  (c + 1) % M = IF c + 1 < M THEN c + 1 ELSE 0
<1> DEFINE d == c + 1
<1>1. d \in Int /\ 0 <= d /\ d <= M /\ (d < M \/ d = M)
  OBVIOUS
<1> HIDE DEF d
<1>2. d < M => d % M = d
  BY <1>1
<1>3. ~(d < M) => d % M = 0
  BY <1>1
<1> QED  BY <1>2, <1>3 DEF d

\* Which of two counts came later, when both are recent.
LEMMA LaterCount ==
    ASSUME NEW M \in Nat \ {0}, NEW H \in Nat, 2 * H < M,
           NEW c \in 0..(M - 1), NEW x \in 0..(M - 1), NEW y \in 0..(M - 1),
           (c - x) % M # (c - y) % M,
           ((c - x) % M) - ((c - y) % M) < H,
           ((c - y) % M) - ((c - x) % M) < H
    PROVE  (x - y) % M < H <=> (c - x) % M < (c - y) % M
<1> DEFINE a == (c - x) % M
           b == (c - y) % M
           d == (x - y) % M
<1>1. a = IF x <= c THEN c - x ELSE c - x + M
  BY DifferenceIs
<1>2. b = IF y <= c THEN c - y ELSE c - y + M
  BY DifferenceIs
<1>3. d = IF y <= x THEN x - y ELSE x - y + M
  BY DifferenceIs
<1>4. a # b /\ a - b < H /\ b - a < H
  OBVIOUS
<1> HIDE DEF a, b, d
<1>5. d < H <=> a < b
  BY <1>1, <1>2, <1>3, <1>4
<1> QED  BY <1>5 DEF a, b, d

\* The count goes on by one.
LEMMA NextCount ==
    ASSUME NEW M \in Nat \ {0}, NEW H \in Nat, 2 * H < M,
           NEW c \in 0..(M - 1), NEW x \in 0..(M - 1), (c - x) % M < H
    PROVE  /\ (c + 1) % M \in 0..(M - 1)
           /\ (((c + 1) % M) - x) % M = ((c - x) % M) + 1
<1> DEFINE a == (c - x) % M
           n == (c + 1) % M
<1>1. a = IF x <= c THEN c - x ELSE c - x + M
  BY DifferenceIs
<1>2. n = IF c + 1 < M THEN c + 1 ELSE 0
  BY SuccessorIs
<1>3. a < H
  OBVIOUS
<1> HIDE DEF a, n
<1>4. n \in 0..(M - 1)
  BY <1>2
<1>5. (n - x) % M = IF x <= n THEN n - x ELSE n - x + M
  BY <1>4, DifferenceIs
<1>6. IF x <= n THEN n - x = a + 1 ELSE n - x + M = a + 1
  BY <1>1, <1>2, <1>3
<1>7. (n - x) % M = a + 1
  BY <1>5, <1>6
<1> QED  BY <1>4, <1>7 DEF a, n

\* How long ago timer t was set, in timers that have been set since.
Age(cur, ord, t) == (cur - ord[t]) % 2^Width

\* Each of the timers was set at a count of its own, and all recently.
Recent(cur, ord, S) ==
    \A t, u \in S : t # u =>
        /\ Age(cur, ord, t) # Age(cur, ord, u)
        /\ Age(cur, ord, t) - Age(cur, ord, u) < HalfRange

LEMMA AgeType ==
    ASSUME NEW cur \in Unsigned, NEW ord \in [Timer -> Unsigned], NEW t \in Timer
    PROVE  Age(cur, ord, t) \in Unsigned
<1> DEFINE M == 2^Width
           o == ord[t]
<1>1. M \in Nat \ {0}
  BY ModulusFacts
<1>2. cur \in 0..(M - 1) /\ o \in 0..(M - 1)
  BY DEF Unsigned
<1> HIDE DEF M, o
<1>3. (cur - o) % M \in 0..(M - 1)
  BY <1>1, <1>2
<1> QED  BY <1>3 DEF M, o, Unsigned, Age

LEMMA LessThanIs ==
    ASSUME NEW time, NEW ord \in [Timer -> Unsigned], NEW cur \in Unsigned,
           NEW S \in SUBSET Timer, Recent(cur, ord, S),
           NEW t \in S, NEW u \in S, t # u
    PROVE  LessThan(time, ord, t, u) <=>
              IF time[t] # time[u] THEN time[u] < time[t]
              ELSE Age(cur, ord, t) < Age(cur, ord, u)
<1> DEFINE M == 2^Width
           x == ord[t]
           y == ord[u]
<1>1. M \in Nat \ {0}
  BY ModulusFacts
<1>2. cur \in 0..(M - 1) /\ x \in 0..(M - 1) /\ y \in 0..(M - 1)
  BY DEF Unsigned
<1>3. HalfRange \in Nat /\ 2 * HalfRange < M
  BY HalfRangeFacts
<1>4. /\ (cur - x) % M # (cur - y) % M
      /\ ((cur - x) % M) - ((cur - y) % M) < HalfRange
      /\ ((cur - y) % M) - ((cur - x) % M) < HalfRange
  BY Zenon DEF Recent, Age
<1> HIDE DEF M, x, y
<1>5. (x - y) % M < HalfRange <=> (cur - x) % M < (cur - y) % M
  BY <1>1, <1>2, <1>3, <1>4, LaterCount
<1> QED  BY <1>5, Zenon DEF LessThan, Age, M, x, y

LEMMA LinearFacts ==
    ASSUME NEW time \in [Timer -> Int], NEW ord \in [Timer -> Unsigned],
           NEW cur \in Unsigned, NEW S \in SUBSET Timer, Recent(cur, ord, S)
    PROVE  Linear(time, ord, S)
<1> DEFINE a(t) == Age(cur, ord, t)
           L(t, u) == LessThan(time, ord, t, u)
<1>1. \A t, u \in S : t # u =>
         (L(t, u) <=> IF time[t] # time[u] THEN time[u] < time[t] ELSE a(t) < a(u))
  BY LessThanIs, Zenon
<1>2. \A t \in S : time[t] \in Int /\ a(t) \in Int
  <2>1. \A t \in S : a(t) \in Unsigned
    BY AgeType
  <2>2. Unsigned \subseteq Int
    BY ModulusFacts DEF Unsigned
  <2> QED  BY <2>1, <2>2
<1>3. \A t, u \in S : t # u => a(t) # a(u)
  BY DEF Recent
<1> HIDE DEF a, L
<1>4. \A t, u \in S : t # u => (L(t, u) <=> ~L(u, t))
  BY <1>1, <1>2, <1>3
<1>5. \A t, u, v \in S : t # u /\ u # v /\ t # v /\ L(t, u) /\ L(u, v) => L(t, v)
  BY <1>1, <1>2
<1> QED  BY <1>4, <1>5 DEF Linear, L

-----------------------------------------------------------------------------
(* The heap functions of TimerBase.                                          *)

IsHeapOf(time, ord, h, S) ==
    /\ h \in Seq(Timer) /\ IsInjective(h) /\ ToSet(h) = S
    /\ IsHeap(time, ord, h)

\* Timer t is the last element, behind a heap of the others.
IsPopped(time, ord, h, S, t) ==
    /\ h \in Seq(Timer) /\ IsInjective(h) /\ ToSet(h) = S
    /\ h # <<>> /\ h[Len(h)] = t
    /\ \A i \in 2..(Len(h) - 1) : ~LessThan(time, ord, h[i \div 2], h[i])

\* The timers of S have the same keys in both.
SameKeys(time0, ord0, time, ord, S) ==
    \A u \in S : time[u] = time0[u] /\ ord[u] = ord0[u]

LEMMA SameLessThan ==
    ASSUME NEW time0, NEW ord0, NEW time, NEW ord, NEW S,
           SameKeys(time0, ord0, time, ord, S)
    PROVE  \A t, u \in S : LessThan(time, ord, t, u) <=> LessThan(time0, ord0, t, u)
BY Zenon DEF SameKeys, LessThan

LEMMA HeapIndexFacts ==
    ASSUME NEW h \in Seq(Timer), NEW t \in ToSet(h)
    PROVE  HeapIndex(h, t) \in 1..Len(h) /\ h[HeapIndex(h, t)] = t
<1>1. \E i \in 1..Len(h) : h[i] = t
  BY MemberFacts
<1> QED  BY <1>1 DEF HeapIndex

LEMMA PoppedFront ==
    ASSUME NEW time, NEW ord, NEW h, NEW S, NEW t, IsPopped(time, ord, h, S, t)
    PROVE  IsHeapOf(time, ord, Front(h), S \ {t})
<1> DEFINE f == Front(h)
           m == Len(h) - 1
<1>1. /\ h \in Seq(Timer) /\ IsInjective(h) /\ ToSet(h) = S
      /\ h # <<>> /\ h[Len(h)] = t
      /\ \A i \in 2..m : ~LessThan(time, ord, h[i \div 2], h[i])
  BY DEF IsPopped
<1>2. /\ f \in Seq(Timer) /\ Len(f) = m
      /\ \A i \in 1..m : f[i] = h[i]
  BY <1>1, FrontMembers
<1>3. Len(h) = m + 1 /\ m \in Nat
  BY <1>1
<1> HIDE DEF f, m
<1>4. \A i, k \in 1..(m + 1) : h[i] = h[k] => i = k
  BY <1>1, <1>3, MemberFacts
<1>5. ToSet(f) = S \ {t}
  <2>1. ASSUME NEW u \in ToSet(f)
        PROVE  u \in S \ {t}
    <3>1. PICK i \in 1..m : u = f[i]
      BY <1>2, MemberFacts
    <3>2. u = h[i] /\ i \in 1..(m + 1) /\ i # m + 1 /\ m + 1 \in 1..(m + 1)
      BY <1>2, <1>3, <3>1
    <3>3. u \in S
      BY <1>1, <1>3, <3>2, MemberFacts
    <3>4. u # t
      BY <1>1, <1>3, <1>4, <3>2
    <3> QED  BY <3>3, <3>4
  <2>2. ASSUME NEW u \in S, u # t
        PROVE  u \in ToSet(f)
    <3>1. PICK i \in 1..(m + 1) : u = h[i]
      BY <1>1, <1>3, MemberFacts
    <3>2. i \in 1..m /\ u = f[i]
      BY <1>1, <1>2, <1>3, <2>2, <3>1
    <3> QED  BY <1>2, <3>2, MemberFacts
  <2> QED  BY <2>1, <2>2
<1>6. IsInjective(f)
  <2>1. \A i, k \in 1..m : f[i] = f[k] => i = k
    BY <1>2, <1>3, <1>4
  <2> QED  BY <1>2, <2>1, MemberFacts
<1>7. IsHeap(time, ord, f)
  <2>1. ASSUME NEW i \in 2..Len(f)
        PROVE  ~LessThan(time, ord, f[i \div 2], f[i])
    <3>1. i \in 2..m /\ i \in 1..m /\ i \div 2 \in 1..m
      BY <1>2, <1>3
    <3> QED  BY <1>1, <1>2, <3>1
  <2> QED  BY <2>1 DEF IsHeap
<1> QED  BY <1>2, <1>5, <1>6, <1>7 DEF IsHeapOf, f

\* heapDecreaseKey of the last element.
LEMMA PoppedPushed ==
    ASSUME NEW time, NEW ord, NEW h, NEW S, NEW t, IsPopped(time, ord, h, S, t),
           Linear(time, ord, S)
    PROVE  IsHeapOf(time, ord, HeapDecreaseKey(time, ord, h, t), S)
<1> DEFINE n == HeapIndex(h, t)
<1>1. /\ h \in Seq(Timer) /\ IsInjective(h) /\ ToSet(h) = S
      /\ h # <<>> /\ h[Len(h)] = t
      /\ \A i \in 2..(Len(h) - 1) : ~LessThan(time, ord, h[i \div 2], h[i])
  BY DEF IsPopped
<1>2. Len(h) \in 1..Len(h) /\ Len(h) \in Nat
  BY <1>1
<1>3. t \in ToSet(h)
  BY <1>1, <1>2, MemberFacts
<1>4. n \in 1..Len(h) /\ h[n] = t
  BY <1>1, <1>3, HeapIndexFacts
<1> HIDE DEF n
<1>5. n = Len(h)
  BY <1>1, <1>2, <1>4, MemberFacts
<1>6. IsHeapBut(time, ord, h, n)
  <2>1. \A i \in (2..Len(h)) \ {n} : i \in 2..(Len(h) - 1)
    BY <1>2, <1>5
  <2>2. \A i \in 2..Len(h) : i \div 2 # n
    BY <1>2, <1>5
  <2> QED  BY <1>1, <2>1, <2>2 DEF IsHeapBut
<1>7. h \in Seq(Timer) /\ IsInjective(h) /\ Linear(time, ord, ToSet(h))
  BY <1>1
<1>8. IsHeap(time, ord, PushHeap(time, ord, h, n))
  BY ONLY <1>4, <1>6, <1>7, PushOrders
<1>9. /\ PushHeap(time, ord, h, n) \in Seq(Timer)
      /\ IsInjective(PushHeap(time, ord, h, n))
      /\ ToSet(PushHeap(time, ord, h, n)) = ToSet(h)
  BY ONLY <1>4, <1>7, PushMembers
<1> QED  BY <1>1, <1>8, <1>9 DEF IsHeapOf, HeapDecreaseKey, n

\* heapInsert
LEMMA InsertFacts ==
    ASSUME NEW time0, NEW ord0, NEW h, NEW S, IsHeapOf(time0, ord0, h, S),
           NEW time, NEW ord, SameKeys(time0, ord0, time, ord, S),
           NEW t \in Timer \ S, Linear(time, ord, S \cup {t})
    PROVE  IsHeapOf(time, ord, HeapInsert(time, ord, h, t), S \cup {t})
<1> DEFINE g == Append(h, t)
<1>1. h \in Seq(Timer) /\ IsInjective(h) /\ ToSet(h) = S /\ Len(h) \in Nat
  BY DEF IsHeapOf
<1>2. /\ g \in Seq(Timer) /\ Len(g) = Len(h) + 1
      /\ \A i \in 1..Len(h) : g[i] = h[i]
      /\ g[Len(h) + 1] = t
      /\ ToSet(g) = ToSet(h) \cup {t}
      /\ IsInjective(g)
  BY <1>1, AppendMembers
<1>0. \A u, v \in S : LessThan(time, ord, u, v) <=> LessThan(time0, ord0, u, v)
  BY SameLessThan, Zenon
<1> HIDE DEF g
<1>3. ASSUME NEW i \in 2..(Len(g) - 1)
      PROVE  ~LessThan(time, ord, g[i \div 2], g[i])
  <2>1. i \in 2..Len(h) /\ i \in 1..Len(h) /\ i \div 2 \in 1..Len(h)
    BY <1>1, <1>2
  <2>2. ~LessThan(time0, ord0, h[i \div 2], h[i])
    BY <2>1 DEF IsHeapOf, IsHeap
  <2>3. h[i \div 2] \in S /\ h[i] \in S
    BY <1>1, <2>1, MemberFacts
  <2>4. ~LessThan(time, ord, h[i \div 2], h[i])
    BY <1>0, <2>2, <2>3
  <2> QED  BY <1>2, <2>1, <2>4
<1>4. IsPopped(time, ord, g, S \cup {t}, t)
  <2>1. g # <<>> /\ g[Len(g)] = t
    BY <1>1, <1>2
  <2> QED  BY <1>1, <1>2, <1>3, <2>1 DEF IsPopped
<1> QED  BY <1>4, PoppedPushed DEF HeapInsert, g

\* heapDecreaseKey of a timer anywhere in the heap.
LEMMA DecreaseFacts ==
    ASSUME NEW time0 \in [Timer -> Int], NEW ord0, NEW h, NEW S \in SUBSET Timer,
           IsHeapOf(time0, ord0, h, S), Linear(time0, ord0, S),
           NEW t \in S,
           NEW time \in [Timer -> Int], NEW ord,
           SameKeys(time0, ord0, time, ord, S \ {t}), time[t] < time0[t],
           Linear(time, ord, S)
    PROVE  IsHeapOf(time, ord, HeapDecreaseKey(time, ord, h, t), S)
<1> DEFINE n == HeapIndex(h, t)
           L0(u, v) == LessThan(time0, ord0, u, v)
           L(u, v) == LessThan(time, ord, u, v)
<1>1. /\ h \in Seq(Timer) /\ IsInjective(h) /\ ToSet(h) = S /\ Len(h) \in Nat
      /\ \A i \in 2..Len(h) : ~L0(h[i \div 2], h[i])
  BY DEF IsHeapOf, IsHeap
<1>2. n \in 1..Len(h) /\ h[n] = t
  BY <1>1, HeapIndexFacts
<1>3. /\ \A i \in 1..Len(h) : h[i] \in S
      /\ \A i, k \in 1..Len(h) : h[i] = h[k] => i = k
  BY <1>1, MemberFacts
<1>4. \A u, v \in S \ {t} : L(u, v) <=> L0(u, v)
  BY SameLessThan, Zenon
<1>5. \A u, v \in S : u # v => (L0(u, v) <=> ~L0(v, u))
  BY DEF Linear
<1>6. \A u, v, w \in S : u # v /\ v # w /\ u # w /\ L0(u, v) /\ L0(v, w) => L0(u, w)
  BY DEF Linear
\* The timer is not less than what it was not less than before.
<1>7. ASSUME NEW v \in S \ {t}, ~L0(t, v)
      PROVE  ~L(t, v)
  <2>1. ~(time0[v] < time0[t])
    BY <1>7 DEF LessThan
  <2>2. time[v] = time0[v]
    BY DEF SameKeys
  <2>3. time[v] \in Int /\ time[t] \in Int /\ time0[t] \in Int
    OBVIOUS
  <2>4. time[t] < time[v]
    BY <2>1, <2>2, <2>3
  <2> QED  BY <2>3, <2>4 DEF LessThan
<1> HIDE DEF n, L, L0
<1>8. ASSUME NEW i \in 2..Len(h), i # n
      PROVE  ~L(h[i \div 2], h[i])
  <2>1. i \in 1..Len(h) /\ i \div 2 \in 1..Len(h)
    OBVIOUS
  <2>2. h[i] \in S \ {t} /\ h[i \div 2] \in S
    BY <1>2, <1>3, <1>8, <2>1
  <2>3. CASE h[i \div 2] = t
    BY <1>1, <1>7, <2>2, <2>3
  <2>4. CASE h[i \div 2] # t
    BY <1>1, <1>4, <2>2, <2>4
  <2> QED  BY <2>3, <2>4
<1>9. ASSUME n > 1, NEW i \in 2..Len(h), i \div 2 = n
      PROVE  ~L(h[n \div 2], h[i])
  <2>1. /\ i \in 1..Len(h) /\ n \div 2 \in 1..Len(h) /\ n \in 2..Len(h)
        /\ i # n /\ n \div 2 # n /\ n \div 2 # i
    BY <1>2, <1>9
  <2> DEFINE u == h[n \div 2]
             v == h[i]
  <2>2. u \in S /\ v \in S /\ u # t /\ v # t /\ u # v
    BY <1>2, <1>3, <2>1
  <2>3. ~L0(u, t) /\ ~L0(t, v)
    BY <1>1, <1>2, <1>9, <2>1
  <2> HIDE DEF u, v
  <2>4. L0(t, u) /\ L0(v, t)
    BY <1>5, <2>2, <2>3
  <2>5. L0(v, u)
    BY <1>6, <2>2, <2>4
  <2>6. ~L0(u, v)
    BY <1>5, <2>2, <2>5
  <2>7. ~L(u, v)
    BY <1>4, <2>2, <2>6
  <2> QED  BY <2>7 DEF u, v
<1>10. IsHeapBut(time, ord, h, n)
  BY <1>8, <1>9 DEF IsHeapBut, L
<1>11. h \in Seq(Timer) /\ IsInjective(h) /\ Linear(time, ord, ToSet(h))
  BY <1>1
<1>12. IsHeap(time, ord, PushHeap(time, ord, h, n))
  BY ONLY <1>2, <1>10, <1>11, PushOrders
<1>13. /\ PushHeap(time, ord, h, n) \in Seq(Timer)
       /\ IsInjective(PushHeap(time, ord, h, n))
       /\ ToSet(PushHeap(time, ord, h, n)) = ToSet(h)
  BY ONLY <1>2, <1>11, PushMembers
<1> QED  BY <1>1, <1>12, <1>13 DEF IsHeapOf, HeapDecreaseKey, n

\* heapPop
LEMMA PopTimerFacts ==
    ASSUME NEW time0 \in [Timer -> Int], NEW ord0, NEW h, NEW S \in SUBSET Timer,
           IsHeapOf(time0, ord0, h, S), Linear(time0, ord0, S),
           NEW t \in S,
           NEW time \in [Timer -> Int], NEW ord,
           SameKeys(time0, ord0, time, ord, S \ {t}),
           \A u \in S : time0[u] > -1,
           Linear([time EXCEPT ![t] = -1], ord, S)
    PROVE  IsPopped(time, ord, HeapPop(time, ord, h, t), S, t)
<1> DEFINE least == [time EXCEPT ![t] = -1]
           d == HeapDecreaseKey(least, ord, h, t)
           g == PopHeap(least, ord, d)
<1>1. least \in [Timer -> Int] /\ least[t] = -1 /\ \A u \in Timer \ {t} : least[u] = time[u]
  OBVIOUS
<1>2. SameKeys(time0, ord0, least, ord, S \ {t})
  BY <1>1 DEF SameKeys
<1>3. least[t] < time0[t] /\ \A u \in S \ {t} : least[u] > -1
  BY <1>1, <1>2 DEF SameKeys
<1>0. Linear(least, ord, S)
  OBVIOUS
<1> HIDE DEF least
<1>4. IsHeapOf(least, ord, d, S)
  BY <1>0, <1>1, <1>2, <1>3, DecreaseFacts
<1> HIDE DEF d
<1>5. /\ d \in Seq(Timer) /\ IsInjective(d) /\ ToSet(d) = S
      /\ IsHeap(least, ord, d) /\ Len(d) \in Nat
  BY <1>4 DEF IsHeapOf
<1>6. PICK i \in 1..Len(d) : d[i] = t
  BY <1>5, MemberFacts
<1>7. d[1] = t
  <2> SUFFICES ASSUME d[1] # t
               PROVE  FALSE
    OBVIOUS
  <2>1. i \in 2..Len(d)
    BY <1>6
  <2>2. LessThan(least, ord, d[i], d[1])
    BY ONLY <1>0, <1>5, <2>1, TopFacts
  <2>3. 1 \in 1..Len(d)
    BY <1>6
  <2>4. d[1] \in S \ {t}
    BY <1>5, <2>3, MemberFacts
  <2>5. least[d[1]] > -1 /\ least[d[1]] \in Int /\ least[t] = -1
    BY <1>1, <1>3, <2>4
  <2>6. ~LessThan(least, ord, t, d[1])
    BY <2>5 DEF LessThan
  <2> QED  BY <1>6, <2>2, <2>6
<1>8. d # <<>>
  BY <1>5, <1>6
<1>9. /\ g \in Seq(Timer) /\ Len(g) = Len(d) /\ IsInjective(g)
      /\ ToSet(g) = ToSet(d)
      /\ g[Len(g)] = d[1]
      /\ \A k \in 2..(Len(g) - 1) : ~LessThan(least, ord, g[k \div 2], g[k])
  BY <1>0, <1>5, <1>8, PopFacts
<1> HIDE DEF g
<1>10. ASSUME NEW k \in 2..(Len(g) - 1)
       PROVE  ~LessThan(time, ord, g[k \div 2], g[k])
  <2>1. /\ k \in 1..Len(g) /\ k \div 2 \in 1..Len(g) /\ Len(g) \in 1..Len(g)
        /\ k # Len(g) /\ k \div 2 # Len(g)
    <3>1. Len(g) \in Nat
      BY <1>5, <1>9
    <3> QED  BY <3>1
  <2>2. g[k] \in S \ {t} /\ g[k \div 2] \in S \ {t}
    <3>1. /\ \A m \in 1..Len(g) : g[m] \in S
          /\ \A m, l \in 1..Len(g) : g[m] = g[l] => m = l
      BY <1>5, <1>9, MemberFacts
    <3>2. g[Len(g)] = t
      BY <1>7, <1>9
    <3> QED  BY <2>1, <3>1, <3>2
  <2>3. SameKeys(least, ord, time, ord, S \ {t})
    BY <1>1 DEF SameKeys
  <2>4. \A u, v \in S \ {t} : LessThan(time, ord, u, v) <=> LessThan(least, ord, u, v)
    BY ONLY <2>3, SameLessThan
  <2> QED  BY <1>9, <2>2, <2>4
<1>11. g # <<>>
  BY <1>5, <1>8, <1>9
<1> QED  BY <1>5, <1>7, <1>9, <1>10, <1>11 DEF IsPopped, HeapPop, g, d, least

\* heapDeleteMin, after the first timer's fire time has been reset.
LEMMA DeleteMinFacts ==
    ASSUME NEW time0 \in [Timer -> Int], NEW ord, NEW h, NEW S \in SUBSET Timer,
           IsHeapOf(time0, ord, h, S), h # <<>>,
           \A u \in S : time0[u] > 0,
           NEW time, time = [time0 EXCEPT ![h[1]] = 0],
           Linear(time, ord, S)
    PROVE  IsHeapOf(time, ord, HeapDeleteMin(time, ord, h), S \ {h[1]})
<1> DEFINE t == h[1]
           g == PopHeap(time, ord, h)
<1>1. /\ h \in Seq(Timer) /\ IsInjective(h) /\ ToSet(h) = S /\ Len(h) \in Nat
      /\ \A i \in 2..Len(h) : ~LessThan(time0, ord, h[i \div 2], h[i])
  BY DEF IsHeapOf, IsHeap
<1>2. /\ \A i \in 1..Len(h) : h[i] \in S /\ h[i] \in Timer
      /\ \A i, k \in 1..Len(h) : h[i] = h[k] => i = k
  BY <1>1, MemberFacts
<1>3. 1 \in 1..Len(h) /\ t \in S
  BY <1>1, <1>2
<1> HIDE DEF t
<1>4. time[t] = 0 /\ \A u \in S \ {t} : time[u] = time0[u] /\ time[u] \in Int /\ time[u] > 0
  BY <1>3 DEF t
<1>5. \A u, v \in S \ {t} : LessThan(time, ord, u, v) <=> LessThan(time0, ord, u, v)
  <2>1. SameKeys(time0, ord, time, ord, S \ {t})
    BY <1>4 DEF SameKeys
  <2> QED  BY ONLY <2>1, SameLessThan
<1>6. \A v \in S \ {t} : ~LessThan(time, ord, t, v)
  BY <1>4 DEF LessThan
<1>7. ASSUME NEW i \in 2..Len(h)
      PROVE  ~LessThan(time, ord, h[i \div 2], h[i])
  <2>1. i \in 1..Len(h) /\ i \div 2 \in 1..Len(h) /\ i # 1
    OBVIOUS
  <2>2. h[i] \in S \ {t} /\ h[i \div 2] \in S
    BY <1>2, <1>3, <2>1 DEF t
  <2>3. CASE h[i \div 2] = t
    BY <1>6, <2>2, <2>3
  <2>4. CASE h[i \div 2] # t
    BY <1>1, <1>5, <2>2, <2>4
  <2> QED  BY <2>3, <2>4
<1>8. h \in Seq(Timer) /\ h # <<>> /\ IsInjective(h) /\ Linear(time, ord, ToSet(h))
  BY <1>1
<1>9. IsHeap(time, ord, h)
  BY <1>7 DEF IsHeap
<1>10. /\ g \in Seq(Timer) /\ Len(g) = Len(h) /\ IsInjective(g)
       /\ ToSet(g) = ToSet(h)
       /\ g[Len(g)] = h[1]
       /\ \A k \in 2..(Len(g) - 1) : ~LessThan(time, ord, g[k \div 2], g[k])
  BY ONLY <1>8, <1>9, PopFacts
<1> HIDE DEF g
<1>11. g # <<>>
  BY <1>1, <1>8, <1>10
<1>12. IsPopped(time, ord, g, S, t)
  BY <1>1, <1>10, <1>11 DEF IsPopped, t
<1> QED  BY <1>12, PoppedFront DEF HeapDeleteMin, g, t

-----------------------------------------------------------------------------
(* The inductive invariant.                                                  *)

\* The active timers can be ordered whatever their times: each was set at a
\* count of its own, none half the range of the counter ago or more.
Ages ==
    /\ \A t \in Active : Age(current, order, t) \in 1..HalfRange
    /\ \A t, u \in Active : t # u => Age(current, order, t) # Age(current, order, u)

IInv == TypeOK /\ HeapConsistent /\ Ages

LEMMA SameHeap ==
    ASSUME NEW time0, NEW ord0, NEW h, NEW S, IsHeapOf(time0, ord0, h, S),
           NEW time, NEW ord, SameKeys(time0, ord0, time, ord, S)
    PROVE  IsHeapOf(time, ord, h, S)
<1>1. /\ h \in Seq(Timer) /\ IsInjective(h) /\ ToSet(h) = S /\ Len(h) \in Nat
      /\ \A i \in 2..Len(h) : ~LessThan(time0, ord0, h[i \div 2], h[i])
  BY DEF IsHeapOf, IsHeap
<1>2. \A u, v \in S : LessThan(time, ord, u, v) <=> LessThan(time0, ord0, u, v)
  BY SameLessThan, Zenon
<1>3. ASSUME NEW i \in 2..Len(h)
      PROVE  ~LessThan(time, ord, h[i \div 2], h[i])
  <2>1. i \in 1..Len(h) /\ i \div 2 \in 1..Len(h)
    OBVIOUS
  <2>2. h[i] \in S /\ h[i \div 2] \in S
    BY <1>1, <2>1, MemberFacts
  <2> QED  BY <1>1, <1>2, <2>2
<1> QED  BY <1>1, <1>3 DEF IsHeapOf, IsHeap

LEMMA HeapIs ==
    ASSUME TypeOK
    PROVE  HeapConsistent <=> IsHeapOf(next, order, heap, Active)
BY DEF TypeOK, HeapConsistent, IsHeapOf, IsHeap

LEMMA TimeFacts ==
    ASSUME TypeOK
    PROVE  /\ next \in [Timer -> Int]
           /\ \A t \in Timer : next[t] >= 0
           /\ \A t \in Active : next[t] > 0
           /\ Active \in SUBSET Timer
<1>1. next \in [Timer -> Times \cup {0}]
  BY DEF TypeOK
<1>2. \A k \in Times \cup {0} : k \in Int /\ k >= 0 /\ (k # 0 => k > 0)
  BY TimesAssumption
<1>3. \A t \in Timer : next[t] \in Int /\ next[t] >= 0 /\ (next[t] # 0 => next[t] > 0)
  BY <1>1, <1>2
<1>4. next \in [Timer -> Int]
  BY <1>1, <1>3
<1> QED  BY <1>3, <1>4 DEF Active

LEMMA AgesRecent ==
    ASSUME TypeOK, Ages
    PROVE  Recent(current, order, Active)
<1>1. ASSUME NEW t \in Active, NEW u \in Active, t # u
      PROVE  /\ Age(current, order, t) # Age(current, order, u)
             /\ Age(current, order, t) - Age(current, order, u) < HalfRange
  <2> DEFINE a == Age(current, order, t)
             b == Age(current, order, u)
  <2>1. a \in 1..HalfRange /\ b \in 1..HalfRange /\ a # b
    BY <1>1 DEF Ages
  <2>2. HalfRange \in Nat
    BY HalfRangeFacts
  <2> HIDE DEF a, b
  <2>3. a - b < HalfRange
    BY <2>1, <2>2
  <2> QED  BY <2>1, <2>3 DEF a, b
<1> QED  BY <1>1 DEF Recent

\* The counts once timer t has been set: the bound of the model keeps the
\* others comparable with it.
LEMMA SetFacts ==
    ASSUME TypeOK, Ages, NEW t \in Timer, OrdersComparable(t),
           NEW ord, ord = [order EXCEPT ![t] = current]
    PROVE  /\ ord \in [Timer -> Unsigned] /\ NextOrder \in Unsigned
           /\ Age(current, ord, t) = 0
           /\ \A u \in Active \ {t} : Age(current, ord, u) \in 1..(HalfRange - 1)
           /\ \A u \in Active \cup {t} :
                 Age(NextOrder, ord, u) = Age(current, ord, u) + 1
           /\ \A u, v \in Active \cup {t} : u # v =>
                 Age(current, ord, u) # Age(current, ord, v)
           /\ Recent(current, ord, Active \cup {t})
<1> DEFINE M == 2^Width
           a(u) == Age(current, ord, u)
<1>1. M \in Nat \ {0} /\ HalfRange \in Nat \ {0} /\ 2 * HalfRange < M
  BY ModulusFacts, HalfRangeFacts
<1>2. /\ current \in 0..(M - 1) /\ order \in [Timer -> Unsigned]
      /\ current \in Unsigned /\ Unsigned = 0..(M - 1)
  BY DEF TypeOK, Unsigned
<1>3. ord \in [Timer -> Unsigned] /\ ord[t] = current /\ \A u \in Timer \ {t} : ord[u] = order[u]
  BY <1>2
<1>4. a(t) = 0
  <2>1. (current - current) % M = 0
    <3> HIDE DEF M
    <3> QED  BY <1>1, <1>2, DifferenceIs
  <2> QED  BY <1>3, <2>1 DEF Age
<1>5. ASSUME NEW u \in Active \ {t}
      PROVE  a(u) \in 1..(HalfRange - 1) /\ a(u) = Age(current, order, u)
  <2>1. u \in Timer \ {t}
    BY DEF Active
  <2>2. a(u) = Age(current, order, u)
    BY <1>3, <2>1 DEF Age
  <2>3. a(u) \in 1..HalfRange
    BY <2>2 DEF Ages
  <2>4. a(u) < HalfRange
    BY <2>2 DEF OrdersComparable, Age
  <2> QED  BY <1>1, <2>2, <2>3, <2>4
<1>6. ASSUME NEW u \in Active \cup {t}, NEW v \in Active \cup {t}, u # v
      PROVE  a(u) # a(v) /\ a(u) - a(v) < HalfRange
  <2>1. (u \in Active \ {t} \/ u = t) /\ (v \in Active \ {t} \/ v = t)
    OBVIOUS
  <2>2. u \in Active \ {t} /\ v \in Active \ {t} => a(u) # a(v)
    BY <1>5, <1>6 DEF Ages
  <2>3. (u \in Active \ {t} => a(u) \in 1..(HalfRange - 1)) /\ (u = t => a(u) = 0)
    BY <1>4, <1>5
  <2>4. (v \in Active \ {t} => a(v) \in 1..(HalfRange - 1)) /\ (v = t => a(v) = 0)
    BY <1>4, <1>5
  <2> HIDE DEF a
  <2> QED  BY <1>1, <1>6, <2>1, <2>2, <2>3, <2>4
<1>7. ASSUME NEW u \in Active \cup {t}
      PROVE  Age(NextOrder, ord, u) = a(u) + 1
  <2> DEFINE o == ord[u]
  <2>1. o \in 0..(M - 1)
    BY <1>2, <1>3 DEF Active
  <2>2. a(u) < HalfRange
    <3>1. u = t \/ u \in Active \ {t}
      OBVIOUS
    <3>2. (u = t => a(u) = 0) /\ (u \in Active \ {t} => a(u) \in 1..(HalfRange - 1))
      BY <1>4, <1>5
    <3> HIDE DEF a
    <3> QED  BY <1>1, <3>1, <3>2
  <2>3. (current - o) % M < HalfRange
    BY <2>2 DEF Age
  <2> HIDE DEF o, M
  <2>4. (((current + 1) % M) - o) % M = ((current - o) % M) + 1
    BY <1>1, <1>2, <2>1, <2>3, NextCount
  <2> QED  BY <2>4, Zenon DEF Age, NextOrder, o, M
<1>8. NextOrder \in Unsigned
  <2>1. (current + 1) % M \in 0..(M - 1)
    <3> HIDE DEF M
    <3> QED  BY <1>1, <1>2, SuccessorIs
  <2> QED  BY <1>2, <2>1 DEF NextOrder
<1>9. Recent(current, ord, Active \cup {t})
  BY <1>6 DEF Recent
<1> QED  BY <1>3, <1>4, <1>5, <1>6, <1>7, <1>8, <1>9

LEMMA SetKept ==
    ASSUME IInv, NEW t \in Timer, NEW k \in Times \cup {0}, SetNextFireTime(t, k)
    PROVE  IInv'
<1> DEFINE time == [next EXCEPT ![t] = k]
           ord == [order EXCEPT ![t] = current]
           S == Active \cup {t}
           least == [time EXCEPT ![t] = -1]
<1>1. TypeOK /\ HeapConsistent /\ Ages
  BY DEF IInv
<1>2. /\ next[t] # k /\ OrdersComparable(t)
      /\ next' = time
      /\ order' = [ord EXCEPT ![t] = IF k = 0 THEN 0 ELSE current]
      /\ current' = NextOrder
      /\ popped' = popped
  BY DEF SetNextFireTime
<1>3. heap' = CASE next[t] = 0 -> HeapInsert(time, ord, heap, t)
                [] k = 0 -> HeapDelete(time, ord, heap, t)
                [] k # 0 /\ next[t] > k -> HeapDecreaseKey(time, ord, heap, t)
                [] next[t] # 0 /\ next[t] < k -> HeapIncreaseKey(time, ord, heap, t)
  BY DEF SetNextFireTime
<1>4. /\ next \in [Timer -> Int]
      /\ \A u \in Timer : next[u] >= 0
      /\ \A u \in Active : next[u] > 0
      /\ Active \in SUBSET Timer
  BY <1>1, TimeFacts
<1>5. k \in Int /\ k >= 0
  BY TimesAssumption
<1>6. /\ ord \in [Timer -> Unsigned] /\ NextOrder \in Unsigned
      /\ Age(current, ord, t) = 0
      /\ \A u \in Active \ {t} : Age(current, ord, u) \in 1..(HalfRange - 1)
      /\ \A u \in Active \cup {t} :
            Age(NextOrder, ord, u) = Age(current, ord, u) + 1
      /\ \A u, v \in Active \cup {t} : u # v =>
            Age(current, ord, u) # Age(current, ord, v)
      /\ Recent(current, ord, Active \cup {t})
  BY <1>1, <1>2, SetFacts
<1>7. current \in Unsigned /\ order \in [Timer -> Unsigned] /\ popped \in Timer
      /\ next \in [Timer -> Times \cup {0}]
  BY <1>1 DEF TypeOK
<1>8. IsHeapOf(next, order, heap, Active)
  BY <1>1, HeapIs
<1>9. Linear(next, order, Active)
  <2>1. Recent(current, order, Active)
    BY <1>1, AgesRecent
  <2> QED  BY <1>4, <1>7, <2>1, LinearFacts
<1>10. /\ time \in [Timer -> Int] /\ time[t] = k
       /\ least \in [Timer -> Int]
       /\ \A u \in Timer \ {t} : time[u] = next[u] /\ ord[u] = order[u]
  BY <1>4, <1>5, <1>7
<1>11. S \in SUBSET Timer
  BY <1>4
<1> HIDE DEF time, ord, S
<1>12. Recent(current, ord, S)
  BY <1>6 DEF S
<1>13. Linear(time, ord, S) /\ Linear(least, ord, S)
  BY ONLY <1>6, <1>7, <1>10, <1>11, <1>12, LinearFacts
<1>14. SameKeys(next, order, time, ord, Active \ {t})
  BY <1>4, <1>10 DEF SameKeys
<1>15. Active' = IF k = 0 THEN Active \ {t} ELSE S
  BY <1>2, <1>4, <1>10 DEF Active, S
\* The heap of the timers with their new keys.
<1>16. IsHeapOf(time, ord, heap', Active')
  <2>1. CASE next[t] = 0
    <3>1. heap' = HeapInsert(time, ord, heap, t) /\ k # 0
      <4>1. k # 0 /\ ~(next[t] > k) /\ ~(k = 0)
        BY <1>2, <1>5, <2>1
      <4> QED  BY <1>3, <2>1, <4>1
    <3>2. t \in Timer \ Active /\ Active \ {t} = Active
      BY <2>1 DEF Active
    <3>3. IsHeapOf(time, ord, HeapInsert(time, ord, heap, t), Active \cup {t})
      <4>1. Linear(time, ord, Active \cup {t}) /\ SameKeys(next, order, time, ord, Active)
        BY <1>13, <1>14, <3>2 DEF S
      <4> QED  BY ONLY <1>8, <3>2, <4>1, InsertFacts
    <3> QED  BY <1>15, <3>1, <3>3 DEF S
  <2>2. CASE next[t] # 0
    <3>1. t \in Active /\ S = Active /\ next[t] > 0
      BY <1>4, <2>2 DEF Active, S
    <3>2. Linear(time, ord, Active) /\ Linear(least, ord, Active)
      BY <1>13, <3>1
    <3>3. IsPopped(time, ord, HeapPop(time, ord, heap, t), Active, t)
      <4>1. \A u \in Active : next[u] > -1
        BY <1>4
      <4> QED  BY ONLY <1>4, <1>8, <1>9, <1>10, <1>14, <3>1, <3>2, <4>1, PopTimerFacts
    <3>4. CASE k = 0
      <4>1. heap' = HeapDelete(time, ord, heap, t)
        <5>1. ~(next[t] < k) /\ ~(k # 0)
          BY <1>4, <3>4
        <5> QED  BY <1>3, <2>2, <3>4, <5>1
      <4>2. IsHeapOf(time, ord, HeapDelete(time, ord, heap, t), Active \ {t})
        BY <3>3, PoppedFront DEF HeapDelete
      <4> QED  BY <1>15, <3>4, <4>1, <4>2
    <3>5. CASE k # 0 /\ next[t] > k
      <4>1. heap' = HeapDecreaseKey(time, ord, heap, t)
        <5>1. ~(next[t] < k)
          BY <1>4, <1>5, <3>5
        <5> QED  BY <1>3, <2>2, <3>5, <5>1
      <4>2. time[t] < next[t]
        BY <1>4, <1>5, <1>10, <3>5
      <4>3. IsHeapOf(time, ord, HeapDecreaseKey(time, ord, heap, t), Active)
        BY ONLY <1>4, <1>8, <1>9, <1>10, <1>14, <3>1, <3>2, <4>2, DecreaseFacts
      <4> QED  BY <1>15, <3>1, <3>5, <4>1, <4>3
    <3>6. CASE k # 0 /\ next[t] < k
      <4>1. heap' = HeapIncreaseKey(time, ord, heap, t)
        <5>1. ~(next[t] > k)
          BY <1>4, <1>5, <3>6
        <5> QED  BY <1>3, <2>2, <3>6, <5>1
      <4>2. IsHeapOf(time, ord, HeapIncreaseKey(time, ord, heap, t), Active)
        BY <3>2, <3>3, PoppedPushed DEF HeapIncreaseKey
      <4> QED  BY <1>15, <3>1, <3>6, <4>1, <4>2
    <3>7. next[t] > k \/ next[t] < k
      BY <1>2, <1>4, <1>5
    <3> QED  BY <3>4, <3>5, <3>6, <3>7
  <2> QED  BY <2>1, <2>2
<1>17. /\ next' \in [Timer -> Times \cup {0}] /\ order' \in [Timer -> Unsigned]
       /\ \A u \in Active' : order'[u] = ord[u]
  <2>1. next' \in [Timer -> Times \cup {0}]
    BY <1>2, <1>7 DEF time
  <2>2. order' \in [Timer -> Unsigned]
    <3>1. 0 \in Unsigned
      BY ModulusFacts DEF Unsigned
    <3> QED  BY <1>2, <1>6, <1>7, <3>1
  <2>3. ASSUME NEW u \in Active'
        PROVE  order'[u] = ord[u]
    <3>1. u \in Timer /\ (k = 0 => u # t)
      BY <1>11, <1>15 DEF S
    <3>2. ord[t] = current
      BY <1>7 DEF ord
    <3> QED  BY <1>2, <1>6, <3>1, <3>2
  <2> QED  BY <2>1, <2>2, <2>3
<1>18. IsHeapOf(next', order', heap', Active')
  <2>1. SameKeys(time, ord, next', order', Active')
    BY <1>2, <1>17 DEF SameKeys
  <2> QED  BY ONLY <1>16, <2>1, SameHeap
<1>19. TypeOK'
  <2>1. heap' \in Seq(Timer)
    BY <1>18 DEF IsHeapOf
  <2> QED  BY <1>2, <1>6, <1>7, <1>17, <2>1 DEF TypeOK
<1>20. HeapConsistent'
  BY <1>18 DEF HeapConsistent, IsHeapOf, IsHeap
<1>21. Ages'
  <2>1. \A u \in Active' : u \in S /\ Age(current', order', u) = Age(current, ord, u) + 1
    BY <1>2, <1>6, <1>15, <1>17 DEF Age, S
  <2>2. \A u \in S : Age(current, ord, u) \in 0..(HalfRange - 1)
    BY <1>6, HalfRangeFacts DEF S
  <2>3. ASSUME NEW u \in Active'
        PROVE  Age(current', order', u) \in 1..HalfRange
    <3>1. Age(current, ord, u) \in 0..(HalfRange - 1)
      BY <2>1, <2>2
    <3> QED  BY <2>1, <3>1, HalfRangeFacts
  <2>4. ASSUME NEW u \in Active', NEW v \in Active', u # v
        PROVE  Age(current', order', u) # Age(current', order', v)
    <3>1. /\ Age(current, ord, u) \in 0..(HalfRange - 1)
          /\ Age(current, ord, v) \in 0..(HalfRange - 1)
          /\ Age(current, ord, u) # Age(current, ord, v)
      BY <1>6, <2>1, <2>2, <2>4 DEF S
    <3> QED  BY <2>1, <3>1, HalfRangeFacts
  <2> QED  BY <2>3, <2>4 DEF Ages
<1> QED  BY <1>19, <1>20, <1>21 DEF IInv

LEMMA PopKept ==
    ASSUME IInv, PopMin
    PROVE  IInv'
<1> DEFINE t == heap[1]
<1>1. TypeOK /\ HeapConsistent /\ Ages
  BY DEF IInv
<1>2. /\ heap # <<>>
      /\ popped' = t
      /\ next' = [next EXCEPT ![t] = 0]
      /\ order' = [order EXCEPT ![t] = 0]
      /\ heap' = HeapDeleteMin(next', order, heap)
      /\ current' = current
  BY DEF PopMin
<1>3. /\ next \in [Timer -> Int]
      /\ \A u \in Active : next[u] > 0
      /\ Active \in SUBSET Timer
  BY <1>1, TimeFacts
<1>4. /\ current \in Unsigned /\ order \in [Timer -> Unsigned]
      /\ next \in [Timer -> Times \cup {0}]
  BY <1>1 DEF TypeOK
<1>5. IsHeapOf(next, order, heap, Active)
  BY <1>1, HeapIs
<1>6. t \in Active
  <2>1. heap \in Seq(Timer) /\ ToSet(heap) = Active
    BY <1>5 DEF IsHeapOf
  <2>2. 1 \in 1..Len(heap)
    BY <1>2, <2>1
  <2> QED  BY <2>1, <2>2, MemberFacts
<1>7. next' \in [Timer -> Int] /\ next'[t] = 0 /\ \A u \in Timer \ {t} : next'[u] = next[u]
  BY <1>2, <1>3, <1>6
<1>8. Linear(next', order, Active)
  <2>1. Recent(current, order, Active)
    BY <1>1, AgesRecent
  <2> QED  BY ONLY <1>3, <1>4, <1>7, <2>1, LinearFacts
<1>9. IsHeapOf(next', order, HeapDeleteMin(next', order, heap), Active \ {t})
  BY ONLY <1>2, <1>3, <1>5, <1>8, DeleteMinFacts
<1> HIDE DEF t
<1>10. Active' = Active \ {t}
  BY <1>3, <1>6, <1>7 DEF Active
<1>11. /\ next' \in [Timer -> Times \cup {0}] /\ order' \in [Timer -> Unsigned]
       /\ \A u \in Active' : order'[u] = order[u]
  <2>1. 0 \in Unsigned
    BY ModulusFacts DEF Unsigned
  <2> QED  BY <1>2, <1>3, <1>4, <1>10, <2>1
<1>12. IsHeapOf(next', order', heap', Active')
  <2>1. SameKeys(next', order, next', order', Active')
    BY <1>11 DEF SameKeys
  <2>2. IsHeapOf(next', order, heap', Active')
    BY <1>2, <1>9, <1>10
  <2> QED  BY ONLY <2>1, <2>2, SameHeap
<1>13. TypeOK'
  <2>1. heap' \in Seq(Timer)
    BY <1>12 DEF IsHeapOf
  <2> QED  BY <1>2, <1>3, <1>4, <1>6, <1>11, <2>1 DEF TypeOK
<1>14. HeapConsistent'
  BY <1>12 DEF HeapConsistent, IsHeapOf, IsHeap
<1>15. Ages'
  <2>1. \A u \in Active' : u \in Active /\ Age(current', order', u) = Age(current, order, u)
    BY <1>2, <1>10, <1>11 DEF Age
  <2> QED  BY <1>1, <2>1 DEF Ages
<1> QED  BY <1>13, <1>14, <1>15 DEF IInv

LEMMA InitKept == Init => IInv
<1> SUFFICES ASSUME Init
             PROVE  IInv
  OBVIOUS
<1>1. Active = {} /\ heap = <<>> /\ heap \in Seq(Timer) /\ Len(heap) = 0
  BY DEF Init, Active
<1>2. 0 \in Unsigned
  BY ModulusFacts DEF Unsigned
<1>3. TypeOK
  BY <1>1, <1>2 DEF Init, TypeOK
<1>4. HeapConsistent
  BY <1>1 DEF HeapConsistent, IsInjective, ToSet
<1>5. Ages
  BY <1>1 DEF Ages
<1> QED  BY <1>3, <1>4, <1>5 DEF IInv

LEMMA NextKept == IInv /\ [Next]_vars => IInv'
<1> SUFFICES ASSUME IInv, [Next]_vars
             PROVE  IInv'
  OBVIOUS
<1>1. CASE \E t \in Timer, k \in Times \cup {0} : SetNextFireTime(t, k)
  BY <1>1, SetKept
<1>2. CASE PopMin
  BY <1>2, PopKept
<1>3. CASE UNCHANGED vars
  <2>1. /\ next' = next /\ order' = order /\ heap' = heap
        /\ current' = current /\ popped' = popped
    BY <1>3 DEF vars
  <2>2. Active' = Active
    BY <2>1 DEF Active
  <2> QED  BY <2>1, <2>2 DEF IInv, TypeOK, HeapConsistent, Ages
<1> QED  BY <1>1, <1>2, <1>3 DEF Next

THEOREM InvariantKept == Spec => []IInv
BY InitKept, NextKept, PTL DEF Spec

(***************************************************************************)
(* The vector always holds timers, its counts fit the unsigned counter,    *)
(* and no fire time is negative, though heapPop gives a timer a time       *)
(* below all others for a while.                                           *)
(***************************************************************************)
THEOREM TypeCorrect == Spec => []TypeOK
<1>1. IInv => TypeOK
  BY DEF IInv
<1> QED  BY <1>1, InvariantKept, PTL

(***************************************************************************)
(* checkConsistency: whatever setNextFireTime and sharedTimerFiredInternal *)
(* do to the heap, it holds each active timer once, and no timer is behind *)
(* one that fires later, across the wrap of the insertion order.           *)
(***************************************************************************)
THEOREM HeapKept == Spec => []HeapConsistent
<1>1. IInv => HeapConsistent
  BY DEF IInv
<1> QED  BY <1>1, InvariantKept, PTL

-----------------------------------------------------------------------------
(* The queue of the timers.                                                  *)

InFiringOrder(time, ord, q, S) ==
    /\ q \in Seq(Timer) /\ IsInjective(q) /\ ToSet(q) = S
    /\ \A i, k \in 1..Len(q) : i < k => LessThan(time, ord, q[k], q[i])

EarlierThan(time, ord, S, t) == {u \in S \ {t} : LessThan(time, ord, t, u)}

FiringOrderOf(time, ord, S) ==
    [i \in 1..Cardinality(S) |->
        CHOOSE t \in S : Cardinality(EarlierThan(time, ord, S, t)) = i - 1]

LEMMA FirstTimers ==
    ASSUME NEW q \in Seq(Timer), IsInjective(q), NEW n \in 0..Len(q)
    PROVE  Cardinality({q[k] : k \in 1..n}) = n
<1> DEFINE A == 1..n
           B == {q[k] : k \in A}
           f == [k \in A |-> q[k]]
<1>1. \A i, k \in A : q[i] = q[k] => i = k
  <2>1. A \subseteq 1..Len(q)
    OBVIOUS
  <2> HIDE DEF A
  <2> QED  BY <2>1, MemberFacts
<1>2. IsFiniteSet(A) /\ Cardinality(A) = n
  BY FS_Interval
<1> HIDE DEF A
<1>3. f \in Bijection(A, B)
  BY <1>1 DEF Bijection, Injection, Surjection, IsInjective
<1>4. ExistsBijection(A, B)
  BY <1>3 DEF ExistsBijection
<1>5. Cardinality(B) = Cardinality(A)
  BY <1>2, <1>4, FS_Bijection
<1> QED  BY <1>2, <1>5 DEF A

\* A queue in firing order is the one that the times and orders determine.
LEMMA FiringOrderIs ==
    ASSUME NEW time, NEW ord, NEW q, NEW S,
           InFiringOrder(time, ord, q, S), Linear(time, ord, S)
    PROVE  q = FiringOrderOf(time, ord, S)
<1> DEFINE E(t) == EarlierThan(time, ord, S, t)
<1>1. /\ q \in Seq(Timer) /\ IsInjective(q) /\ ToSet(q) = S /\ Len(q) \in Nat
      /\ \A i, k \in 1..Len(q) : i < k => LessThan(time, ord, q[k], q[i])
  BY DEF InFiringOrder
<1>2. /\ \A i \in 1..Len(q) : q[i] \in S
      /\ \A t \in S : \E i \in 1..Len(q) : q[i] = t
      /\ \A i, k \in 1..Len(q) : q[i] = q[k] => i = k
  BY <1>1, MemberFacts
<1>3. Cardinality(S) = Len(q)
  <2>1. S = {q[k] : k \in 1..Len(q)}
    BY <1>2
  <2>2. Len(q) \in 0..Len(q)
    BY <1>1
  <2> QED  BY <1>1, <2>1, <2>2, FirstTimers
<1>4. ASSUME NEW i \in 1..Len(q)
      PROVE  Cardinality(E(q[i])) = i - 1
  <2>1. ASSUME NEW k \in 1..(i - 1)
        PROVE  q[k] \in E(q[i])
    <3>1. k \in 1..Len(q) /\ k < i /\ k # i
      BY <1>1
    <3>2. LessThan(time, ord, q[i], q[k]) /\ q[k] \in S /\ q[k] # q[i]
      BY <1>1, <1>2, <3>1
    <3> QED  BY <3>2 DEF EarlierThan
  <2>2. ASSUME NEW u \in E(q[i])
        PROVE  \E k \in 1..(i - 1) : u = q[k]
    <3>1. u \in S /\ u # q[i] /\ LessThan(time, ord, q[i], u)
      BY DEF EarlierThan
    <3>2. PICK k \in 1..Len(q) : u = q[k]
      BY <1>2, <3>1
    <3>3. CASE k > i
      <4>1. LessThan(time, ord, u, q[i])
        BY <1>1, <3>2, <3>3
      <4>2. ~LessThan(time, ord, q[i], u)
        BY <1>2, <3>1, <4>1 DEF Linear
      <4> QED  BY <3>1, <4>2
    <3>4. CASE ~(k > i)
      <4>1. k # i
        BY <3>1, <3>2
      <4>2. k \in 1..(i - 1)
        BY <3>4, <4>1
      <4> QED  BY <3>2, <4>2
    <3> QED  BY <3>3, <3>4
  <2>3. E(q[i]) = {q[k] : k \in 1..(i - 1)}
    <3> HIDE DEF E
    <3> QED  BY <2>1, <2>2
  <2>4. i - 1 \in 0..Len(q)
    BY <1>1
  <2> QED  BY <1>1, <2>3, <2>4, FirstTimers
<1> HIDE DEF E
<1>5. ASSUME NEW i \in 1..Len(q)
      PROVE  q[i] = CHOOSE t \in S : Cardinality(E(t)) = i - 1
  <2>1. q[i] \in S /\ Cardinality(E(q[i])) = i - 1
    BY <1>2, <1>4
  <2>2. ASSUME NEW t \in S, Cardinality(E(t)) = i - 1
        PROVE  t = q[i]
    <3>1. PICK k \in 1..Len(q) : q[k] = t
      BY <1>2
    <3>2. k - 1 = i - 1
      BY <1>4, <2>2, <3>1
    <3>3. k = i
      BY <3>2
    <3> QED  BY <3>1, <3>3
  <2> DEFINE c == CHOOSE t \in S : Cardinality(E(t)) = i - 1
  <2>3. c \in S /\ Cardinality(E(c)) = i - 1
    BY <2>1
  <2> HIDE DEF c
  <2>4. c = q[i]
    BY <2>2, <2>3
  <2> QED  BY <2>4 DEF c
<1>6. q = [i \in 1..Len(q) |-> q[i]]
  BY <1>1
<1>7. q = [i \in 1..Len(q) |-> CHOOSE t \in S : Cardinality(E(t)) = i - 1]
  BY <1>5, <1>6
<1> QED  BY <1>3, <1>7 DEF FiringOrderOf, E

LEMMA SameFiring ==
    ASSUME NEW time0, NEW ord0, NEW q, NEW S, InFiringOrder(time0, ord0, q, S),
           NEW time, NEW ord, SameKeys(time0, ord0, time, ord, S)
    PROVE  InFiringOrder(time, ord, q, S)
<1>1. \A u, v \in S : LessThan(time, ord, u, v) <=> LessThan(time0, ord0, u, v)
  BY SameLessThan, Zenon
<1>2. q \in Seq(Timer) /\ ToSet(q) = S
  BY DEF InFiringOrder
<1>3. \A i \in 1..Len(q) : q[i] \in S
  BY <1>2, MemberFacts
<1> QED  BY <1>1, <1>3 DEF InFiringOrder

\* An element is dropped, the others keep their order.
LEMMA SkipFacts ==
    ASSUME NEW time, NEW ord, NEW q, NEW S, InFiringOrder(time, ord, q, S),
           NEW i \in 1..Len(q), NEW r \in Seq(Timer), Len(r) = Len(q) - 1,
           \A k \in 1..(Len(q) - 1) : r[k] = IF k < i THEN q[k] ELSE q[k + 1]
    PROVE  InFiringOrder(time, ord, r, S \ {q[i]})
<1> DEFINE m == Len(q) - 1
           at(k) == IF k < i THEN k ELSE k + 1
<1>1. /\ q \in Seq(Timer) /\ IsInjective(q) /\ ToSet(q) = S /\ Len(q) \in Nat
      /\ \A j, k \in 1..Len(q) : j < k => LessThan(time, ord, q[k], q[j])
  BY DEF InFiringOrder
<1>2. /\ \A k \in 1..Len(q) : q[k] \in S
      /\ \A t \in S : \E k \in 1..Len(q) : q[k] = t
      /\ \A j, k \in 1..Len(q) : q[j] = q[k] => j = k
  BY <1>1, MemberFacts
<1>3. m \in Nat /\ Len(q) = m + 1 /\ i \in 1..(m + 1) /\ Len(r) = m
  BY <1>1
<1>4. \A k \in 1..m : r[k] = q[at(k)] /\ at(k) \in 1..Len(q) /\ at(k) # i
  BY <1>3
<1> HIDE DEF m
<1>5. \A j, k \in 1..m : j < k => at(j) < at(k)
  BY <1>3
<1>6. \A j, k \in 1..m : at(j) = at(k) => j = k
  BY <1>3
<1>7. \A k \in 1..Len(q) : k # i => \E j \in 1..m : at(j) = k
  <2>1. ASSUME NEW k \in 1..Len(q), k # i
        PROVE  \E j \in 1..m : at(j) = k
    <3>1. CASE k < i
      <4>1. k \in 1..m /\ at(k) = k
        BY <1>3, <3>1
      <4> QED  BY <4>1
    <3>2. CASE k > i
      <4>1. k - 1 \in 1..m /\ at(k - 1) = k
        BY <1>3, <3>2
      <4> QED  BY <4>1
    <3> QED  BY <2>1, <3>1, <3>2
  <2> QED  BY <2>1
<1> HIDE DEF at
<1>8. IsInjective(r)
  <2>1. \A j, k \in 1..m : r[j] = r[k] => j = k
    BY <1>2, <1>4, <1>6
  <2> QED  BY <1>3, <2>1, MemberFacts
<1>9. ToSet(r) = S \ {q[i]}
  <2>1. ASSUME NEW u \in ToSet(r)
        PROVE  u \in S \ {q[i]}
    <3>1. PICK k \in 1..m : u = r[k]
      BY <1>3, MemberFacts
    <3> QED  BY <1>2, <1>4, <3>1
  <2>2. ASSUME NEW u \in S, u # q[i]
        PROVE  u \in ToSet(r)
    <3>1. PICK k \in 1..Len(q) : u = q[k]
      BY <1>2
    <3>2. PICK j \in 1..m : at(j) = k
      BY <1>7, <2>2, <3>1
    <3>3. r[j] = u
      BY <1>4, <3>1, <3>2
    <3> QED  BY <1>3, <3>3, MemberFacts
  <2> QED  BY <2>1, <2>2
<1>10. \A j, k \in 1..m : j < k => LessThan(time, ord, r[k], r[j])
  BY <1>1, <1>4, <1>5
<1> QED  BY <1>3, <1>8, <1>9, <1>10 DEF InFiringOrder

LEMMA TailOrder ==
    ASSUME NEW time, NEW ord, NEW q, NEW S, InFiringOrder(time, ord, q, S), q # <<>>
    PROVE  Head(q) = q[1] /\ InFiringOrder(time, ord, Tail(q), S \ {q[1]})
<1> DEFINE r == Tail(q)
<1>1. q \in Seq(Timer)
  BY DEF InFiringOrder
<1>2. /\ Head(q) = q[1] /\ Len(q) \in Nat \ {0}
      /\ r \in Seq(Timer) /\ Len(r) = Len(q) - 1
      /\ \A k \in 1..(Len(q) - 1) : r[k] = q[k + 1]
  BY <1>1
<1> HIDE DEF r
<1>3. 1 \in 1..Len(q)
  BY <1>2
<1>4. \A k \in 1..(Len(q) - 1) : r[k] = IF k < 1 THEN q[k] ELSE q[k + 1]
  BY <1>2
<1>5. InFiringOrder(time, ord, r, S \ {q[1]})
  BY <1>2, <1>3, <1>4, SkipFacts
<1> QED  BY <1>2, <1>5 DEF r

LEMMA RemoveAtIs ==
    ASSUME NEW q \in Seq(Timer), NEW i \in 1..Len(q)
    PROVE  /\ RemoveAt(q, i) \in Seq(Timer) /\ Len(RemoveAt(q, i)) = Len(q) - 1
           /\ \A k \in 1..(Len(q) - 1) :
                 RemoveAt(q, i)[k] = IF k < i THEN q[k] ELSE q[k + 1]
<1> DEFINE r == RemoveAt(q, i)
           a == SubSeq(q, 1, i - 1)
           b == SubSeq(q, i + 1, Len(q))
<1>1. /\ a \in Seq(Timer) /\ Len(a) = i - 1
      /\ \A k \in 1..(i - 1) : a[k] = q[k]
  OBVIOUS
<1>2. /\ b \in Seq(Timer) /\ Len(b) = Len(q) - i
      /\ \A k \in 1..(Len(q) - i) : b[k] = q[k + i]
  OBVIOUS
<1>3. r = a \o b
  BY DEF RemoveAt
<1> HIDE DEF a, b, r
<1>4. r \in Seq(Timer) /\ Len(r) = Len(q) - 1
  BY <1>1, <1>2, <1>3
<1>5. ASSUME NEW k \in 1..(Len(q) - 1)
      PROVE  r[k] = IF k < i THEN q[k] ELSE q[k + 1]
  <2>1. r[k] = IF k <= Len(a) THEN a[k] ELSE b[k - Len(a)]
    BY <1>1, <1>2, <1>3
  <2>2. CASE k < i
    BY <2>1, <2>2, <1>1
  <2>3. CASE ~(k < i)
    <3>1. k - Len(a) \in 1..(Len(q) - i) /\ k - Len(a) + i = k + 1
      BY <2>3, <1>1
    <3> QED  BY <2>1, <2>3, <3>1, <1>1, <1>2
  <2> QED  BY <2>2, <2>3
<1> QED  BY <1>4, <1>5 DEF r

LEMMA InsertAtIs ==
    ASSUME NEW q \in Seq(Timer), NEW i \in 1..(Len(q) + 1), NEW t \in Timer
    PROVE  /\ InsertAt(q, i, t) \in Seq(Timer) /\ Len(InsertAt(q, i, t)) = Len(q) + 1
           /\ \A k \in 1..(Len(q) + 1) :
                 InsertAt(q, i, t)[k] =
                    IF k < i THEN q[k] ELSE IF k = i THEN t ELSE q[k - 1]
<1> DEFINE r == InsertAt(q, i, t)
           a == SubSeq(q, 1, i - 1)
           b == SubSeq(q, i, Len(q))
<1>1. /\ a \in Seq(Timer) /\ Len(a) = i - 1
      /\ \A k \in 1..(i - 1) : a[k] = q[k]
  OBVIOUS
<1>2. /\ b \in Seq(Timer) /\ Len(b) = Len(q) - i + 1
      /\ \A k \in 1..(Len(q) - i + 1) : b[k] = q[k + i - 1]
  OBVIOUS
<1>3. r = (a \o <<t>>) \o b
  BY DEF InsertAt
<1> HIDE DEF a, b, r
<1> DEFINE c == a \o <<t>>
<1>4. /\ c \in Seq(Timer) /\ Len(c) = i
      /\ \A k \in 1..(i - 1) : c[k] = q[k]
      /\ c[i] = t
  BY <1>1
<1>5. r = c \o b
  BY <1>3
<1> HIDE DEF c
<1>6. r \in Seq(Timer) /\ Len(r) = Len(q) + 1
  BY <1>2, <1>4, <1>5
<1>7. ASSUME NEW k \in 1..(Len(q) + 1)
      PROVE  r[k] = IF k < i THEN q[k] ELSE IF k = i THEN t ELSE q[k - 1]
  <2>1. r[k] = IF k <= Len(c) THEN c[k] ELSE b[k - Len(c)]
    <3>1. \A j \in 1..(Len(c) + Len(b)) :
             r[j] = IF j <= Len(c) THEN c[j] ELSE b[j - Len(c)]
      BY <1>2, <1>4, <1>5
    <3>2. Len(c) + Len(b) = Len(q) + 1
      BY <1>2, <1>4
    <3> QED  BY <3>1, <3>2
  <2>2. CASE k <= i
    BY <1>4, <2>1, <2>2
  <2>3. CASE k > i
    <3>1. k - i \in 1..(Len(q) - i + 1) /\ (k - i) + i - 1 = k - 1
      BY <2>3
    <3>2. r[k] = b[k - i]
      BY <1>4, <2>1, <2>3
    <3>3. b[k - i] = q[k - 1]
      BY <1>2, <3>1
    <3>4. ~(k < i) /\ k # i
      BY <2>3
    <3> QED  BY <3>2, <3>3, <3>4
  <2> QED  BY <2>2, <2>3
<1> QED  BY <1>6, <1>7 DEF r

LEMMA WithoutOrder ==
    ASSUME NEW time, NEW ord, NEW q, NEW S, InFiringOrder(time, ord, q, S), NEW t
    PROVE  InFiringOrder(time, ord, Queue!Without(q, t), S \ {t})
<1>1. q \in Seq(Timer) /\ ToSet(q) = S
  BY DEF InFiringOrder
<1>2. CASE \E i \in 1..Len(q) : q[i] = t
  <2> DEFINE n == CHOOSE i \in 1..Len(q) : q[i] = t
  <2>1. n \in 1..Len(q) /\ q[n] = t
    BY <1>2
  <2>2. Queue!Without(q, t) =
           IF \E i \in 1..Len(q) : q[i] = t THEN RemoveAt(q, n) ELSE q
    BY DEF Queue!Without, Queue!RemoveAt, RemoveAt
  <2> HIDE DEF n
  <2>3. /\ RemoveAt(q, n) \in Seq(Timer) /\ Len(RemoveAt(q, n)) = Len(q) - 1
        /\ \A k \in 1..(Len(q) - 1) :
              RemoveAt(q, n)[k] = IF k < n THEN q[k] ELSE q[k + 1]
    BY <1>1, <2>1, RemoveAtIs
  <2> DEFINE r == RemoveAt(q, n)
  <2> HIDE DEF r
  <2>4. InFiringOrder(time, ord, r, S \ {q[n]})
    <3>1. /\ r \in Seq(Timer) /\ Len(r) = Len(q) - 1
          /\ \A k \in 1..(Len(q) - 1) : r[k] = IF k < n THEN q[k] ELSE q[k + 1]
      BY <2>3 DEF r
    <3> QED  BY <2>1, <3>1, SkipFacts
  <2> QED  BY <1>2, <2>1, <2>2, <2>4 DEF r
<1>3. CASE ~ \E i \in 1..Len(q) : q[i] = t
  <2>1. Queue!Without(q, t) = q
    BY <1>3 DEF Queue!Without
  <2>2. t \notin S
    BY <1>1, <1>3, MemberFacts
  <2>3. S \ {t} = S
    BY <2>2
  <2> QED  BY <2>1, <2>3
<1> QED  BY <1>2, <1>3

\* A timer goes between those that fire before it and those that fire after it.
LEMMA InsertOrder ==
    ASSUME NEW time, NEW ord, NEW q, NEW S, InFiringOrder(time, ord, q, S),
           NEW t \in Timer \ S, NEW c \in 0..Len(q),
           \A i \in 1..c : LessThan(time, ord, t, q[i]),
           \A i \in (c + 1)..Len(q) : LessThan(time, ord, q[i], t)
    PROVE  InFiringOrder(time, ord, InsertAt(q, c + 1, t), S \cup {t})
<1> DEFINE r == InsertAt(q, c + 1, t)
           m == Len(q)
           at(k) == IF k <= c THEN k ELSE k - 1
<1>1. /\ q \in Seq(Timer) /\ IsInjective(q) /\ ToSet(q) = S /\ m \in Nat
      /\ \A j, k \in 1..m : j < k => LessThan(time, ord, q[k], q[j])
  BY DEF InFiringOrder
<1>2. /\ \A k \in 1..m : q[k] \in S
      /\ \A u \in S : \E k \in 1..m : q[k] = u
      /\ \A j, k \in 1..m : q[j] = q[k] => j = k
  BY <1>1, MemberFacts
<1>3. c + 1 \in 1..(m + 1) /\ c \in Nat /\ c <= m
  BY <1>1
<1>4. /\ r \in Seq(Timer) /\ Len(r) = m + 1
      /\ \A k \in 1..(m + 1) :
            r[k] = IF k < c + 1 THEN q[k] ELSE IF k = c + 1 THEN t ELSE q[k - 1]
  BY <1>1, <1>3, InsertAtIs
<1> HIDE DEF r, m
<1>5. ASSUME NEW k \in 1..(m + 1), k # c + 1
      PROVE  /\ at(k) \in 1..m /\ r[k] = q[at(k)]
             /\ at(k) <= c <=> k < c + 1
  <2>1. CASE k < c + 1
    BY <1>1, <1>3, <1>4, <2>1
  <2>2. CASE k > c + 1
    BY <1>1, <1>3, <1>4, <2>2
  <2> QED  BY <1>3, <1>5, <2>1, <2>2
<1>6. r[c + 1] = t
  BY <1>3, <1>4
<1>7. \A j, k \in 1..(m + 1) : j # c + 1 /\ k # c + 1 /\ j < k => at(j) < at(k)
  BY <1>1, <1>3
<1>8. \A k \in 1..m : \E j \in 1..(m + 1) : j # c + 1 /\ at(j) = k
  <2>1. ASSUME NEW k \in 1..m
        PROVE  \E j \in 1..(m + 1) : j # c + 1 /\ at(j) = k
    <3>1. CASE k <= c
      <4>1. k \in 1..(m + 1) /\ k # c + 1 /\ at(k) = k
        BY <1>1, <1>3, <3>1
      <4> QED  BY <4>1
    <3>2. CASE ~(k <= c)
      <4>1. k + 1 \in 1..(m + 1) /\ k + 1 # c + 1 /\ at(k + 1) = k
        BY <1>1, <1>3, <3>2
      <4> QED  BY <4>1
    <3> QED  BY <3>1, <3>2
  <2> QED  BY <2>1
<1> HIDE DEF at
<1>9. ASSUME NEW j \in 1..(m + 1), NEW k \in 1..(m + 1), j < k
      PROVE  LessThan(time, ord, r[k], r[j]) /\ r[k] # r[j]
  <2>1. CASE j # c + 1 /\ k # c + 1
    <3>1. at(j) < at(k) /\ at(j) \in 1..m /\ at(k) \in 1..m
      BY <1>5, <1>7, <1>9, <2>1
    <3>2. at(j) # at(k)
      BY <1>1, <3>1
    <3> QED  BY <1>1, <1>2, <1>5, <2>1, <3>1, <3>2
  <2>2. CASE j = c + 1 /\ k # c + 1
    <3>1. at(k) \in 1..m /\ r[k] = q[at(k)] /\ ~(at(k) <= c)
      BY <1>3, <1>5, <1>9, <2>2
    <3>2. at(k) \in (c + 1)..Len(q)
      BY <1>1, <1>3, <3>1 DEF m
    <3>3. q[at(k)] \in S
      BY <1>2, <3>1
    <3> QED  BY <1>6, <2>2, <3>1, <3>2, <3>3
  <2>3. CASE j # c + 1 /\ k = c + 1
    <3>1. at(j) \in 1..m /\ r[j] = q[at(j)] /\ at(j) <= c
      BY <1>3, <1>5, <1>9, <2>3
    <3>2. at(j) \in 1..c
      BY <1>1, <1>3, <3>1
    <3>3. q[at(j)] \in S
      BY <1>2, <3>1
    <3> QED  BY <1>6, <2>3, <3>1, <3>2, <3>3
  <2> QED  BY <1>9, <2>1, <2>2, <2>3
<1>10. IsInjective(r)
  <2>1. ASSUME NEW j \in 1..(m + 1), NEW k \in 1..(m + 1), r[j] = r[k]
        PROVE  j = k
    <3>1. ~(j < k) /\ ~(k < j)
      BY <1>9, <2>1
    <3> QED  BY <1>1, <3>1
  <2> QED  BY <1>4, <2>1, MemberFacts
<1>11. ToSet(r) = S \cup {t}
  <2>1. ASSUME NEW u \in ToSet(r)
        PROVE  u \in S \cup {t}
    <3>1. PICK k \in 1..(m + 1) : u = r[k]
      BY <1>4, MemberFacts
    <3> QED  BY <1>2, <1>5, <1>6, <3>1
  <2>2. ASSUME NEW u \in S
        PROVE  u \in ToSet(r)
    <3>1. PICK k \in 1..m : u = q[k]
      BY <1>2
    <3>2. PICK j \in 1..(m + 1) : j # c + 1 /\ at(j) = k
      BY <1>8
    <3>3. r[j] = u
      BY <1>5, <3>1, <3>2
    <3> QED  BY <1>4, <3>3, MemberFacts
  <2>3. t \in ToSet(r)
    BY <1>3, <1>4, <1>6, MemberFacts
  <2> QED  BY <2>1, <2>2, <2>3
<1>12. \A j, k \in 1..Len(r) : j < k => LessThan(time, ord, r[k], r[j])
  BY <1>4, <1>9
<1> QED  BY <1>4, <1>10, <1>11, <1>12 DEF InFiringOrder, r

\* The timers of a queue that fire by time k come first in it.
LEMMA EarlierFirst ==
    ASSUME NEW time \in [Timer -> Int], NEW ord, NEW q, NEW S,
           InFiringOrder(time, ord, q, S), NEW k \in Int
    PROVE  LET c == Cardinality({i \in 1..Len(q) : time[q[i]] <= k})
           IN  /\ c \in 0..Len(q)
               /\ \A i \in 1..Len(q) : time[q[i]] <= k <=> i <= c
<1> DEFINE E == {i \in 1..Len(q) : time[q[i]] <= k}
<1>1. /\ q \in Seq(Timer) /\ Len(q) \in Nat
      /\ \A i, j \in 1..Len(q) : i < j => LessThan(time, ord, q[j], q[i])
  BY DEF InFiringOrder
<1>2. \A i \in 1..Len(q) : time[q[i]] \in Int
  BY <1>1
<1>3. \A i, j \in 1..Len(q) : i < j => time[q[i]] <= time[q[j]]
  BY <1>1, <1>2 DEF LessThan
<1>4. PICK c \in 0..Len(q) : \A i \in 1..Len(q) : time[q[i]] <= k <=> i <= c
  <2> DEFINE Late == {i \in 1..Len(q) : ~(time[q[i]] <= k)}
  <2>1. CASE Late = {}
    <3>1. \A i \in 1..Len(q) : time[q[i]] <= k <=> i <= Len(q)
      BY <1>1, <2>1
    <3>2. Len(q) \in 0..Len(q)
      BY <1>1
    <3> QED  BY <3>1, <3>2
  <2>2. CASE Late # {}
    <3>1. PICK n \in Late : \A i \in Late : n <= i
      <4>1. Late \in SUBSET Nat
        OBVIOUS
      <4> HIDE DEF Late
      <4> QED  BY <2>2, <4>1, SmallestNumber
    <3>2. n \in 1..Len(q) /\ ~(time[q[n]] <= k)
      OBVIOUS
    <3>3. ASSUME NEW i \in 1..Len(q)
          PROVE  time[q[i]] <= k <=> i <= n - 1
      <4>1. CASE i < n
        <5>1. i \notin Late
          BY <3>1, <4>1
        <5> QED  BY <4>1, <5>1
      <4>2. CASE i = n
        BY <3>2, <4>2
      <4>3. CASE i > n
        <5>1. time[q[n]] <= time[q[i]]
          BY <1>3, <3>2, <4>3
        <5>2. ~(time[q[i]] <= k)
          BY <1>2, <3>2, <5>1
        <5> QED  BY <4>3, <5>2
      <4> QED  BY <4>1, <4>2, <4>3
    <3>4. n - 1 \in 0..Len(q)
      BY <1>1, <3>2
    <3> QED  BY <3>3, <3>4
  <2> QED  BY <2>1, <2>2
<1>5. E = 1..c
  BY <1>1, <1>4
<1>6. Cardinality(E) = c
  <2>1. Cardinality(1..c) = IF 1 > c THEN 0 ELSE c - 1 + 1
    BY FS_Interval
  <2> HIDE DEF E
  <2> QED  BY <1>5, <2>1
<1> HIDE DEF E
<1> QED  BY <1>4, <1>6 DEF E

(***************************************************************************)
(* The inductive invariant of the refinement: the active timers have a     *)
(* queue, which is the one that their times and orders determine.          *)
(***************************************************************************)
QInv == IInv /\ InFiringOrder(next, order, FiringOrder, Active)

LEMMA QueueIs ==
    ASSUME NEW q
    PROVE  /\ InFiringOrder(next, order, q, Active) /\ Linear(next, order, Active)
                 => q = FiringOrder
           /\ InFiringOrder(next', order', q, Active') /\ Linear(next', order', Active')
                 => q = FiringOrder'
<1>1. FiringOrder = FiringOrderOf(next, order, Active)
  BY DEF FiringOrder, FiringOrderOf, EarlierThan
<1>2. FiringOrder' = FiringOrderOf(next', order', Active')
  BY DEF FiringOrder, FiringOrderOf, EarlierThan
<1> QED  BY <1>1, <1>2, FiringOrderIs

ActiveLinear == Linear(next, order, Active)

LEMMA ActiveLinearFacts == IInv => ActiveLinear
<1> SUFFICES ASSUME IInv
             PROVE  ActiveLinear
  OBVIOUS
<1>1. TypeOK /\ Ages
  BY DEF IInv
<1>2. /\ next \in [Timer -> Int] /\ Active \in SUBSET Timer
      /\ order \in [Timer -> Unsigned] /\ current \in Unsigned
  BY <1>1, TimeFacts DEF TypeOK
<1>3. Recent(current, order, Active)
  BY <1>1, AgesRecent
<1>4. Linear(next, order, Active)
  BY ONLY <1>2, <1>3, LinearFacts
<1> QED  BY <1>4 DEF ActiveLinear

\* The queue of the active timers is sorted for their new keys.
LEMMA SetOrders ==
    ASSUME QInv, NEW t \in Timer, NEW k \in Times \cup {0}, SetNextFireTime(t, k)
    PROVE  InFiringOrder(next', order', Queue!WithTime(FiringOrder, t, k), Active')
<1> DEFINE q == FiringOrder
           others == Queue!Without(q, t)
           A == Active \ {t}
<1>1. TypeOK /\ HeapConsistent /\ Ages /\ InFiringOrder(next, order, q, Active)
  BY DEF QInv, IInv
<1>2. /\ next[t] # k /\ OrdersComparable(t)
      /\ next' = [next EXCEPT ![t] = k]
      /\ order' = [[order EXCEPT ![t] = current] EXCEPT ![t] = IF k = 0 THEN 0 ELSE current]
  BY DEF SetNextFireTime
<1>3. /\ next \in [Timer -> Int] /\ Active \in SUBSET Timer
      /\ order \in [Timer -> Unsigned] /\ current \in Unsigned
  BY <1>1, TimeFacts DEF TypeOK
<1>4. k \in Int /\ k >= 0
  BY TimesAssumption
<1>5. /\ next' \in [Timer -> Int] /\ next'[t] = k
      /\ \A u \in Timer \ {t} : next'[u] = next[u] /\ order'[u] = order[u]
  BY <1>2, <1>3, <1>4
<1> HIDE DEF q
<1>6. InFiringOrder(next, order, others, A)
  BY <1>1, WithoutOrder
<1>7. SameKeys(next, order, next', order', A)
  BY <1>3, <1>5 DEF SameKeys
<1>8. Queue!WithTime(q, t, k) =
         IF k = 0 THEN others
         ELSE InsertAt(others,
                       Cardinality({i \in 1..Len(others) : next[others[i]] <= k}) + 1, t)
  <2>1. Queue!WithTime(q, t, k) =
           IF k = 0 THEN others
           ELSE Queue!InsertAt(others,
                   Queue!Cardinality({i \in 1..Len(others) : next[others[i]] <= k}) + 1, t)
    BY DEF Queue!WithTime
  <2>2. \A E : Queue!Cardinality(E) = Cardinality(E)
    BY DEF Queue!Cardinality, Cardinality
  <2>3. \A n : Queue!InsertAt(others, n, t) = InsertAt(others, n, t)
    BY DEF Queue!InsertAt, InsertAt
  <2> HIDE DEF others
  <2> QED  BY <2>1, <2>2, <2>3
<1> HIDE DEF others
<1>9. InFiringOrder(next', order', others, A)
  BY ONLY <1>6, <1>7, SameFiring
<1>10. CASE k = 0
  <2>1. Active' = A
    BY <1>3, <1>5, <1>10 DEF Active
  <2> QED  BY <1>8, <1>9, <1>10, <2>1 DEF q
<1>11. CASE k # 0
  <2> DEFINE c == Cardinality({i \in 1..Len(others) : next[others[i]] <= k})
  <2>1. Active' = A \cup {t}
    BY <1>3, <1>5, <1>11 DEF Active
  <2>2. order' = [order EXCEPT ![t] = current]
    BY <1>2, <1>3, <1>11
  <2>3. /\ order' \in [Timer -> Unsigned]
        /\ Age(current, order', t) = 0
        /\ \A u \in A : Age(current, order', u) \in 1..(HalfRange - 1)
        /\ Recent(current, order', Active \cup {t})
    BY <1>1, <1>2, <2>2, SetFacts
  <2>4. c \in 0..Len(others) /\ \A i \in 1..Len(others) : next[others[i]] <= k <=> i <= c
    BY ONLY <1>3, <1>4, <1>6, EarlierFirst
  <2> HIDE DEF c
  <2>5. \A i \in 1..Len(others) : others[i] \in A
    <3>1. others \in Seq(Timer) /\ ToSet(others) = A
      BY <1>6 DEF InFiringOrder
    <3> QED  BY <3>1, MemberFacts
  <2>6. Len(others) \in Nat
    BY <1>6 DEF InFiringOrder
  <2> HIDE DEF A
  <2>7. \A u \in A : u \in Timer \ {t} /\ u \in Active
    BY <1>3 DEF A
  <2>8. ASSUME NEW i \in 1..c
        PROVE  LessThan(next', order', t, others[i])
    <3> DEFINE u == others[i]
    <3>1. i \in 1..Len(others) /\ i <= c
      BY <2>4, <2>6
    <3>2. u \in A /\ next[u] <= k
      BY <2>4, <2>5, <3>1
    <3> HIDE DEF u
    <3>3. u \in Timer \ {t} /\ next'[u] <= next'[t] /\ next'[u] \in Int
      BY <1>3, <1>5, <2>7, <3>2
    <3>4. CASE next'[t] # next'[u]
      <4>1. next'[u] < next'[t]
        BY <1>4, <1>5, <3>3, <3>4
      <4> QED  BY <3>4, <4>1 DEF LessThan, u
    <3>5. CASE next'[t] = next'[u]
      <4>1. Age(current, order', t) < Age(current, order', u)
        BY <2>3, <3>2, HalfRangeFacts
      <4>2. Active \cup {t} \in SUBSET Timer
        BY <1>3
      <4>3. t \in Active \cup {t} /\ u \in Active \cup {t} /\ t # u
        BY <2>7, <3>2
      <4>4. current \in Unsigned /\ order' \in [Timer -> Unsigned]
        BY <1>3, <2>3
      <4>5. Recent(current, order', Active \cup {t})
        BY <2>3
      <4>6. LessThan(next', order', t, u) <=>
               IF next'[t] # next'[u] THEN next'[u] < next'[t]
               ELSE Age(current, order', t) < Age(current, order', u)
        BY ONLY <4>2, <4>3, <4>4, <4>5, LessThanIs
      <4> QED  BY <3>5, <4>1, <4>6 DEF u
    <3> QED  BY <3>4, <3>5
  <2>9. ASSUME NEW i \in (c + 1)..Len(others)
        PROVE  LessThan(next', order', others[i], t)
    <3> DEFINE u == others[i]
    <3>1. i \in 1..Len(others) /\ ~(i <= c)
      BY <2>4, <2>6
    <3>2. u \in A /\ ~(next[u] <= k)
      BY <2>4, <2>5, <3>1
    <3> HIDE DEF u
    <3>3. u \in Timer \ {t} /\ next'[t] < next'[u] /\ next'[u] # next'[t]
      BY <1>3, <1>4, <1>5, <2>7, <3>2
    <3> QED  BY <3>3 DEF LessThan, u
  <2>10. t \in Timer \ A
    BY DEF A
  <2>11. InFiringOrder(next', order', InsertAt(others, c + 1, t), A \cup {t})
    BY ONLY <1>9, <2>4, <2>8, <2>9, <2>10, InsertOrder
  <2> QED  BY <1>8, <1>11, <2>1, <2>11 DEF c, q
<1> QED  BY <1>10, <1>11

\* The first element of the heap is the first of the queue, and the rest of the
\* queue is sorted for the new keys.
LEMMA PopOrders ==
    ASSUME QInv, PopMin
    PROVE  /\ FiringOrder # <<>> /\ Head(FiringOrder) = heap[1]
           /\ InFiringOrder(next', order', Tail(FiringOrder), Active')
<1> DEFINE q == FiringOrder
           t == heap[1]
<1>1. /\ IInv /\ TypeOK /\ HeapConsistent
      /\ InFiringOrder(next, order, q, Active)
  BY DEF QInv, IInv
<1>2. /\ heap # <<>>
      /\ next' = [next EXCEPT ![t] = 0]
      /\ order' = [order EXCEPT ![t] = 0]
  BY DEF PopMin
<1>3. next \in [Timer -> Int] /\ Active \in SUBSET Timer /\ order \in [Timer -> Unsigned]
  BY <1>1, TimeFacts DEF TypeOK
<1>4. Linear(next, order, Active)
  BY <1>1, ActiveLinearFacts DEF ActiveLinear
<1> HIDE DEF q
<1>5. q \in Seq(Timer) /\ ToSet(q) = Active /\ Len(q) \in Nat
      /\ \A i, k \in 1..Len(q) : i < k => LessThan(next, order, q[k], q[i])
  BY <1>1 DEF InFiringOrder
<1>6. /\ heap \in Seq(Timer) /\ IsInjective(heap) /\ ToSet(heap) = Active
      /\ Len(heap) \in Nat /\ IsHeap(next, order, heap)
  BY <1>1 DEF TypeOK, HeapConsistent, IsHeap
<1>7. 1 \in 1..Len(heap) /\ t \in Active
  <2>1. 1 \in 1..Len(heap)
    BY <1>2, <1>6
  <2> QED  BY <1>6, <2>1, MemberFacts
<1>8. q # <<>> /\ 1 \in 1..Len(q) /\ q[1] \in Active
  <2>1. PICK i \in 1..Len(q) : q[i] = t
    BY <1>5, <1>7, MemberFacts
  <2>2. q # <<>> /\ 1 \in 1..Len(q)
    BY <1>5, <2>1
  <2> QED  BY <1>5, <2>2, MemberFacts
<1>9. q[1] = t
  <2> SUFFICES ASSUME q[1] # t
               PROVE  FALSE
    OBVIOUS
  <2>1. LessThan(next, order, q[1], t)
    <3>1. PICK i \in 1..Len(heap) : heap[i] = q[1]
      BY <1>6, <1>8, MemberFacts
    <3>2. i \in 2..Len(heap)
      BY <3>1
    <3>3. LessThan(next, order, heap[i], heap[1])
      BY <1>4, <1>6, <3>2, TopFacts
    <3> QED  BY <3>1, <3>3
  <2>2. LessThan(next, order, t, q[1])
    <3>1. PICK i \in 1..Len(q) : q[i] = t
      BY <1>5, <1>7, MemberFacts
    <3>2. 1 < i
      BY <3>1
    <3> QED  BY <1>5, <1>8, <3>1, <3>2
  <2> QED  BY <1>4, <1>7, <1>8, <2>1, <2>2 DEF Linear
<1> HIDE DEF t
<1>10. Head(q) = t /\ InFiringOrder(next, order, Tail(q), Active \ {t})
  BY <1>1, <1>8, <1>9, TailOrder
<1>11. Active' = Active \ {t}
  BY <1>2, <1>3 DEF Active
<1>12. SameKeys(next, order, next', order', Active')
  BY <1>2, <1>3, <1>11 DEF SameKeys
<1>13. InFiringOrder(next, order, Tail(q), Active')
  BY <1>10, <1>11
<1>14. InFiringOrder(next', order', Tail(q), Active')
  BY ONLY <1>12, <1>13, SameFiring
<1> QED  BY <1>8, <1>10, <1>14 DEF q, t

LEMMA NextLinear == (IInv => ActiveLinear)'
BY ActiveLinearFacts, PTL

LEMMA SetImplements ==
    ASSUME QInv, NEW t \in Timer, NEW k \in Times \cup {0}, SetNextFireTime(t, k)
    PROVE  QInv' /\ Queue!SetTime(t, k)
<1> DEFINE w == Queue!WithTime(FiringOrder, t, k)
<1>1. IInv'
  BY SetKept DEF QInv
<1>2. Linear(next', order', Active')
  BY <1>1, NextLinear DEF ActiveLinear
<1>3. InFiringOrder(next', order', w, Active')
  BY SetOrders
<1> HIDE DEF w
<1>4. w = FiringOrder'
  BY <1>2, <1>3, QueueIs
<1>5. InFiringOrder(next', order', FiringOrder', Active')
  BY <1>3, <1>4
<1>6. QInv'
  BY <1>1, <1>5 DEF QInv
<1>7. next[t] # k /\ next' = [next EXCEPT ![t] = k] /\ popped' = popped
  BY DEF SetNextFireTime
<1>8. Queue!SetTime(t, k)
  BY <1>4, <1>7 DEF Queue!SetTime, w
<1> QED  BY <1>6, <1>8

LEMMA PopImplements ==
    ASSUME QInv, PopMin
    PROVE  QInv' /\ Queue!PopFirst
<1>1. IInv'
  BY PopKept DEF QInv
<1>2. Linear(next', order', Active')
  BY <1>1, NextLinear DEF ActiveLinear
<1>3. /\ FiringOrder # <<>> /\ Head(FiringOrder) = heap[1]
      /\ InFiringOrder(next', order', Tail(FiringOrder), Active')
  BY PopOrders
<1>4. Tail(FiringOrder) = FiringOrder'
  BY <1>2, <1>3, QueueIs
<1>5. InFiringOrder(next', order', FiringOrder', Active')
  BY <1>3, <1>4
<1>6. QInv'
  BY <1>1, <1>5 DEF QInv
<1>7. popped' = heap[1] /\ next' = [next EXCEPT ![heap[1]] = 0]
  BY DEF PopMin
<1>8. Queue!PopFirst
  BY <1>3, <1>4, <1>7 DEF Queue!PopFirst
<1> QED  BY <1>6, <1>8

LEMMA InitImplements == Init => QInv /\ Queue!QInit
<1> SUFFICES ASSUME Init
             PROVE  QInv /\ Queue!QInit
  OBVIOUS
<1>1. IInv /\ Linear(next, order, Active)
  BY InitKept, ActiveLinearFacts DEF ActiveLinear
<1>2. Active = {}
  BY DEF Init, Active
<1>3. InFiringOrder(next, order, <<>>, Active)
  BY <1>2 DEF InFiringOrder, IsInjective, ToSet
<1>4. <<>> = FiringOrder
  BY <1>1, <1>3, QueueIs
<1>5. QInv
  BY <1>1, <1>3, <1>4 DEF QInv
<1>6. Queue!QInit
  BY <1>4 DEF Init, Queue!QInit
<1> QED  BY <1>5, <1>6

LEMMA StutterImplements ==
    ASSUME QInv, UNCHANGED vars
    PROVE  QInv' /\ UNCHANGED Queue!qvars
<1>1. /\ next' = next /\ order' = order /\ heap' = heap
      /\ current' = current /\ popped' = popped
  BY DEF vars
<1>2. Active' = Active
  BY <1>1 DEF Active
<1>3. FiringOrder' = FiringOrder
  BY <1>1, <1>2 DEF FiringOrder
<1>4. IInv'
  BY <1>1, <1>2 DEF QInv, IInv, TypeOK, HeapConsistent, Ages
<1> QED  BY <1>1, <1>2, <1>3, <1>4 DEF QInv, Queue!qvars

(***************************************************************************)
(* The heap is the queue of TimerQueue: setNextFireTime puts a timer where *)
(* its time belongs, behind those with the same time, and                  *)
(* sharedTimerFiredInternal takes the first one, however often the         *)
(* insertion order has wrapped.                                            *)
(***************************************************************************)
THEOREM Implements == Spec => ImplementsQueue
<1>1. Init => QInv /\ Queue!QInit
  BY InitImplements
<1>2. QInv /\ [Next]_vars => QInv' /\ [Queue!QNext]_(Queue!qvars)
  <2> SUFFICES ASSUME QInv, [Next]_vars
               PROVE  QInv' /\ [Queue!QNext]_(Queue!qvars)
    OBVIOUS
  <2>1. CASE \E t \in Timer, k \in Times \cup {0} : SetNextFireTime(t, k)
    BY <2>1, SetImplements DEF Queue!QNext
  <2>2. CASE PopMin
    BY <2>2, PopImplements DEF Queue!QNext
  <2>3. CASE UNCHANGED vars
    BY <2>3, StutterImplements
  <2> QED  BY <2>1, <2>2, <2>3 DEF Next
<1> QED  BY <1>1, <1>2, PTL DEF Spec, ImplementsQueue, Queue!QSpec

=============================================================================
