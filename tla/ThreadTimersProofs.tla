-------------------------- MODULE ThreadTimersProofs --------------------------
(***************************************************************************)
(* Proofs about ThreadTimers, for every number of timers, every delay and  *)
(* repeat interval and every depth of nested event loops: its types, that  *)
(* the shared timer stays armed, and that only one loop fires timers.      *)
(***************************************************************************)
EXTENDS ThreadTimers, FiniteSetTheorems, TLAPS

-----------------------------------------------------------------------------
(* Queues without repetitions: what the operations do to the members.         *)

\* A sequence without repetitions.
Distinct(s) == \A i, k \in 1..Len(s) : s[i] = s[k] => i = k

LEMMA MemberFacts ==
    ASSUME NEW S, NEW s \in Seq(S)
    PROVE  /\ \A i \in 1..Len(s) : s[i] \in ToSet(s) /\ s[i] \in S
           /\ \A x \in ToSet(s) : \E i \in 1..Len(s) : s[i] = x
BY DEF ToSet

\* removeFirst(), or remove(0).
LEMMA TailFacts ==
    ASSUME NEW S, NEW s \in Seq(S), s # <<>>, Distinct(s)
    PROVE  /\ Head(s) \in S
           /\ Head(s) \in ToSet(s)
           /\ Tail(s) \in Seq(S)
           /\ ToSet(Tail(s)) = ToSet(s) \ {Head(s)}
           /\ Distinct(Tail(s))
<1> DEFINE t == Tail(s)
<1>1. /\ Head(s) = s[1] /\ Len(s) \in Nat \ {0}
      /\ t \in Seq(S) /\ Len(t) = Len(s) - 1
      /\ \A i \in 1..(Len(s) - 1) : t[i] = s[i + 1]
  OBVIOUS
<1> HIDE DEF t
<1>2. ToSet(t) = ToSet(s) \ {Head(s)}
  <2>1. ASSUME NEW i \in 1..Len(t)
        PROVE  t[i] \in ToSet(s) \ {Head(s)}
    BY <1>1 DEF ToSet, Distinct
  <2>2. ASSUME NEW i \in 1..Len(s), s[i] # Head(s)
        PROVE  s[i] \in ToSet(t)
    <3>1. i - 1 \in 1..Len(t) /\ t[i - 1] = s[i]
      BY <1>1, <2>2
    <3> QED  BY <3>1, <1>1, MemberFacts
  <2>3. ToSet(t) \subseteq ToSet(s) \ {Head(s)}
    BY <1>1, <2>1, MemberFacts
  <2>4. ToSet(s) \ {Head(s)} \subseteq ToSet(t)
    BY <2>2, MemberFacts
  <2> QED  BY <2>3, <2>4
<1>3. Distinct(t)
  BY <1>1 DEF Distinct
<1> QED  BY <1>1, <1>2, <1>3, MemberFacts DEF t

\* remove(i)
LEMMA RemoveAtFacts ==
    ASSUME NEW S, NEW s \in Seq(S), Distinct(s), NEW i \in 1..Len(s)
    PROVE  /\ RemoveAt(s, i) \in Seq(S)
           /\ ToSet(RemoveAt(s, i)) = ToSet(s) \ {s[i]}
           /\ Distinct(RemoveAt(s, i))
<1> DEFINE r == RemoveAt(s, i)
<1>1. /\ r \in Seq(S) /\ Len(r) = Len(s) - 1
      /\ \A k \in 1..(Len(s) - 1) : r[k] = IF k < i THEN s[k] ELSE s[k + 1]
  <2> DEFINE a == SubSeq(s, 1, i - 1)
             b == SubSeq(s, i + 1, Len(s))
  <2>1. /\ a \in Seq(S) /\ Len(a) = i - 1
        /\ \A k \in 1..(i - 1) : a[k] = s[k]
    OBVIOUS
  <2>2. /\ b \in Seq(S) /\ Len(b) = Len(s) - i
        /\ \A k \in 1..(Len(s) - i) : b[k] = s[k + i]
    OBVIOUS
  <2>3. r = a \o b
    BY DEF RemoveAt
  <2> HIDE DEF a, b, r
  <2>4. /\ r \in Seq(S) /\ Len(r) = Len(s) - 1
    BY <2>1, <2>2, <2>3
  <2>5. ASSUME NEW k \in 1..(Len(s) - 1)
        PROVE  r[k] = IF k < i THEN s[k] ELSE s[k + 1]
    <3>1. r[k] = IF k <= Len(a) THEN a[k] ELSE b[k - Len(a)]
      BY <2>1, <2>2, <2>3
    <3>2. CASE k < i  BY <3>1, <3>2, <2>1
    <3>3. CASE ~(k < i)
      <4>1. k - Len(a) \in 1..(Len(s) - i) /\ k - Len(a) + i = k + 1
        BY <3>3, <2>1
      <4> QED  BY <3>1, <3>3, <4>1, <2>1, <2>2
    <3> QED  BY <3>2, <3>3
  <2> QED  BY <2>4, <2>5
<1> HIDE DEF r
<1>2. ASSUME NEW k \in 1..Len(r)
      PROVE  r[k] \in ToSet(s) \ {s[i]}
  <2>1. CASE k < i  BY <2>1, <1>1 DEF ToSet, Distinct
  <2>2. CASE ~(k < i)  BY <2>2, <1>1 DEF ToSet, Distinct
  <2> QED  BY <2>1, <2>2
<1>3. ASSUME NEW k \in 1..Len(s), s[k] # s[i]
      PROVE  s[k] \in ToSet(r)
  <2>1. CASE k < i
    <3>1. k \in 1..Len(r) /\ r[k] = s[k]  BY <2>1, <1>1
    <3> QED  BY <3>1, <1>1, MemberFacts
  <2>2. CASE k > i
    <3>1. k - 1 \in 1..Len(r) /\ r[k - 1] = s[k]  BY <2>2, <1>1
    <3> QED  BY <3>1, <1>1, MemberFacts
  <2> QED  BY <2>1, <2>2, <1>3
<1>4. ToSet(r) = ToSet(s) \ {s[i]}
  <2>1. ToSet(r) \subseteq ToSet(s) \ {s[i]}
    BY <1>1, <1>2, MemberFacts
  <2>2. ToSet(s) \ {s[i]} \subseteq ToSet(r)
    BY <1>3, MemberFacts
  <2> QED  BY <2>1, <2>2
<1>5. Distinct(r)
  BY <1>1 DEF Distinct
<1> QED  BY <1>1, <1>4, <1>5 DEF r

\* What comes first stays first if it is not what is removed.
LEMMA RemoveAtHead ==
    ASSUME NEW S, NEW s \in Seq(S), NEW i \in 2..Len(s)
    PROVE  RemoveAt(s, i) # <<>> /\ Head(RemoveAt(s, i)) = Head(s)
<1> DEFINE a == SubSeq(s, 1, i - 1)
           b == SubSeq(s, i + 1, Len(s))
<1>1. a \in Seq(S) /\ Len(a) = i - 1 /\ a[1] = s[1]
  OBVIOUS
<1>2. b \in Seq(S)
  OBVIOUS
<1>3. RemoveAt(s, i) = a \o b
  BY DEF RemoveAt
<1> HIDE DEF a, b
<1>4. /\ a \o b \in Seq(S) /\ Len(a \o b) = Len(a) + Len(b) /\ Len(b) \in Nat
      /\ (a \o b)[1] = s[1]
  BY <1>1, <1>2
<1> QED  BY <1>1, <1>3, <1>4

\* insert(i, e), for an element that is not in the queue.
LEMMA InsertAtFacts ==
    ASSUME NEW S, NEW s \in Seq(S), NEW i \in 1..(Len(s) + 1), NEW e \in S
    PROVE  /\ InsertAt(s, i, e) \in Seq(S)
           /\ ToSet(InsertAt(s, i, e)) = ToSet(s) \cup {e}
           /\ Distinct(s) /\ e \notin ToSet(s) => Distinct(InsertAt(s, i, e))
           /\ InsertAt(s, i, e) # <<>>
           /\ \/ Head(InsertAt(s, i, e)) = e
              \/ s # <<>> /\ Head(InsertAt(s, i, e)) = Head(s)
<1> DEFINE r == InsertAt(s, i, e)
           a == SubSeq(s, 1, i - 1)
           b == SubSeq(s, i, Len(s))
<1>1. /\ a \in Seq(S) /\ Len(a) = i - 1
      /\ \A k \in 1..(i - 1) : a[k] = s[k]
  OBVIOUS
<1>2. /\ b \in Seq(S) /\ Len(b) = Len(s) - i + 1
      /\ \A k \in 1..(Len(s) - i + 1) : b[k] = s[k + i - 1]
  OBVIOUS
<1>3. r = (a \o <<e>>) \o b
  BY DEF InsertAt
<1> HIDE DEF a, b, r
<1> DEFINE c == a \o <<e>>
<1>4. /\ c \in Seq(S) /\ Len(c) = i
      /\ \A k \in 1..(i - 1) : c[k] = s[k]
      /\ c[i] = e
  BY <1>1
<1> HIDE DEF c
<1>5. /\ r \in Seq(S) /\ Len(r) = Len(s) + 1
      /\ \A k \in 1..Len(r) : r[k] = IF k <= i THEN c[k] ELSE b[k - i]
  <2>1. r = c \o b
    BY <1>3 DEF c
  <2>2. r \in Seq(S) /\ Len(r) = Len(c) + Len(b)
    BY <1>2, <1>4, <2>1
  <2>3. ASSUME NEW k \in 1..(Len(c) + Len(b))
        PROVE  r[k] = IF k <= Len(c) THEN c[k] ELSE b[k - Len(c)]
    BY <1>2, <1>4, <2>1
  <2>4. Len(c) + Len(b) = Len(s) + 1
    BY <1>2, <1>4
  <2> QED  BY <1>4, <2>2, <2>3, <2>4
<1>6. ASSUME NEW k \in 1..Len(r)
      PROVE  r[k] = IF k < i THEN s[k] ELSE IF k = i THEN e ELSE s[k - 1]
  <2>1. CASE k <= i  BY <1>4, <1>5, <2>1
  <2>2. CASE k > i
    <3>1. k - i \in 1..(Len(s) - i + 1) /\ (k - i) + i - 1 = k - 1
      BY <1>5, <2>2
    <3>2. r[k] = b[k - i]
      BY <1>5, <2>2
    <3>3. b[k - i] = s[k - 1]
      BY <1>2, <3>1
    <3>4. ~(k < i) /\ k # i
      BY <2>2, <1>5
    <3> QED  BY <3>2, <3>3, <3>4
  <2> QED  BY <1>5, <2>1, <2>2
<1>7. ToSet(r) \subseteq ToSet(s) \cup {e}
  <2>1. ASSUME NEW k \in 1..Len(r) PROVE r[k] \in ToSet(s) \cup {e}
    <3>1. CASE k < i
      <4>1. k \in 1..Len(s) /\ r[k] = s[k]
        BY <1>5, <1>6, <3>1
      <4> QED  BY <4>1, MemberFacts
    <3>2. CASE k > i
      <4>1. k - 1 \in 1..Len(s)
        BY <1>5, <3>2
      <4> QED  BY <1>6, <3>2, <4>1, MemberFacts
    <3> QED  BY <1>6, <3>1, <3>2
  <2> QED  BY <1>5, <2>1, MemberFacts
<1>8. ToSet(s) \cup {e} \subseteq ToSet(r)
  <2>1. i \in 1..Len(r) /\ r[i] = e
    BY <1>5, <1>6
  <2>2. ASSUME NEW k \in 1..Len(s) PROVE s[k] \in ToSet(r)
    <3>1. CASE k < i
      <4>1. k \in 1..Len(r) /\ r[k] = s[k]
        BY <1>5, <1>6, <3>1
      <4> QED  BY <1>5, <4>1, MemberFacts
    <3>2. CASE k >= i
      <4>1. k + 1 \in 1..Len(r) /\ r[k + 1] = s[k]
        BY <1>5, <1>6, <3>2
      <4> QED  BY <1>5, <4>1, MemberFacts
    <3> QED  BY <3>1, <3>2
  <2>3. e \in ToSet(r)
    BY <1>5, <2>1, MemberFacts
  <2> QED  BY <2>2, <2>3, MemberFacts
<1>9. ASSUME Distinct(s), e \notin ToSet(s)
      PROVE  Distinct(r)
  <2>1. \A k \in 1..Len(s) : s[k] # e
    BY <1>9, MemberFacts
  <2>2. ASSUME NEW k \in 1..Len(r), NEW m \in 1..Len(r), r[k] = r[m]
        PROVE  k = m
    <3> DEFINE Old(x) == IF x < i THEN x ELSE x - 1
    <3>1. ASSUME NEW x \in 1..Len(r), x # i
          PROVE  Old(x) \in 1..Len(s) /\ r[x] = s[Old(x)]
      BY <1>5, <1>6, <3>1
    <3>2. r[i] = e
      BY <1>5, <1>6
    <3>3. CASE k = i
      BY <2>1, <2>2, <3>1, <3>2, <3>3
    <3>4. CASE m = i
      BY <2>1, <2>2, <3>1, <3>2, <3>4
    <3>5. CASE k # i /\ m # i
      <4>1. Old(k) = Old(m)
        BY <1>9, <2>2, <3>1, <3>5 DEF Distinct
      <4> QED  BY <1>5, <3>5, <4>1
    <3> QED  BY <3>3, <3>4, <3>5
  <2> QED  BY <2>2 DEF Distinct
<1>10. r # <<>> /\ Head(r) = r[1] /\ 1 \in 1..Len(r)
  BY <1>5
<1>11. Head(r) = e \/ (s # <<>> /\ Head(r) = Head(s))
  <2>1. CASE i = 1  BY <1>6, <1>10, <2>1
  <2>2. CASE i > 1
    <3>1. s # <<>> /\ Head(s) = s[1]
      BY <2>2
    <3> QED  BY <1>6, <1>10, <2>2, <3>1
  <2> QED  BY <2>1, <2>2
<1> QED  BY <1>5, <1>7, <1>8, <1>9, <1>10, <1>11 DEF r

-----------------------------------------------------------------------------
(***************************************************************************)
(* The queue: what taking a timer out and setting its time do to its       *)
(* members, and to the timer that is the first.                            *)
(***************************************************************************)
LEMMA WithoutFacts ==
    ASSUME NEW q \in Seq(Timer), Distinct(q), NEW t \in Timer,
           NEW w, w = Heap!Without(q, t)
    PROVE  /\ w \in Seq(Timer) /\ Distinct(w)
           /\ ToSet(w) = ToSet(q) \ {t}
           /\ q = <<>> => w = <<>>
           /\ q # <<>> /\ Head(q) # t => w # <<>> /\ Head(w) = Head(q)
<1>1. CASE \E i \in 1..Len(q) : q[i] = t
  <2> DEFINE j == CHOOSE i \in 1..Len(q) : q[i] = t
  <2>1. j \in 1..Len(q) /\ q[j] = t
    BY <1>1
  <2>2. w = RemoveAt(q, j)
    BY <1>1 DEF Heap!Without, Heap!RemoveAt, RemoveAt
  <2> HIDE DEF j
  <2>3. w \in Seq(Timer) /\ Distinct(w) /\ ToSet(w) = ToSet(q) \ {t}
    BY <2>1, <2>2, RemoveAtFacts
  <2>4. q # <<>> /\ Head(q) = q[1]
    BY <2>1
  <2>5. ASSUME Head(q) # t
        PROVE  w # <<>> /\ Head(w) = Head(q)
    <3>1. j \in 2..Len(q)
      BY <2>1, <2>4, <2>5
    <3> QED  BY <2>2, <3>1, RemoveAtHead
  <2> QED  BY <2>3, <2>4, <2>5
<1>2. CASE ~ \E i \in 1..Len(q) : q[i] = t
  <2>1. w = q
    BY <1>2 DEF Heap!Without
  <2>2. t \notin ToSet(q)
    BY <1>2, MemberFacts
  <2> QED  BY <2>1, <2>2
<1> QED  BY <1>1, <1>2

LEMMA WithTimeFacts ==
    ASSUME NEW q \in Seq(Timer), Distinct(q), NEW t \in Timer, NEW k \in Nat,
           NEW w, w = Heap!WithTime(q, t, k)
    PROVE  /\ w \in Seq(Timer) /\ Distinct(w)
           /\ ToSet(w) = IF k = 0 THEN ToSet(q) \ {t} ELSE ToSet(q) \cup {t}
           /\ w # <<>> /\ Head(w) # t /\ ~First(q, t)
                 => q # <<>> /\ Head(w) = Head(q)
<1> DEFINE others == Heap!Without(q, t)
           earlier == {i \in 1..Len(others) : next[others[i]] <= k}
<1>1. /\ others \in Seq(Timer) /\ Distinct(others)
      /\ ToSet(others) = ToSet(q) \ {t}
      /\ q = <<>> => others = <<>>
      /\ q # <<>> /\ Head(q) # t => others # <<>> /\ Head(others) = Head(q)
  BY WithoutFacts
<1>2. w = IF k = 0 THEN others ELSE InsertAt(others, Cardinality(earlier) + 1, t)
  <2>1. w = IF k = 0 THEN others
            ELSE Heap!InsertAt(others, Heap!Cardinality(earlier) + 1, t)
    BY DEF Heap!WithTime
  <2>2. Heap!Cardinality(earlier) = Cardinality(earlier)
    BY DEF Heap!Cardinality, Cardinality
  <2>3. \A n : Heap!InsertAt(others, n, t) = InsertAt(others, n, t)
    BY DEF Heap!InsertAt, InsertAt
  <2> QED  BY <2>1, <2>2, <2>3
<1>3. Cardinality(earlier) + 1 \in 1..(Len(others) + 1)
  <2>1. Len(others) \in Nat
    BY <1>1
  <2>2. /\ IsFiniteSet(1..Len(others))
        /\ Cardinality(1..Len(others)) = Len(others)
    <3> HIDE DEF others
    <3>1. 1 \in Int /\ Len(others) \in Int
      BY <2>1
    <3>2. Cardinality(1..Len(others)) =
              IF 1 > Len(others) THEN 0 ELSE Len(others) - 1 + 1
      BY <3>1, FS_Interval
    <3>3. IsFiniteSet(1..Len(others))
      BY <3>1, FS_Interval
    <3> QED  BY <2>1, <3>2, <3>3
  <2>3. earlier \subseteq 1..Len(others)
    OBVIOUS
  <2> HIDE DEF earlier, others
  <2>4. /\ Cardinality(earlier) \in Nat
        /\ Cardinality(earlier) <= Len(others)
    BY <2>2, <2>3, FS_Subset, FS_CardinalityType
  <2> QED  BY <2>1, <2>4
<1> HIDE DEF others, earlier
<1>4. CASE k = 0
  BY <1>1, <1>2, <1>4 DEF First
<1>5. CASE k # 0
  <2>1. w = InsertAt(others, Cardinality(earlier) + 1, t)
    BY <1>2, <1>5
  <2>2. t \notin ToSet(others)
    BY <1>1
  <2>3. /\ w \in Seq(Timer)
        /\ ToSet(w) = ToSet(others) \cup {t}
        /\ Distinct(w)
        /\ Head(w) = t \/ (others # <<>> /\ Head(w) = Head(others))
    <3> DEFINE i == Cardinality(earlier) + 1
    <3>1. i \in 1..(Len(others) + 1) /\ others \in Seq(Timer)
      BY <1>1, <1>3
    <3>2. w = InsertAt(others, i, t)
      BY <2>1
    <3> HIDE DEF i
    <3>3. /\ InsertAt(others, i, t) \in Seq(Timer)
          /\ ToSet(InsertAt(others, i, t)) = ToSet(others) \cup {t}
          /\ Distinct(others) /\ t \notin ToSet(others)
                => Distinct(InsertAt(others, i, t))
          /\ \/ Head(InsertAt(others, i, t)) = t
             \/ others # <<>> /\ Head(InsertAt(others, i, t)) = Head(others)
      BY <3>1, InsertAtFacts
    <3> QED  BY <1>1, <2>2, <3>2, <3>3
  <2>4. ToSet(w) = ToSet(q) \cup {t}
    BY <1>1, <2>3
  <2> QED  BY <1>1, <1>5, <2>3, <2>4 DEF First
<1> QED  BY <1>4, <1>5

-----------------------------------------------------------------------------
(***************************************************************************)
(* The inductive invariant.  The queue holds each active timer once.  Of   *)
(* the runs of sharedTimerFiredInternal, all but the innermost have let    *)
(* timers fire in a nested event loop, and m_firingTimers says whether the *)
(* innermost has not.                                                      *)
(***************************************************************************)
Types ==
    /\ now \in 1..MaxTime
    /\ next \in [Timer -> Nat]
    /\ repeat \in [Timer -> Repeats \cup {0}]
    /\ queue \in Seq(Timer)
    /\ popped \in Timer
    /\ shared \in Nat
    /\ firing \in BOOLEAN
    /\ stack \in Seq(Frame)

Active(q, time) ==
    /\ Distinct(q)
    /\ \A t \in Timer : time[t] # 0 <=> t \in ToSet(q)

Nested(s, busy) ==
    /\ \A i \in 1..(Len(s) - 1) : s[i].reset
    /\ \A i \in 1..Len(s) : s[i].at = "loop" => ~s[i].reset
    /\ busy <=> (s # <<>> /\ ~s[Len(s)].reset)

IInv == Types /\ Active(queue, next) /\ Nested(stack, firing) /\ SharedTimerArmed

Place == {"loop", "fired", "nested"}

-----------------------------------------------------------------------------
(***************************************************************************)
(* The stack.                                                              *)
(***************************************************************************)
LEMMA FrameFacts ==
    ASSUME NEW f \in Frame
    PROVE  f.fireTime \in 1..MaxTime /\ f.at \in Place /\ f.reset \in BOOLEAN
BY DEF Frame, Place

\* The innermost run goes on at another place.
LEMMA SetTopFacts ==
    ASSUME NEW s \in Seq(Frame), s # <<>>, NEW place \in Place, NEW busy \in BOOLEAN,
           Nested(s, busy), place = "loop" => busy
    PROVE  LET r == [s EXCEPT ![Len(s)].at = place]
           IN  r \in Seq(Frame) /\ Nested(r, busy)
<1> DEFINE n == Len(s)
           top == [s[n] EXCEPT !.at = place]
           r == [s EXCEPT ![n] = top]
<1>1. n \in 1..Len(s) /\ s[n] \in Frame
  OBVIOUS
<1>2. top \in Frame /\ top.at = place /\ top.reset = s[n].reset
  BY <1>1 DEF Frame, Place
<1> HIDE DEF top
<1>3. /\ r \in Seq(Frame) /\ Len(r) = Len(s)
      /\ r[n] = top
      /\ \A i \in 1..Len(s) : i # n => r[i] = s[i]
  BY <1>1, <1>2
<1> HIDE DEF r
<1>4. /\ Len(r) = n /\ n \in Nat \ {0}
      /\ r # <<>>
  BY <1>1, <1>3
<1>5. \A i \in 1..Len(s) : r[i].reset = s[i].reset
  BY <1>2, <1>3
<1>6. ASSUME NEW i \in 1..Len(r), r[i].at = "loop" PROVE ~r[i].reset
  <2>1. CASE i = n
    BY <1>2, <1>3, <1>4, <1>5, <1>6, <2>1 DEF Nested
  <2>2. CASE i # n
    BY <1>3, <1>6, <2>2 DEF Nested
  <2> QED  BY <2>1, <2>2
<1>7. Nested(r, busy)
  BY <1>3, <1>4, <1>5, <1>6 DEF Nested
<1> QED  BY <1>3, <1>7 DEF r, top

\* The innermost run lets timers fire in a nested event loop.
LEMMA ResetTopFacts ==
    ASSUME NEW s \in Seq(Frame), s # <<>>, NEW busy \in BOOLEAN, Nested(s, busy)
    PROVE  LET r == [s EXCEPT ![Len(s)].at = "nested", ![Len(s)].reset = TRUE]
           IN  r \in Seq(Frame) /\ Nested(r, FALSE)
<1> DEFINE n == Len(s)
           r == [s EXCEPT ![n].at = "nested", ![n].reset = TRUE]
<1>1. n \in 1..Len(s) /\ s[n] \in Frame
  OBVIOUS
<1>2. PICK top \in Frame : top = [s[n] EXCEPT !.at = "nested", !.reset = TRUE]
  BY <1>1 DEF Frame
<1>3. top.at = "nested" /\ top.reset
  BY <1>1, <1>2 DEF Frame
<1>4. r = [s EXCEPT ![n] = top]
  BY <1>1, <1>2
<1> HIDE DEF r
<1>5. /\ r \in Seq(Frame) /\ Len(r) = Len(s)
      /\ r[n] = top
      /\ \A i \in 1..Len(s) : i # n => r[i] = s[i]
  BY <1>1, <1>4
<1>6. /\ Len(r) = n /\ n \in Nat \ {0} /\ r # <<>>
      /\ \A i \in 1..(n - 1) : i \in 1..Len(s) /\ i # n
  BY <1>1, <1>5
<1>7. Nested(r, FALSE)
  <2>1. \A i \in 1..(Len(r) - 1) : r[i].reset
    BY <1>5, <1>6 DEF Nested
  <2>2. \A i \in 1..Len(r) : r[i].at = "loop" => ~r[i].reset
    BY <1>3, <1>5, <1>6 DEF Nested
  <2> QED  BY <1>3, <1>5, <1>6, <2>1, <2>2 DEF Nested
<1> QED  BY <1>5, <1>7 DEF r

\* A run begins while none is firing, ...
LEMMA PushFacts ==
    ASSUME NEW s \in Seq(Frame), Nested(s, FALSE), NEW f \in Frame, ~f.reset
    PROVE  Append(s, f) \in Seq(Frame) /\ Nested(Append(s, f), TRUE)
<1> DEFINE r == Append(s, f)
<1>1. /\ r \in Seq(Frame) /\ Len(r) = Len(s) + 1 /\ Len(s) \in Nat /\ r # <<>>
      /\ r[Len(s) + 1] = f
      /\ \A i \in 1..Len(s) : r[i] = s[i]
  OBVIOUS
<1> HIDE DEF r
<1>2. \A i \in 1..Len(s) : i \in 1..(Len(s) - 1) \/ (i = Len(s) /\ s # <<>>)
  BY <1>1
<1>3. \A i \in 1..Len(s) : r[i].reset
  BY <1>1, <1>2 DEF Nested
<1>4. \A i \in 1..Len(r) : r[i].at = "loop" => ~r[i].reset
  <2>1. \A i \in 1..Len(r) : i \in 1..Len(s) \/ i = Len(s) + 1
    BY <1>1
  <2> QED  BY <1>1, <2>1 DEF Nested
<1>5. Len(r) - 1 = Len(s)
  BY <1>1
<1> QED  BY <1>1, <1>3, <1>4, <1>5 DEF Nested, r

\* ... and the innermost ends.
LEMMA PopFacts ==
    ASSUME NEW s \in Seq(Frame), s # <<>>, NEW busy \in BOOLEAN, Nested(s, busy)
    PROVE  Front(s) \in Seq(Frame) /\ Nested(Front(s), FALSE)
<1> DEFINE r == Front(s)
<1>1. /\ r \in Seq(Frame) /\ Len(r) = Len(s) - 1 /\ Len(s) \in Nat \ {0}
      /\ \A i \in 1..(Len(s) - 1) : r[i] = s[i]
  <2>1. PICK n \in Nat : n = Len(s) - 1 /\ n <= Len(s)
    OBVIOUS
  <2>2. r = SubSeq(s, 1, n)
    BY <2>1 DEF Front
  <2>3. SubSeq(s, 1, n) \in Seq(Frame) /\ Len(SubSeq(s, 1, n)) = n
    BY <2>1
  <2>4. \A i \in 1..n : SubSeq(s, 1, n)[i] = s[i]
    BY <2>1
  <2>5. Len(s) \in Nat \ {0}
    OBVIOUS
  <2> QED  BY <2>1, <2>2, <2>3, <2>4, <2>5
<1> HIDE DEF r
<1>2. /\ 1..(Len(s) - 1) \subseteq 1..Len(s)
      /\ 1..(Len(r) - 1) \subseteq 1..(Len(s) - 1)
      /\ r # <<>> => Len(r) \in 1..(Len(s) - 1)
  BY <1>1
<1> QED  BY <1>1, <1>2 DEF Nested, r

-----------------------------------------------------------------------------
(***************************************************************************)
(* The timers and the shared timer.                                        *)
(***************************************************************************)
LEMMA SharedTimerFacts ==
    ASSUME now \in 1..MaxTime, NEW busy \in BOOLEAN, NEW q \in Seq(Timer),
           NEW time \in [Timer -> Nat], Active(q, time)
    PROVE  /\ SharedTimer(busy, q, time) \in Nat
           /\ ~busy /\ q # <<>> =>
                 /\ SharedTimer(busy, q, time) # 0
                 /\ \/ SharedTimer(busy, q, time) <= time[Head(q)]
                    \/ SharedTimer(busy, q, time) <= now
<1>1. now \in Nat \ {0}
  BY BoundsAssumption
<1>2. CASE busy \/ q = <<>>
  BY <1>2 DEF SharedTimer
<1>3. CASE ~(busy \/ q = <<>>)
  <2>1. Head(q) \in Timer /\ Head(q) \in ToSet(q)
    BY <1>3, TailFacts DEF Active
  <2>2. time[Head(q)] \in Nat \ {0}
    BY <2>1 DEF Active
  <2> QED  BY <1>1, <1>3, <2>2 DEF SharedTimer
<1> QED  BY <1>2, <1>3

\* Setting a timer keeps the queue that of the active timers.
LEMMA SetTimeFacts ==
    ASSUME next \in [Timer -> Nat], NEW q \in Seq(Timer), Active(q, next),
           NEW t \in Timer, NEW k \in Nat,
           NEW w, w = Heap!WithTime(q, t, k),
           NEW time, time = [next EXCEPT ![t] = k]
    PROVE  /\ w \in Seq(Timer) /\ time \in [Timer -> Nat] /\ Active(w, time)
           /\ w # <<>> /\ ~First(w, t) /\ ~First(q, t) =>
                 q # <<>> /\ Head(w) = Head(q) /\ time[Head(w)] = next[Head(q)]
<1>1. /\ w \in Seq(Timer) /\ Distinct(w)
      /\ ToSet(w) = IF k = 0 THEN ToSet(q) \ {t} ELSE ToSet(q) \cup {t}
      /\ w # <<>> /\ Head(w) # t /\ ~First(q, t)
            => q # <<>> /\ Head(w) = Head(q)
  BY WithTimeFacts DEF Active
<1>2. time \in [Timer -> Nat]
  OBVIOUS
<1>3. \A x \in Timer : time[x] # 0 <=> x \in ToSet(w)
  <2>1. ASSUME NEW x \in Timer PROVE time[x] # 0 <=> x \in ToSet(w)
    <3>1. CASE x = t  BY <1>1, <3>1
    <3>2. CASE x # t  BY <1>1, <3>2 DEF Active
    <3> QED  BY <3>1, <3>2
  <2> QED  BY <2>1
<1>4. ASSUME w # <<>>, ~First(w, t), ~First(q, t)
      PROVE  q # <<>> /\ Head(w) = Head(q) /\ time[Head(w)] = next[Head(q)]
  <2>1. Head(w) # t /\ Head(w) \in Timer
    BY <1>1, <1>4 DEF First
  <2> QED  BY <1>1, <1>4, <2>1
<1> QED  BY <1>1, <1>2, <1>3, <1>4 DEF Active

LEMMA SetNextFireTimeKeeps ==
    ASSUME IInv, NEW t \in Timer, NEW k \in Nat, SetNextFireTime(t, k),
           now' = now, firing' = firing
    PROVE  /\ next' \in [Timer -> Nat] /\ queue' \in Seq(Timer)
           /\ popped' = popped /\ shared' \in Nat
           /\ Active(queue', next')
           /\ SharedTimerArmed'
<1>1. /\ now \in 1..MaxTime /\ next \in [Timer -> Nat] /\ queue \in Seq(Timer)
      /\ shared \in Nat /\ firing \in BOOLEAN /\ Active(queue, next)
  BY DEF IInv, Types
<1>2. /\ next' = [next EXCEPT ![t] = k]
      /\ queue' = Heap!WithTime(queue, t, k)
      /\ popped' = popped
      /\ shared' = IF First(queue, t) \/ First(queue', t)
                   THEN SharedTimer(firing, queue', next') ELSE shared
  BY DEF SetNextFireTime, Heap!SetTime
<1>3. PICK w : w = queue'
  OBVIOUS
<1>4. PICK time : time = next'
  OBVIOUS
<1>5. /\ w \in Seq(Timer) /\ time \in [Timer -> Nat] /\ Active(w, time)
      /\ w # <<>> /\ ~First(w, t) /\ ~First(queue, t) =>
            queue # <<>> /\ Head(w) = Head(queue) /\ time[Head(w)] = next[Head(queue)]
  <2>1. w = Heap!WithTime(queue, t, k) /\ time = [next EXCEPT ![t] = k]
    BY <1>2, <1>3, <1>4
  <2>2. w \in Seq(Timer) /\ time \in [Timer -> Nat] /\ Active(w, time)
    BY <1>1, <2>1, SetTimeFacts
  <2>3. w # <<>> /\ ~First(w, t) /\ ~First(queue, t) =>
            queue # <<>> /\ Head(w) = Head(queue) /\ time[Head(w)] = next[Head(queue)]
    BY <1>1, <2>1, SetTimeFacts
  <2> QED  BY <2>2, <2>3
<1>6. /\ SharedTimer(firing, w, time) \in Nat
      /\ ~firing /\ w # <<>> =>
            /\ SharedTimer(firing, w, time) # 0
            /\ \/ SharedTimer(firing, w, time) <= time[Head(w)]
               \/ SharedTimer(firing, w, time) <= now
  BY <1>1, <1>5, SharedTimerFacts
<1>7. shared' = IF First(queue, t) \/ First(w, t)
                THEN SharedTimer(firing, w, time) ELSE shared
  BY <1>2, <1>3, <1>4
<1>8. ~firing /\ w # <<>> => shared' # 0 /\ (shared' <= time[Head(w)] \/ shared' <= now)
  <2>1. CASE First(queue, t) \/ First(w, t)
    BY <1>6, <1>7, <2>1
  <2>2. CASE ~(First(queue, t) \/ First(w, t))
    BY <1>5, <1>7, <2>2 DEF IInv, SharedTimerArmed
  <2> QED  BY <2>1, <2>2
<1>9. SharedTimerArmed'
  BY <1>3, <1>4, <1>8 DEF SharedTimerArmed
<1> QED  BY <1>1, <1>2, <1>3, <1>4, <1>5, <1>6, <1>7, <1>9

-----------------------------------------------------------------------------
(***************************************************************************)
(* The steps.                                                              *)
(***************************************************************************)
LEMMA InvInit == Init => IInv
<1> SUFFICES ASSUME Init PROVE IInv
  OBVIOUS
<1>1. Types
  <2>1. now \in 1..MaxTime /\ shared \in Nat
    BY BoundsAssumption DEF Init
  <2>2. /\ next \in [Timer -> Nat]
        /\ repeat \in [Timer -> Repeats \cup {0}]
        /\ popped \in Timer
        /\ firing \in BOOLEAN
    BY DEF Init, Heap!QInit
  <2>3. queue \in Seq(Timer) /\ stack \in Seq(Frame)
    BY DEF Init, Heap!QInit
  <2> QED  BY <2>1, <2>2, <2>3 DEF Types
<1>2. Active(queue, next)
  BY DEF Init, Heap!QInit, Active, Distinct, ToSet
<1>3. Nested(stack, firing)
  BY DEF Init, Nested
<1>4. SharedTimerArmed
  BY DEF Init, Heap!QInit, SharedTimerArmed
<1> QED  BY <1>1, <1>2, <1>3, <1>4 DEF IInv

LEMMA StartKeeps ==
    ASSUME IInv, NEW t \in Timer, NEW delay \in Delays, NEW interval \in Repeats,
           Start(t, delay, interval)
    PROVE  IInv'
<1>1. /\ now' = now /\ firing' = firing /\ stack' = stack
      /\ repeat' = [repeat EXCEPT ![t] = interval]
  BY DEF Start
<1>2. now + delay \in Nat
  BY DelaysAssumption, BoundsAssumption DEF IInv, Types
<1>3. repeat' \in [Timer -> Repeats \cup {0}]
  BY <1>1 DEF IInv, Types
<1>4. CASE SetNextFireTime(t, now + delay)
  <2>1. /\ next' \in [Timer -> Nat] /\ queue' \in Seq(Timer)
        /\ popped' = popped /\ shared' \in Nat
        /\ Active(queue', next')
        /\ SharedTimerArmed'
    BY <1>1, <1>2, <1>4, SetNextFireTimeKeeps
  <2> QED  BY <1>1, <1>3, <2>1 DEF IInv, Types
<1>5. CASE UNCHANGED <<next, queue, popped, shared>>
  BY <1>1, <1>3, <1>5 DEF IInv, Types, SharedTimerArmed
<1> QED  BY <1>4, <1>5 DEF Start

LEMMA StopKeeps ==
    ASSUME IInv, NEW t \in Timer, Stop(t)
    PROVE  IInv'
<1>1. /\ now' = now /\ firing' = firing /\ stack' = stack
      /\ repeat' = [repeat EXCEPT ![t] = 0]
      /\ SetNextFireTime(t, 0)
  BY DEF Stop
<1>2. repeat' \in [Timer -> Repeats \cup {0}]
  BY <1>1 DEF IInv, Types
<1>3. /\ next' \in [Timer -> Nat] /\ queue' \in Seq(Timer)
      /\ popped' = popped /\ shared' \in Nat
      /\ Active(queue', next')
      /\ SharedTimerArmed'
  BY <1>1, SetNextFireTimeKeeps
<1> QED  BY <1>1, <1>2, <1>3 DEF IInv, Types

LEMMA AugmentKeeps ==
    ASSUME IInv, NEW t \in Timer, NEW delta \in 1..MaxTime, Augment(t, delta)
    PROVE  IInv'
<1>1. /\ now' = now /\ firing' = firing /\ stack' = stack
      /\ repeat[t] + delta \in Repeats
      /\ repeat' = [repeat EXCEPT ![t] = @ + delta]
      /\ SetNextFireTime(t, next[t] + delta)
  BY DEF Augment
<1>2. repeat' \in [Timer -> Repeats \cup {0}]
  BY <1>1 DEF IInv, Types
<1>3. next[t] + delta \in Nat
  BY BoundsAssumption DEF IInv, Types
<1>4. /\ next' \in [Timer -> Nat] /\ queue' \in Seq(Timer)
      /\ popped' = popped /\ shared' \in Nat
      /\ Active(queue', next')
      /\ SharedTimerArmed'
  BY <1>1, <1>3, SetNextFireTimeKeeps
<1> QED  BY <1>1, <1>2, <1>4 DEF IInv, Types

LEMMA TickKeeps ==
    ASSUME IInv, Tick
    PROVE  IInv'
<1>1. now' \in 1..MaxTime /\ now' = now + 1
  BY BoundsAssumption DEF Tick, IInv, Types
<1>2. UNCHANGED <<next, repeat, queue, popped, shared, firing, stack>>
  BY DEF Tick, timers
<1>3. SharedTimerArmed'
  BY <1>1, <1>2 DEF IInv, Types, SharedTimerArmed
<1> QED  BY <1>1, <1>2, <1>3 DEF IInv, Types

LEMMA SharedTimerFiresKeeps ==
    ASSUME IInv, NEW itsOwn \in BOOLEAN, SharedTimerFires(itsOwn)
    PROVE  IInv'
<1>1. UNCHANGED <<now, next, repeat, queue, popped>> /\ shared' \in Nat
  BY DEF SharedTimerFires, timers, IInv, Types
<1>2. /\ firing' = TRUE /\ stack' \in Seq(Frame) /\ Nested(stack', firing')
  <2>1. CASE firing /\ UNCHANGED <<firing, stack>>
    BY <2>1 DEF IInv, Types
  <2>2. CASE ~firing
    <3> DEFINE f == [fireTime |-> now, at |-> "loop", reset |-> FALSE]
    <3>1. f \in Frame /\ ~f.reset
      BY DEF Frame, IInv, Types
    <3>2. firing' = TRUE /\ stack' = Append(stack, f)
      BY <2>2 DEF SharedTimerFires
    <3> HIDE DEF f
    <3>3. stack \in Seq(Frame) /\ Nested(stack, FALSE)
      BY <2>2 DEF IInv, Types, Nested
    <3>4. Append(stack, f) \in Seq(Frame) /\ Nested(Append(stack, f), TRUE)
      BY <3>1, <3>3, PushFacts
    <3> QED  BY <3>2, <3>4
  <2> QED  BY <2>1, <2>2 DEF SharedTimerFires
<1> QED  BY <1>1, <1>2 DEF IInv, Types, SharedTimerArmed

LEMMA FireNextKeeps ==
    ASSUME IInv, FireNext
    PROVE  IInv'
<1> DEFINE t == Head(queue)
           again == IF repeat[t] = 0 THEN 0 ELSE Top.fireTime + repeat[t]
<1>1. /\ queue # <<>> /\ stack # <<>> /\ Top.at = "loop"
      /\ popped' = t
      /\ next' = [next EXCEPT ![t] = again]
      /\ queue' = Heap!WithTime(queue, t, again)
      /\ shared' = IF again # 0 /\ First(queue', t)
                   THEN SharedTimer(firing, queue', next') ELSE shared
      /\ stack' = SetTop("fired")
      /\ UNCHANGED <<now, repeat, firing>>
  BY DEF FireNext, At, Due
<1>2. t \in Timer
  BY <1>1 DEF IInv, Types
<1>3. Len(stack) \in 1..Len(stack) /\ Top \in Frame
  BY <1>1 DEF Top, IInv, Types
<1>4. firing
  BY <1>1, <1>3 DEF Top, IInv, Nested
<1>5. again \in Nat
  <2>1. Top.fireTime \in Nat
    BY <1>3, FrameFacts, BoundsAssumption
  <2>2. repeat[t] \in Nat
    <3>1. repeat[t] \in Repeats \cup {0}
      <4> HIDE DEF t
      <4> QED  BY <1>2 DEF IInv, Types
    <3>2. Repeats \cup {0} \subseteq Nat
      BY RepeatsAssumption
    <3> QED  BY <3>1, <3>2
  <2> QED  BY <2>1, <2>2
<1> HIDE DEF t, again
<1>6. PICK w : w = queue'
  OBVIOUS
<1>7. PICK time : time = next'
  OBVIOUS
<1>8. w \in Seq(Timer) /\ time \in [Timer -> Nat] /\ Active(w, time)
  <2>1. w = Heap!WithTime(queue, t, again) /\ time = [next EXCEPT ![t] = again]
    BY <1>1, <1>6, <1>7
  <2> QED  BY <1>2, <1>5, <2>1, SetTimeFacts DEF IInv, Types
<1>9. shared' \in Nat
  <2>1. SharedTimer(firing, w, time) \in Nat
    BY <1>8, SharedTimerFacts DEF IInv, Types
  <2> QED  BY <1>1, <1>6, <1>7, <2>1 DEF IInv, Types
<1>10. stack' \in Seq(Frame) /\ Nested(stack', firing')
  <2>1. stack' = [stack EXCEPT ![Len(stack)].at = "fired"] /\ firing' = firing
    BY <1>1 DEF SetTop
  <2>2. "fired" \in Place
    BY DEF Place
  <2> QED  BY <1>1, <2>1, <2>2, SetTopFacts DEF IInv, Types
<1>11. Types'
  BY <1>1, <1>2, <1>6, <1>7, <1>8, <1>9, <1>10 DEF IInv, Types
<1>12. SharedTimerArmed'
  BY <1>1, <1>4 DEF SharedTimerArmed
<1> QED  BY <1>6, <1>7, <1>8, <1>10, <1>11, <1>12 DEF IInv

LEMMA FinishKeeps ==
    ASSUME IInv, stack # <<>>, Finish, UNCHANGED <<now, timers>>
    PROVE  IInv'
<1>1. /\ UNCHANGED <<now, next, repeat, queue, popped>>
      /\ firing' = FALSE
      /\ shared' = SharedTimer(FALSE, queue, next)
      /\ stack' = Front(stack)
  BY DEF Finish, timers
<1>2. /\ shared' \in Nat
      /\ queue # <<>> => shared' # 0 /\ (shared' <= next[Head(queue)] \/ shared' <= now)
  BY <1>1, SharedTimerFacts DEF IInv, Types
<1>3. stack' \in Seq(Frame) /\ Nested(stack', firing')
  BY <1>1, PopFacts DEF IInv, Types
<1>4. SharedTimerArmed'
  BY <1>1, <1>2 DEF SharedTimerArmed
<1> QED  BY <1>1, <1>2, <1>3, <1>4 DEF IInv, Types

\* A run goes on at another place and leaves the timers alone.
LEMMA MoveKeeps ==
    ASSUME IInv, stack # <<>>, NEW place \in Place, stack' = SetTop(place),
           place = "loop" => firing,
           UNCHANGED <<now, timers, shared, firing>>
    PROVE  IInv'
<1>1. stack' \in Seq(Frame) /\ Nested(stack', firing')
  <2>1. stack' = [stack EXCEPT ![Len(stack)].at = place] /\ firing' = firing
    BY DEF SetTop
  <2> QED  BY <2>1, SetTopFacts DEF IInv, Types
<1> QED  BY <1>1 DEF IInv, Types, timers, SharedTimerArmed

LEMMA FireTimersInNestedEventLoopKeeps ==
    ASSUME IInv, FireTimersInNestedEventLoop
    PROVE  IInv'
<1>1. /\ UNCHANGED <<now, next, repeat, queue, popped>>
      /\ firing' = FALSE
      /\ shared' = SharedTimer(FALSE, queue, next)
      /\ stack # <<>>
      /\ stack' = [stack EXCEPT ![Len(stack)].at = "nested", ![Len(stack)].reset = TRUE]
  BY DEF FireTimersInNestedEventLoop, At, timers
<1>2. /\ shared' \in Nat
      /\ queue # <<>> => shared' # 0 /\ (shared' <= next[Head(queue)] \/ shared' <= now)
  BY <1>1, SharedTimerFacts DEF IInv, Types
<1>3. stack' \in Seq(Frame) /\ Nested(stack', firing')
  BY <1>1, ResetTopFacts DEF IInv, Types
<1>4. SharedTimerArmed'
  BY <1>1, <1>2 DEF SharedTimerArmed
<1> QED  BY <1>1, <1>2, <1>3, <1>4 DEF IInv, Types

LEMMA InvNext == IInv /\ [Next]_vars => IInv'
<1> SUFFICES ASSUME IInv, [Next]_vars PROVE IInv'
  OBVIOUS
<1>1. CASE \E t \in Timer, delay \in Delays, interval \in Repeats :
              Start(t, delay, interval)
  BY <1>1, StartKeeps
<1>2. CASE \E t \in Timer : Stop(t)
  BY <1>2, StopKeeps
<1>3. CASE \E t \in Timer, delta \in 1..MaxTime : Augment(t, delta)
  BY <1>3, AugmentKeeps
<1>4. CASE Tick
  BY <1>4, TickKeeps
<1>5. CASE \E itsOwn \in BOOLEAN : SharedTimerFires(itsOwn)
  BY <1>5, SharedTimerFiresKeeps
<1>6. CASE FireNext
  BY <1>6, FireNextKeeps
<1>7. CASE LoopEnds
  BY <1>7, FinishKeeps DEF LoopEnds, At
<1>8. CASE CallbackReturns
  <2>1. CASE Finish
    BY <1>8, <2>1, FinishKeeps DEF CallbackReturns, At
  <2>2. CASE firing /\ stack' = SetTop("loop") /\ UNCHANGED <<shared, firing>>
    <3>1. "loop" \in Place
      BY DEF Place
    <3> QED  BY <1>8, <2>2, <3>1, MoveKeeps DEF CallbackReturns, At
  <2> QED  BY <1>8, <2>1, <2>2 DEF CallbackReturns
<1>9. CASE RunNested
  <2>1. "nested" \in Place /\ "nested" # "loop"
    BY DEF Place
  <2> QED  BY <1>9, <2>1, MoveKeeps DEF RunNested, At
<1>10. CASE FireTimersInNestedEventLoop
  BY <1>10, FireTimersInNestedEventLoopKeeps
<1>11. CASE NestedEnds
  <2>1. "fired" \in Place /\ "fired" # "loop"
    BY DEF Place
  <2> QED  BY <1>11, <2>1, MoveKeeps DEF NestedEnds, At
<1>12. CASE UNCHANGED vars
  BY <1>12 DEF vars, IInv, Types, SharedTimerArmed
<1> QED
  BY <1>1, <1>2, <1>3, <1>4, <1>5, <1>6, <1>7, <1>8, <1>9, <1>10, <1>11, <1>12
  DEF Next

\* The inductive invariant holds in every reachable state.
THEOREM Invariant == Spec => []IInv
BY InvInit, InvNext, PTL DEF Spec

-----------------------------------------------------------------------------
(***************************************************************************)
(* What follows from it.                                                   *)
(***************************************************************************)

\* Every variable keeps its type: above all, only active timers are in the
\* queue, so that a timer that was stopped or deleted is never fired.
THEOREM TypeCorrect == Spec => []TypeOK
<1>1. IInv => TypeOK
  <2> SUFFICES ASSUME IInv PROVE TypeOK
    OBVIOUS
  <2> DEFINE set == {t \in Timer : next[t] # 0}
  <2>1. queue \in Seq(Timer) /\ Active(queue, next)
    BY DEF IInv, Types
  <2>2. \A i \in 1..Len(queue) : queue[i] \in set
    BY <2>1, MemberFacts DEF Active
  <2>3. queue \in Seq(set)
    <3>1. Len(queue) \in Nat /\ queue \in [1..Len(queue) -> Timer]
      BY <2>1
    <3> HIDE DEF set
    <3>2. queue \in [1..Len(queue) -> set]
      BY <2>2, <3>1
    <3> QED  BY <3>1, <3>2
  <2> QED  BY <2>3 DEF IInv, Types, TypeOK
<1> QED  BY <1>1, Invariant, PTL

\* While timers are not being fired, an active timer always has the shared
\* timer set for no later than its time: sharedTimerFiredInternal and
\* updateSharedTimer leave no timer without a call to come.
THEOREM Armed == Spec => []SharedTimerArmed
<1>1. IInv => SharedTimerArmed
  BY DEF IInv
<1> QED  BY <1>1, Invariant, PTL

\* However deep event loops are nested, one run of sharedTimerFiredInternal at
\* most goes on firing timers.
THEOREM OneLoop == Spec => []OneLoopFires
<1>1. IInv => OneLoopFires
  <2> SUFFICES ASSUME IInv PROVE OneLoopFires
    OBVIOUS
  <2> DEFINE n == Len(stack)
             live == {i \in 1..n : ~stack[i].reset}
  <2>1. stack \in Seq(Frame) /\ Nested(stack, firing) /\ n \in Nat
    BY DEF IInv, Types
  <2>2. live \subseteq {n}
    BY <2>1 DEF Nested
  <2>3. Cardinality(live) <= 1
    <3> HIDE DEF live, n
    <3>1. IsFiniteSet({n}) /\ Cardinality({n}) = 1
      BY FS_Singleton
    <3>2. Cardinality(live) \in Nat /\ Cardinality(live) <= Cardinality({n})
      BY <2>2, <3>1, FS_Subset, FS_CardinalityType
    <3> QED  BY <3>1, <3>2
  <2>4. firing => \E i \in 1..Len(stack) : ~stack[i].reset
    BY <2>1 DEF Nested
  <2>5. \A i \in 1..Len(stack) : stack[i].at = "loop" => ~stack[i].reset
    BY <2>1 DEF Nested
  <2> QED  BY <2>3, <2>4, <2>5 DEF OneLoopFires
<1> QED  BY <1>1, Invariant, PTL

=============================================================================
