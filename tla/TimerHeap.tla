------------------------------- MODULE TimerHeap -------------------------------
(***************************************************************************)
(* The priority queue of a thread's timers: a binary heap in a vector,     *)
(* kept by the heap algorithms of the standard library through iterators   *)
(* that update m_heapIndex.  Two things are not what the library promises  *)
(* by contract: push_heap is called on a prefix of the vector, and the     *)
(* order of equal times is an unsigned counter that wraps.                 *)
(*                                                                         *)
(*   Source/WebCore/platform/Timer.cpp, ThreadTimers.cpp                   *)
(*                                                                         *)
(* A timer is its m_nextFireTime and m_heapInsertionOrder; m_heapIndex is  *)
(* its place in the vector, which TimerHeapReference keeps.  Vectors are   *)
(* counted from 1 here.                                                    *)
(***************************************************************************)
EXTENDS Integers, Sequences, FiniteSets, SequencesExt

CONSTANTS
    Timer,
    Times,  \* the fire times
    Width   \* bits of an unsigned int

ASSUME TimesAssumption == Times \subseteq Nat \ {0}
ASSUME WidthAssumption == Width \in Nat \ {0, 1}

VARIABLES
    next,     \* m_nextFireTime, 0 if inactive
    order,    \* m_heapInsertionOrder, 0 here while inactive: nobody reads it
    heap,     \* m_timerHeap
    current,  \* currentHeapInsertionOrder
    popped    \* the timer sharedTimerFiredInternal took last

vars == <<next, order, heap, current, popped>>

Unsigned == 0..(2^Width - 1)
HalfRange == (2^Width - 1) \div 2
Active == {t \in Timer : next[t] # 0}

TypeOK ==
    /\ next \in [Timer -> Times \cup {0}]
    /\ order \in [Timer -> Unsigned]
    /\ heap \in Seq(Timer)
    /\ current \in Unsigned
    /\ popped \in Timer

\* m_heapIndex of a timer in the vector h.
HeapIndex(h, t) == CHOOSE i \in 1..Len(h) : h[i] = t

\* Mutant: insertion orders are compared outright.
LessThanOutright(time, ord, a, b) ==
    IF time[a] # time[b] THEN time[b] < time[a] ELSE ord[a] > ord[b]

\* TimerHeapLessThanFunction: "backwards", the lowest time is the largest.
LessThan(time, ord, a, b) ==
    IF time[a] # time[b]
    THEN time[b] < time[a]
    ELSE (ord[a] - ord[b]) % 2^Width < HalfRange

-----------------------------------------------------------------------------
(* The standard library's algorithms.                                        *)

\* The places of a heap from i to the top.
WayUp[i \in Nat] == IF i = 0 THEN {} ELSE {i} \cup WayUp[i \div 2]

\* push_heap on the first n elements: the last one moves up past those that are
\* less, and each of these moves down by one place of the way.
PushHeap(time, ord, h, n) ==
    LET passed == {i \in WayUp[n] : \A k \in WayUp[n] :
                      i <= k /\ k < n => LessThan(time, ord, h[k], h[n])}
    IN  [i \in 1..Len(h) |-> IF i \notin passed THEN h[i]
                             ELSE IF i \div 2 \in passed THEN h[i \div 2]
                             ELSE h[n]]

\* pop_heap: the first element goes to the end; a hole moves down from the top
\* to a leaf, and the element that was the last moves up from there.
PopHeap(time, ord, h) ==
    LET m == Len(h) - 1
        Larger(i) ==
            IF 2 * i + 1 > m \/ LessThan(time, ord, h[2 * i + 1], h[2 * i])
            THEN 2 * i ELSE 2 * i + 1
        leaf == CHOOSE i \in 1..m :
                   2 * i > m /\ \A k \in WayUp[i] \ {1} : k = Larger(k \div 2)
        closed == [i \in 1..m |-> IF i = leaf THEN h[m + 1]
                                  ELSE IF i \in WayUp[leaf] THEN h[Larger(i)]
                                  ELSE h[i]]
    IN IF m < 1 THEN h ELSE Append(PushHeap(time, ord, closed, leaf), h[1])

-----------------------------------------------------------------------------
(* The heap functions of TimerBase.                                          *)

HeapDecreaseKey(time, ord, h, t) == PushHeap(time, ord, h, HeapIndex(h, t))

HeapInsert(time, ord, h, t) == HeapDecreaseKey(time, ord, Append(h, t), t)

\* heapPop: the timer has the minimum key for a while, so that it goes to the
\* top and from there to the end.
HeapPop(time, ord, h, t) ==
    LET least == [time EXCEPT ![t] = -1]
    IN PopHeap(least, ord, HeapDecreaseKey(least, ord, h, t))

HeapDelete(time, ord, h, t) == Front(HeapPop(time, ord, h, t))

\* Mutant: the timer is not popped before its key is decreased.
HeapIncreaseKeyInPlace(time, ord, h, t) == HeapDecreaseKey(time, ord, h, t)

HeapIncreaseKey(time, ord, h, t) ==
    HeapDecreaseKey(time, ord, HeapPop(time, ord, h, t), t)

\* heapDeleteMin of the first timer.
HeapDeleteMin(time, ord, h) == Front(PopHeap(time, ord, h))

-----------------------------------------------------------------------------
Init ==
    /\ next = [t \in Timer |-> 0]
    /\ order = [t \in Timer |-> 0]
    /\ heap = <<>>
    /\ current = 0
    /\ popped \in Timer

\* Mutant: the counter does not wrap.
NextOrderUnbounded == current + 1

\* currentHeapInsertionOrder++
NextOrder == (current + 1) % 2^Width

\* The bound of the model: no timer stays active while 2^31 others are set.
OrdersComparable(t) ==
    \A u \in Active \ {t} : (current - order[u]) % 2^Width < HalfRange

\* TimerBase::setNextFireTime(newTime), by start, stop, augment and destruction
SetNextFireTime(t, newTime) ==
    LET time == [next EXCEPT ![t] = newTime]
        ord == [order EXCEPT ![t] = current]
    IN /\ next[t] # newTime
       /\ OrdersComparable(t)
       /\ next' = time
       /\ order' = [ord EXCEPT ![t] = IF newTime = 0 THEN 0 ELSE current]
       /\ current' = NextOrder
       /\ heap' = CASE next[t] = 0 -> HeapInsert(time, ord, heap, t)
                    [] newTime = 0 -> HeapDelete(time, ord, heap, t)
                    [] newTime # 0 /\ next[t] > newTime ->
                          HeapDecreaseKey(time, ord, heap, t)
                    [] next[t] # 0 /\ next[t] < newTime ->
                          HeapIncreaseKey(time, ord, heap, t)
       /\ UNCHANGED popped

\* sharedTimerFiredInternal takes the first timer off the heap.
PopMin ==
    /\ heap # <<>>
    /\ popped' = heap[1]
    /\ next' = [next EXCEPT ![heap[1]] = 0]
    /\ order' = [order EXCEPT ![heap[1]] = 0]
    /\ heap' = HeapDeleteMin(next', order, heap)
    /\ UNCHANGED current

Next ==
    \/ \E t \in Timer, k \in Times \cup {0} : SetNextFireTime(t, k)
    \/ PopMin

Spec == Init /\ [][Next]_vars

-----------------------------------------------------------------------------
(***************************************************************************)
(* checkConsistency and checkHeapIndex: the heap holds each active timer   *)
(* once and no other, and no timer is behind one that fires later on the   *)
(* way to the top, although push_heap works on a prefix of the vector.     *)
(***************************************************************************)
HeapConsistent ==
    /\ IsInjective(heap)
    /\ ToSet(heap) = Active
    /\ \A i \in 2..Len(heap) : ~LessThan(next, order, heap[i \div 2], heap[i])

(***************************************************************************)
(* The heap is the queue of TimerQueue: timers come off it by time and, at *)
(* equal times, in the order in which they were set, across the wrap of    *)
(* the insertion order ("in case of overflow").                            *)
(***************************************************************************)
FiringOrder ==
    LET Earlier(t) == {u \in Active \ {t} : LessThan(next, order, t, u)}
    IN  [i \in 1..Cardinality(Active) |->
            CHOOSE t \in Active : Cardinality(Earlier(t)) = i - 1]

Queue == INSTANCE TimerQueue WITH queue <- FiringOrder

ImplementsQueue == Queue!QSpec

=============================================================================
