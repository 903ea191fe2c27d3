------------------------------ MODULE TimerQueue ------------------------------
(***************************************************************************)
(* What the heap of a thread's timers promises: the active timers in the   *)
(* order in which they fire, the earliest first and, at equal times, the   *)
(* one that was set first.  TimerHeap implements it, ThreadTimers uses it. *)
(*                                                                         *)
(*   Source/WebCore/platform/Timer.cpp, Timer.h                            *)
(***************************************************************************)
EXTENDS Integers, Sequences, FiniteSets, SequencesExt

CONSTANTS
    Timer,
    Times   \* the fire times; a time is never 0

VARIABLES
    next,   \* m_nextFireTime of each timer, 0 if it is inactive
    queue,  \* the active timers in the order in which they fire
    popped  \* the timer taken off the queue last

qvars == <<next, queue, popped>>

\* The queue q without timer t, which is in it once at most.
Without(q, t) ==
    IF \E i \in 1..Len(q) : q[i] = t
    THEN RemoveAt(q, CHOOSE i \in 1..Len(q) : q[i] = t)
    ELSE q

\* The queue q once timer t has the fire time k: a timer that is set goes
\* behind those with the same time, also when it was set before.
WithTime(q, t, k) ==
    LET others == Without(q, t)
        earlier == {i \in 1..Len(others) : next[others[i]] <= k}
    IN IF k = 0 THEN others ELSE InsertAt(others, Cardinality(earlier) + 1, t)

QInit ==
    /\ next = [t \in Timer |-> 0]
    /\ queue = <<>>
    /\ popped \in Timer

SetTime(t, k) ==
    /\ next[t] # k
    /\ next' = [next EXCEPT ![t] = k]
    /\ queue' = WithTime(queue, t, k)
    /\ UNCHANGED popped

PopFirst ==
    /\ queue # <<>>
    /\ popped' = Head(queue)
    /\ next' = [next EXCEPT ![Head(queue)] = 0]
    /\ queue' = Tail(queue)

QNext ==
    \/ \E t \in Timer, k \in Times \cup {0} : SetTime(t, k)
    \/ PopFirst

QSpec == QInit /\ [][QNext]_qvars

=============================================================================
