----------------------------- MODULE ThreadTimers -----------------------------
(***************************************************************************)
(* The timers of a thread: one shared timer of the platform stands for the *)
(* first timer of the queue, and when it fires, every timer that is due    *)
(* then is fired.  A timer's callback may set, stop and delete any timer,  *)
(* and may run an event loop, in which the shared timer fires again.       *)
(*                                                                         *)
(*   Source/WebCore/platform/ThreadTimers.cpp, Timer.cpp                   *)
(*                                                                         *)
(* The queue is that of TimerQueue, which TimerHeap implements.  Each run  *)
(* of sharedTimerFiredInternal is a frame on the stack.  One unit of time  *)
(* is maxDurationOfFiringTimers.                                           *)
(***************************************************************************)
EXTENDS Integers, Sequences, FiniteSets, SequencesExt

CONSTANTS
    Timer,
    Delays,    \* arguments of start(): intervals until the first firing
    Repeats,   \* repeat intervals, 0 for a one-shot timer
    MaxTime,   \* bound: the clock stops here
    MaxDepth   \* bound: runs of sharedTimerFiredInternal on the stack

ASSUME DelaysAssumption == Delays \subseteq Nat
ASSUME RepeatsAssumption == Repeats \subseteq Nat
ASSUME BoundsAssumption == MaxTime \in Nat \ {0} /\ MaxDepth \in Nat \ {0}

VARIABLES
    now,     \* monotonicallyIncreasingTime(), never 0
    next,    \* m_nextFireTime of each timer, 0 if it is inactive
    repeat,  \* m_repeatInterval of each timer
    queue,   \* m_timerHeap
    popped,  \* the timer that sharedTimerFiredInternal took last
    shared,  \* when the platform's shared timer is due, 0 if it is not set
    firing,  \* m_firingTimers
    stack    \* the runs of sharedTimerFiredInternal, the innermost last

timers == <<next, repeat, queue, popped>>
vars == <<now, next, repeat, queue, popped, shared, firing, stack>>

MaxDuration == 1

Heap == INSTANCE TimerQueue WITH Times <- Nat \ {0}

Frame == [fireTime : 1..MaxTime,
          at : {"loop", "fired", "nested"},  \* at the test of the loop, in
                                             \* fired(), in its event loop
          reset : BOOLEAN]  \* its timer ran fireTimersInNestedEventLoop

TypeOK ==
    /\ now \in 1..MaxTime
    /\ next \in [Timer -> Nat]
    /\ repeat \in [Timer -> Repeats \cup {0}]
    /\ queue \in Seq({t \in Timer : next[t] # 0})
    /\ popped \in Timer
    /\ shared \in Nat
    /\ firing \in BOOLEAN
    /\ stack \in Seq(Frame)

Init ==
    /\ now = 1
    /\ Heap!QInit
    /\ repeat = [t \in Timer |-> 0]
    /\ shared = 0
    /\ firing = FALSE
    /\ stack = <<>>

Top == stack[Len(stack)]
SetTop(place) == [stack EXCEPT ![Len(stack)].at = place]
At(place) == stack # <<>> /\ Top.at = place

\* An event loop of the thread is running: the outermost or a nested one.
InEventLoop == stack = <<>> \/ At("nested")

\* WebCore's code runs: event handlers, or a timer's callback.
CodeRuns == InEventLoop \/ At("fired")

-----------------------------------------------------------------------------
\* The shared timer once its callers have called updateSharedTimer().
SharedTimer(busy, q, time) ==
    IF busy \/ q = <<>> THEN 0
    ELSE IF time[Head(q)] > now THEN time[Head(q)] ELSE now

First(q, t) == q # <<>> /\ Head(q) = t

\* Mutant: the shared timer is updated only if the timer was the first one.
SetNextFireTimeWasFirst(t, k) ==
    /\ Heap!SetTime(t, k)
    /\ shared' = IF First(queue, t)
                 THEN SharedTimer(firing, queue', next') ELSE shared

\* TimerBase::setNextFireTime(newTime) for a newTime that differs
SetNextFireTime(t, k) ==
    /\ Heap!SetTime(t, k)
    /\ shared' = IF First(queue, t) \/ First(queue', t)
                 THEN SharedTimer(firing, queue', next') ELSE shared

Start(t, delay, interval) ==
    /\ CodeRuns
    /\ repeat' = [repeat EXCEPT ![t] = interval]
    /\ \/ SetNextFireTime(t, now + delay)
       \/ next[t] = now + delay /\ UNCHANGED <<next, queue, popped, shared>>
    /\ UNCHANGED <<now, firing, stack>>

\* stop(), and the destructor
Stop(t) ==
    /\ CodeRuns
    /\ repeat' = [repeat EXCEPT ![t] = 0]
    /\ SetNextFireTime(t, 0)
    /\ UNCHANGED <<now, firing, stack>>

\* augmentRepeatInterval(delta) of a repeating timer that is being fired, by
\* DOMTimer::fired
Augment(t, delta) ==
    /\ At("fired")
    /\ t = popped
    /\ next[t] # 0
    /\ repeat[t] # 0
    /\ repeat[t] + delta \in Repeats
    /\ repeat' = [repeat EXCEPT ![t] = @ + delta]
    /\ SetNextFireTime(t, next[t] + delta)
    /\ UNCHANGED <<now, firing, stack>>

Tick ==
    /\ now < MaxTime
    /\ now' = now + 1
    /\ UNCHANGED <<timers, shared, firing, stack>>

-----------------------------------------------------------------------------
\* The platform calls sharedTimerFired: because the shared timer is due, or
\* early or once more, as SharedTimerWin may.  The one-shot shared timer is
\* used up if it was its own call.
SharedTimerFires(itsOwn) ==
    /\ InEventLoop
    /\ itsOwn => shared # 0
    /\ shared' = IF itsOwn THEN 0 ELSE shared
    /\ \/ firing /\ UNCHANGED <<firing, stack>>
       \/ /\ ~firing
          /\ Len(stack) < MaxDepth
          /\ firing' = TRUE
          /\ stack' = Append(stack, [fireTime |-> now, at |-> "loop", reset |-> FALSE])
    /\ UNCHANGED <<now, timers>>

Due == queue # <<>> /\ next[Head(queue)] <= Top.fireTime

\* Mutant: a one-shot timer stays in the heap while it is fired.
FireNextKeepsOneShot ==
    LET t == Head(queue)
        again == IF repeat[t] = 0 THEN 0 ELSE Top.fireTime + repeat[t]
    IN /\ At("loop")
       /\ Due
       /\ popped' = t
       /\ next' = [next EXCEPT ![t] = again]
       /\ queue' = IF again = 0 THEN queue ELSE Heap!WithTime(queue, t, again)
       /\ stack' = SetTop("fired")
       /\ UNCHANGED <<now, repeat, shared, firing>>

\* One turn of the loop, up to timer->fired(): a repeating timer is set again
\* before it is fired.
FireNext ==
    LET t == Head(queue)
        again == IF repeat[t] = 0 THEN 0 ELSE Top.fireTime + repeat[t]
    IN /\ At("loop")
       /\ Due
       /\ popped' = t
       /\ next' = [next EXCEPT ![t] = again]
       /\ queue' = Heap!WithTime(queue, t, again)
       /\ shared' = IF again # 0 /\ First(queue', t)
                    THEN SharedTimer(firing, queue', next') ELSE shared
       /\ stack' = SetTop("fired")
       /\ UNCHANGED <<now, repeat, firing>>

\* Mutant: the shared timer is not updated at the end.
FinishWithoutUpdate ==
    /\ firing' = FALSE
    /\ stack' = Front(stack)
    /\ UNCHANGED shared

\* The end of sharedTimerFiredInternal.
Finish ==
    /\ firing' = FALSE
    /\ shared' = SharedTimer(FALSE, queue, next)
    /\ stack' = Front(stack)

\* No timer is due any more.
LoopEnds ==
    /\ At("loop")
    /\ ~Due
    /\ Finish
    /\ UNCHANGED <<now, timers>>

\* Mutant: the loop does not look at m_firingTimers after fired().
CallbackReturnsUnguarded ==
    /\ At("fired")
    /\ \/ Top.fireTime + MaxDuration < now /\ Finish
       \/ /\ Top.fireTime + MaxDuration >= now
          /\ stack' = SetTop("loop")
          /\ UNCHANGED <<shared, firing>>
    /\ UNCHANGED <<now, timers>>

\* fired() returns: "Catch the case where the timer asked timers to fire in a
\* nested event loop, or we are over time limit."
CallbackReturns ==
    LET stopHere == ~firing \/ Top.fireTime + MaxDuration < now IN
    /\ At("fired")
    /\ \/ stopHere /\ Finish
       \/ /\ ~stopHere
          /\ stack' = SetTop("loop")
          /\ UNCHANGED <<shared, firing>>
    /\ UNCHANGED <<now, timers>>

\* A callback runs an event loop: plainly (a message box, a plug-in), so that
\* timers wait, ...
RunNested ==
    /\ At("fired")
    /\ stack' = SetTop("nested")
    /\ UNCHANGED <<now, timers, shared, firing>>

\* ... or after fireTimersInNestedEventLoop(), for a modal window or in the
\* debugger.
FireTimersInNestedEventLoop ==
    /\ At("fired")
    /\ firing' = FALSE
    /\ shared' = SharedTimer(FALSE, queue, next)
    /\ stack' = [stack EXCEPT ![Len(stack)].at = "nested", ![Len(stack)].reset = TRUE]
    /\ UNCHANGED <<now, timers>>

NestedEnds ==
    /\ At("nested")
    /\ stack' = SetTop("fired")
    /\ UNCHANGED <<now, timers, shared, firing>>

-----------------------------------------------------------------------------
Next ==
    \/ \E t \in Timer :
          \/ \E delay \in Delays, interval \in Repeats : Start(t, delay, interval)
          \/ Stop(t)
          \/ \E delta \in 1..MaxTime : Augment(t, delta)
    \/ Tick
    \/ \E itsOwn \in BOOLEAN : SharedTimerFires(itsOwn)
    \/ FireNext \/ LoopEnds \/ CallbackReturns
    \/ RunNested \/ FireTimersInNestedEventLoop \/ NestedEnds

Spec == Init /\ [][Next]_vars

(***************************************************************************)
(* Fairness: time passes, the platform calls once the shared timer is due, *)
(* the code runs, callbacks return and nested event loops end.             *)
(***************************************************************************)
SharedTimerDue == shared <= now /\ SharedTimerFires(TRUE)

Fairness ==
    /\ WF_vars(Tick)
    /\ WF_vars(SharedTimerDue)
    /\ WF_vars(FireNext \/ LoopEnds)
    /\ SF_vars(CallbackReturns)
    /\ SF_vars(NestedEnds)

FairSpec == Spec /\ Fairness

-----------------------------------------------------------------------------
(***************************************************************************)
(* The shared timer stands for the first timer: whenever timers are not    *)
(* being fired and one is active, the shared timer is set, for no later    *)
(* than that timer, whatever callbacks, nested event loops and calls that  *)
(* come early have set, stopped or used up.                                *)
(***************************************************************************)
SharedTimerArmed ==
    ~firing /\ queue # <<>> =>
        shared # 0 /\ (shared <= next[Head(queue)] \/ shared <= now)

(***************************************************************************)
(* Only one run of sharedTimerFiredInternal goes on firing: one whose      *)
(* timer let timers fire in a nested event loop fires none after it, so    *)
(* that no two runs fire the same timers in turns.                         *)
(***************************************************************************)
OneLoopFires ==
    /\ \A i \in 1..Len(stack) : stack[i].at = "loop" => ~stack[i].reset
    /\ Cardinality({i \in 1..Len(stack) : ~stack[i].reset}) <= 1
    /\ firing => \E i \in 1..Len(stack) : ~stack[i].reset

(***************************************************************************)
(* A timer that is set fires when its time has come, or is set to another  *)
(* time or stopped: none is forgotten.                                     *)
(***************************************************************************)
TimersFire == \A t \in Timer :
    []<>(next[t] \notin 1..MaxTime) \/ []<><<next'[t] # next[t]>>_vars

=============================================================================
