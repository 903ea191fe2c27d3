---------------------------- MODULE SharedTimerWin ----------------------------
(***************************************************************************)
(* The one shared timer under ThreadTimers, on Windows: a posted message   *)
(* when it is due at once, a timer queue with a thread of its own that     *)
(* posts the message later, or a window timer when there is user input.    *)
(*                                                                         *)
(*   Source/WebCore/platform/win/SharedTimerWin.cpp, wke/wke.cpp           *)
(*                                                                         *)
(* The UI thread sets and stops the timer, and dispatches messages in the  *)
(* host's event loop, in wkeUpdate(), or in event loops inside handlers.   *)
(* How long a timer takes is left out: one that is set may elapse.  The    *)
(* timer that ends the high resolution of the clock is left out.           *)
(***************************************************************************)
EXTENDS Integers, Sequences

CONSTANTS
    HighResolution,  \* Settings::shouldUseHighResolutionTimers()
    MaxDepth,        \* bound: handlers on the stack of the UI thread
    MaxForgotten,    \* bound: queue timers set whose handle is overwritten
    MaxReposted      \* bound: window timer messages posted again

ASSUME ModeAssumption == HighResolution \in BOOLEAN
ASSUME BoundsAssumption ==
    /\ MaxDepth \in Nat
    /\ MaxForgotten \in Nat
    /\ MaxReposted \in Nat

VARIABLES
    wanted,       \* WebCore has set the timer, has not stopped it, and has not
                  \* been called since
    pendingTimers,  \* 2 stands for two or more
    posted,       \* timerFiredMessages in the queue of the window
    handle,       \* the queue timer of timer: "none", "set" or "elapsed"
    forgotten,    \* queue timers that are set but not in timer any more
    thread,       \* the timer-queue thread: "idle", or in queueTimerProc
                  \* before the increment ("enter") or the post ("post")
    timerID,      \* timerID # 0
    windowTimer,  \* the window timer is set
    reposted,     \* its messages that were posted again
    processing,   \* processingCustomTimerMessage
    handlers,     \* the running calls of TimerWindowWndProc, innermost last
    plugin        \* PluginView::isCallingPlugin()

queueTimers == <<handle, forgotten>>
windowTimers == <<timerID, windowTimer, reposted>>
counted == <<pendingTimers, posted>>
ui == <<processing, handlers, plugin>>
vars == <<wanted, counted, queueTimers, thread, windowTimers, ui>>

TypeOK ==
    /\ wanted \in BOOLEAN
    /\ pendingTimers \in 0..2
    /\ posted \in {0, 1}
    /\ handle \in {"none", "set", "elapsed"}
    /\ forgotten \in 0..MaxForgotten
    /\ thread \in {"idle", "enter", "post"}
    /\ timerID \in BOOLEAN
    /\ windowTimer \in BOOLEAN
    /\ reposted \in 0..MaxReposted
    /\ processing \in BOOLEAN
    /\ handlers \in Seq({"fired", "timer"})
    /\ plugin \in BOOLEAN

Init ==
    /\ wanted = FALSE
    /\ pendingTimers = 0
    /\ posted = 0
    /\ handle = "none"
    /\ forgotten = 0
    /\ thread = "idle"
    /\ timerID = FALSE
    /\ windowTimer = FALSE
    /\ reposted = 0
    /\ processing = FALSE
    /\ handlers = <<>>
    /\ plugin = FALSE

\* InterlockedIncrement(&pendingTimers)
Incremented == IF pendingTimers = 0 THEN 1 ELSE 2

-----------------------------------------------------------------------------
(* setSharedTimerFireInterval and stopSharedTimer, on the UI thread.         *)

\* What is in the message queue of the thread decides how the timer is set.
QueueStatus == {"empty", "paint", "input"}

\* if (timerID) KillTimer(...)
KillWindowTimer ==
    /\ timerID' = FALSE
    /\ windowTimer' = (windowTimer /\ ~timerID)
    /\ UNCHANGED reposted

AtOnce(short, status) ==
    HighResolution /\ status = "empty" /\ short /\ ~processing

\* Mutant: the message is posted without being counted.
PostUncounted(short, status) ==
    /\ AtOnce(short, status)
    /\ wanted' = TRUE
    /\ posted' = posted + 1
    /\ KillWindowTimer
    /\ UNCHANGED <<pendingTimers, queueTimers, thread, ui>>

\* The timer is due: one message is posted, unless one is under way.
SetByMessage(short, status) ==
    /\ AtOnce(short, status)
    /\ wanted' = TRUE
    /\ pendingTimers' = Incremented
    /\ posted' = IF pendingTimers = 0 THEN posted + 1 ELSE posted
    /\ KillWindowTimer
    /\ UNCHANGED <<queueTimers, thread, ui>>

\* The queue timer in timer is deleted, unless its callback runs already, and
\* another one is created.
SetByQueueTimer(short, status) ==
    /\ HighResolution
    /\ status # "input"
    /\ ~AtOnce(short, status)
    /\ wanted' = TRUE
    /\ handle' = "set"
    /\ KillWindowTimer
    /\ UNCHANGED <<counted, forgotten, thread, ui>>

\* Mutant: the window timer is not set.
SetByNothing(short, status, created) ==
    /\ ~HighResolution \/ status = "input" \/ (~AtOnce(short, status) /\ ~created)
    /\ wanted' = TRUE
    /\ timerID' = TRUE
    /\ handle' = "none"
    /\ UNCHANGED <<counted, forgotten, thread, windowTimer, reposted, ui>>

\* The window timer, on user input or if no queue timer can be created.  timer
\* becomes 0: a queue timer that is still set, if it was not deleted for the
\* one that could not be created, is forgotten.
SetByWindowTimer(short, status, created) ==
    LET deleted == HighResolution /\ status # "input" IN
    /\ ~HighResolution \/ status = "input" \/ (~AtOnce(short, status) /\ ~created)
    /\ wanted' = TRUE
    /\ timerID' = TRUE
    /\ windowTimer' = TRUE
    /\ forgotten' = IF handle = "set" /\ ~deleted THEN forgotten + 1 ELSE forgotten
    /\ forgotten' <= MaxForgotten
    /\ handle' = "none"
    /\ UNCHANGED <<counted, thread, reposted, ui>>

SetSharedTimer ==
    \E short \in BOOLEAN, status \in QueueStatus :
       \/ SetByMessage(short, status)
       \/ SetByQueueTimer(short, status)
       \/ \E created \in BOOLEAN : SetByWindowTimer(short, status, created)

StopSharedTimer ==
    /\ wanted' = FALSE
    /\ handle' = "none"
    /\ KillWindowTimer
    /\ UNCHANGED <<counted, forgotten, thread, ui>>

-----------------------------------------------------------------------------
(* The timer-queue thread, which runs one callback at a time.                *)

QueueTimerElapses ==
    /\ thread = "idle"
    /\ thread' = "enter"
    /\ \/ handle = "set" /\ handle' = "elapsed" /\ UNCHANGED forgotten
       \/ forgotten > 0 /\ forgotten' = forgotten - 1 /\ UNCHANGED handle
    /\ UNCHANGED <<wanted, counted, windowTimers, ui>>

\* queueTimerProc up to the increment, and ...
QueueTimerProc ==
    /\ thread = "enter"
    /\ pendingTimers' = Incremented
    /\ thread' = IF pendingTimers = 0 THEN "post" ELSE "idle"
    /\ UNCHANGED <<wanted, posted, queueTimers, windowTimers, ui>>

\* ... its PostMessage: the UI thread may run between the two.
QueueTimerPosts ==
    /\ thread = "post"
    /\ posted' = posted + 1
    /\ thread' = "idle"
    /\ UNCHANGED <<wanted, pendingTimers, queueTimers, windowTimers, ui>>

-----------------------------------------------------------------------------
(* TimerWindowWndProc, for a message that some event loop dispatches.        *)

Deep == Len(handlers) >= MaxDepth

\* Mutant: the count is decremented, not cleared.
FiredMessageDecrements ==
    /\ posted > 0
    /\ ~plugin
    /\ ~Deep
    /\ posted' = posted - 1
    /\ pendingTimers' = IF pendingTimers > 0 THEN pendingTimers - 1 ELSE 0
    /\ processing' = TRUE
    /\ handlers' = Append(handlers, "fired")
    /\ wanted' = FALSE
    /\ UNCHANGED <<queueTimers, thread, windowTimers, plugin>>

\* timerFiredMessage, up to the call of sharedTimerFiredFunction
FiredMessage ==
    /\ posted > 0
    /\ ~plugin
    /\ ~Deep
    /\ posted' = posted - 1
    /\ pendingTimers' = 0
    /\ processing' = TRUE
    /\ handlers' = Append(handlers, "fired")
    /\ wanted' = FALSE
    /\ UNCHANGED <<queueTimers, thread, windowTimers, plugin>>

\* WM_TIMER, from the window timer itself or posted again: it kills the window
\* timer, whichever setting it is of.
TimerMessage ==
    /\ ~plugin
    /\ ~Deep
    /\ \/ windowTimer /\ UNCHANGED reposted
       \/ reposted > 0 /\ reposted' = reposted - 1
    /\ windowTimer' = FALSE
    /\ handlers' = Append(handlers, "timer")
    /\ wanted' = FALSE
    /\ UNCHANGED <<counted, queueTimers, thread, timerID, processing, plugin>>

\* Inside a plug-in call a message is posted again.  That changes nothing for
\* one that was posted; the window timer stays set and gives more.
RepostTimerMessage ==
    /\ plugin
    /\ windowTimer
    /\ reposted < MaxReposted
    /\ reposted' = reposted + 1
    /\ UNCHANGED <<wanted, counted, queueTimers, thread, timerID, windowTimer, ui>>

\* sharedTimerFiredFunction returns; the inner of two handlers of the message
\* resets processingCustomTimerMessage for both.
HandlerReturns ==
    LET top == Len(handlers) IN
    /\ top > 0
    /\ ~plugin
    /\ processing' = (processing /\ handlers[top] # "fired")
    /\ handlers' = SubSeq(handlers, 1, top - 1)
    /\ UNCHANGED <<wanted, counted, queueTimers, thread, windowTimers, plugin>>

\* WebCore calls into a plug-in, which may run an event loop, and returns.
CallPlugin ==
    /\ plugin' = ~plugin
    /\ UNCHANGED <<wanted, counted, queueTimers, thread, windowTimers, processing, handlers>>

-----------------------------------------------------------------------------
Next ==
    \/ SetSharedTimer \/ StopSharedTimer
    \/ QueueTimerElapses \/ QueueTimerProc \/ QueueTimerPosts
    \/ FiredMessage \/ TimerMessage \/ RepostTimerMessage
    \/ HandlerReturns \/ CallPlugin

Spec == Init /\ [][Next]_vars

(***************************************************************************)
(* Fairness: timers that are set elapse, the thread runs, the host pumps   *)
(* messages (wkeUpdate), handlers and calls of plug-ins return.            *)
(***************************************************************************)
Fairness ==
    /\ WF_vars(QueueTimerElapses)
    /\ WF_vars(QueueTimerProc \/ QueueTimerPosts)
    /\ SF_vars(FiredMessage)
    /\ SF_vars(TimerMessage)
    /\ SF_vars(HandlerReturns)
    /\ SF_vars(plugin /\ CallPlugin)

FairSpec == Spec /\ Fairness

-----------------------------------------------------------------------------
(***************************************************************************)
(* A count without a message would be the end of all timers: nobody posts  *)
(* again until a handler has cleared it.  In any order of the two threads  *)
(* the count is not zero just when one message is posted or about to be,   *)
(* and there are never two, so that timers cannot fill the message queue.  *)
(***************************************************************************)
MessageCounted ==
    posted + (IF thread = "post" THEN 1 ELSE 0) = IF pendingTimers = 0 THEN 0 ELSE 1

(***************************************************************************)
(* A shared timer that WebCore waits for has something that will call it:  *)
(* a message, the timer queue or the window timer.  Setting it one way     *)
(* takes back the other ways, and a message that was posted again inside a *)
(* plug-in kills a window timer that was set since.                        *)
(***************************************************************************)
Secured ==
    \/ posted > 0 \/ thread # "idle" \/ handle = "set"
    \/ windowTimer \/ reposted > 0

WantedSecured == wanted => Secured

(***************************************************************************)
(* A shared timer that is not set over and over again is called or stopped.*)
(***************************************************************************)
SharedTimerFires == []<>~wanted \/ []<><<SetSharedTimer>>_vars

=============================================================================
