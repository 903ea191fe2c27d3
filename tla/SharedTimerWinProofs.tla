------------------------- MODULE SharedTimerWinProofs -------------------------
(***************************************************************************)
(* What holds of SharedTimerWin in every interleaving of the UI thread and *)
(* the timer-queue thread, for all bounds and in both modes.               *)
(***************************************************************************)
EXTENDS SharedTimerWin, TLAPS

\* WantedSecured rests on the count: setSharedTimerFireInterval and
\* queueTimerProc post nothing when they see that one is counted already.
IInv ==
    /\ TypeOK
    /\ MessageCounted
    /\ WantedSecured

\* TypeOK in parts: numbers, flags and all others need different provers.
Counters ==
    /\ pendingTimers \in 0..2
    /\ posted \in {0, 1}
    /\ forgotten \in 0..MaxForgotten
    /\ reposted \in 0..MaxReposted

Flags ==
    /\ wanted \in BOOLEAN
    /\ timerID \in BOOLEAN
    /\ windowTimer \in BOOLEAN
    /\ processing \in BOOLEAN
    /\ plugin \in BOOLEAN

Places ==
    /\ handle \in {"none", "set", "elapsed"}
    /\ thread \in {"idle", "enter", "post"}
    /\ handlers \in Seq({"fired", "timer"})

LEMMA StackFacts ==
    ASSUME NEW s \in Seq({"fired", "timer"})
    PROVE  /\ \A x \in {"fired", "timer"} : Append(s, x) \in Seq({"fired", "timer"})
           /\ Len(s) > 0 => SubSeq(s, 1, Len(s) - 1) \in Seq({"fired", "timer"})
OBVIOUS

LEMMA InitIInv == Init => IInv
<1> SUFFICES ASSUME Init
             PROVE  IInv
  OBVIOUS
<1>1. Counters /\ Places
  BY BoundsAssumption DEF Init, Counters, Places
<1>2. Flags
  BY DEF Init, Flags
<1>3. MessageCounted /\ WantedSecured
  BY DEF Init, MessageCounted, WantedSecured
<1> QED  BY <1>1, <1>2, <1>3 DEF IInv, TypeOK, Counters, Flags, Places

LEMMA NextIInv == IInv /\ [Next]_vars => IInv'
<1> SUFFICES ASSUME IInv, [Next]_vars
             PROVE  IInv'
  OBVIOUS
<1> USE BoundsAssumption DEF IInv, TypeOK, MessageCounted, WantedSecured, Secured
<1>1. CASE SetSharedTimer
  <2>1. PICK short \in BOOLEAN, status \in QueueStatus :
           \/ SetByMessage(short, status)
           \/ SetByQueueTimer(short, status)
           \/ \E created \in BOOLEAN : SetByWindowTimer(short, status, created)
    BY <1>1 DEF SetSharedTimer
  <2>2. CASE SetByMessage(short, status)
    <3>1. Counters' /\ Places'
      BY <2>2 DEF SetByMessage, Incremented, KillWindowTimer, queueTimers, ui, Counters, Places
    <3>2. Flags'
      BY <2>2 DEF SetByMessage, KillWindowTimer, ui, Flags
    <3>3. MessageCounted'
      BY <2>2 DEF SetByMessage, Incremented, queueTimers, ui
    <3>4. WantedSecured'
      BY <2>2 DEF SetByMessage
    <3> QED  BY <3>1, <3>2, <3>3, <3>4 DEF Counters, Flags, Places
  <2>3. CASE SetByQueueTimer(short, status)
    BY <2>3 DEF SetByQueueTimer, KillWindowTimer, counted, ui
  <2>4. ASSUME NEW created \in BOOLEAN, SetByWindowTimer(short, status, created)
        PROVE  IInv'
    BY <2>4 DEF SetByWindowTimer, counted, ui
  <2> QED  BY <2>1, <2>2, <2>3, <2>4
<1>2. CASE StopSharedTimer
  BY <1>2 DEF StopSharedTimer, KillWindowTimer, counted, ui
<1>3. CASE QueueTimerElapses
  BY <1>3 DEF QueueTimerElapses, counted, windowTimers, ui
<1>4. CASE QueueTimerProc
  BY <1>4 DEF QueueTimerProc, Incremented, queueTimers, windowTimers, ui
<1>5. CASE QueueTimerPosts
  BY <1>5 DEF QueueTimerPosts, queueTimers, windowTimers, ui
<1>6. CASE FiredMessage
  <2>1. Counters' /\ Places'
    BY <1>6, StackFacts DEF FiredMessage, queueTimers, windowTimers, Counters, Places
  <2>2. Flags'
    BY <1>6 DEF FiredMessage, windowTimers, Flags
  <2>3. MessageCounted' /\ WantedSecured'
    BY <1>6 DEF FiredMessage
  <2> QED  BY <2>1, <2>2, <2>3 DEF Counters, Flags, Places
<1>7. CASE TimerMessage
  <2>1. Counters' /\ Places'
    BY <1>7, StackFacts DEF TimerMessage, counted, queueTimers, Counters, Places
  <2>2. Flags'
    BY <1>7 DEF TimerMessage, Flags
  <2>3. MessageCounted' /\ WantedSecured'
    BY <1>7 DEF TimerMessage, counted
  <2> QED  BY <2>1, <2>2, <2>3 DEF Counters, Flags, Places
<1>8. CASE RepostTimerMessage
  BY <1>8 DEF RepostTimerMessage, counted, queueTimers, ui
<1>9. CASE HandlerReturns
  BY <1>9, StackFacts DEF HandlerReturns, counted, queueTimers, windowTimers
<1>10. CASE CallPlugin
  BY <1>10 DEF CallPlugin, counted, queueTimers, windowTimers
<1>11. CASE UNCHANGED vars
  BY <1>11 DEF vars, counted, queueTimers, windowTimers, ui
<1> QED
  BY <1>1, <1>2, <1>3, <1>4, <1>5, <1>6, <1>7, <1>8, <1>9, <1>10, <1>11 DEF Next

LEMMA Invariance == Spec => []IInv
BY InitIInv, NextIInv, PTL DEF Spec

(***************************************************************************)
(* Whatever the bounds and the mode: the variables keep their types; in    *)
(* particular there are never two messages in the queue.                   *)
(***************************************************************************)
THEOREM TypeCorrect == Spec => []TypeOK
<1>1. IInv => TypeOK
  BY DEF IInv
<1> QED  BY <1>1, Invariance, PTL

(***************************************************************************)
(* pendingTimers is not zero just when a message is posted or about to be: *)
(* queueTimerProc, setSharedTimerFireInterval and the window procedure     *)
(* agree on it without a lock.                                             *)
(***************************************************************************)
THEOREM Counted == Spec => []MessageCounted
<1>1. IInv => MessageCounted
  BY DEF IInv
<1> QED  BY <1>1, Invariance, PTL

(***************************************************************************)
(* A shared timer that is set and has not been called has a message, a     *)
(* queue timer or a window timer behind it, whatever was set before.       *)
(***************************************************************************)
THEOREM Secure == Spec => []WantedSecured
<1>1. IInv => WantedSecured
  BY DEF IInv
<1> QED  BY <1>1, Invariance, PTL

=============================================================================
