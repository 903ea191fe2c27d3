----------------------------- MODULE LoadService -----------------------------
(***************************************************************************)
(* What the network back end promises to those who load through it,        *)
(* without timers, references or libcurl: requests are admitted in the     *)
(* order they were made, at most Capacity are served at a time, a request  *)
(* can be withdrawn at any time, and the service never drops a request of  *)
(* somebody who still waits for the answer.                                *)
(***************************************************************************)
EXTENDS Naturals, Sequences, FiniteSets, SequencesExt

CONSTANTS Job, Capacity

VARIABLES
    waiting,  \* the requests not yet admitted, oldest first
    serving,  \* the requests that occupy the service
    owed      \* the requests whose makers wait for an answer

svars == <<waiting, serving, owed>>

SInit ==
    /\ waiting = <<>>
    /\ serving = {}
    /\ owed = {}

\* A request is made: it waits its turn, or (refused) is answered by itself.
Ask(j) ==
    /\ j \notin owed \cup serving \cup ToSet(waiting)
    /\ owed' = owed \cup {j}
    /\ waiting' \in {waiting, Append(waiting, j)}
    /\ UNCHANGED serving

\* Its maker has the answer, or gives up while it is served or refused.
Settle(j) ==
    /\ j \in owed \ ToSet(waiting)
    /\ owed' = owed \ {j}
    /\ UNCHANGED <<waiting, serving>>

\* Its maker gives up while it waits.
Withdraw(j) ==
    /\ j \in owed
    /\ \E i \in 1..Len(waiting) : waiting[i] = j /\ waiting' = RemoveAt(waiting, i)
    /\ owed' = owed \ {j}
    /\ UNCHANGED serving

\* The oldest request is admitted; or given up there and then, refused below.
Admit ==
    /\ waiting # <<>>
    /\ Cardinality(serving) < Capacity
    /\ Head(waiting) \in owed
    /\ serving' = serving \cup {Head(waiting)}
    /\ waiting' = Tail(waiting)
    /\ owed' \in {owed, owed \ {Head(waiting)}}

\* A request that nobody waits for any more leaves the service.
Retire(j) ==
    /\ j \in serving \ owed
    /\ serving' = serving \ {j}
    /\ UNCHANGED <<waiting, owed>>

SNext ==
    \/ \E j \in Job : Ask(j) \/ Settle(j) \/ Withdraw(j) \/ Retire(j)
    \/ Admit

Spec == SInit /\ [][SNext]_svars

=============================================================================
