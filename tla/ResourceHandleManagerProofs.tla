--------------------- MODULE ResourceHandleManagerProofs ---------------------
(***************************************************************************)
(* What is proved of ResourceHandleManager, for every set of jobs, every   *)
(* number of slots and every set of faults, in four parts with an          *)
(* inductive invariant each, the later ones on top of the first:           *)
(*   IInv    the accounting of slots, references and places;               *)
(*   Owners  who is called: no event after a cancel, nor to a deferred job *)
(*           whose pause libcurl has kept;                                 *)
(*   Polls   the one-shot timer that polls libcurl is not lost;            *)
(*   and the back end implements LoadService.                              *)
(***************************************************************************)
EXTENDS ResourceHandleManager, FiniteSetTheorems, TLAPS

-----------------------------------------------------------------------------
(* Queues without repetitions: what the operations do to the members.         *)

\* A sequence without repetitions.
Distinct(s) == \A i, k \in 1..Len(s) : s[i] = s[k] => i = k

LEMMA MemberFacts ==
    ASSUME NEW S, NEW s \in Seq(S)
    PROVE  /\ \A i \in 1..Len(s) : s[i] \in ToSet(s) /\ s[i] \in S
           /\ \A x \in ToSet(s) : \E i \in 1..Len(s) : s[i] = x
BY DEF ToSet

\* append(e), for an element that is not in the queue.
LEMMA AppendFacts ==
    ASSUME NEW S, NEW s \in Seq(S), NEW e \in S
    PROVE  /\ Append(s, e) \in Seq(S)
           /\ ToSet(Append(s, e)) = ToSet(s) \cup {e}
           /\ Distinct(s) /\ e \notin ToSet(s) => Distinct(Append(s, e))
<1> DEFINE r == Append(s, e)
<1>1. /\ r \in Seq(S) /\ Len(r) = Len(s) + 1 /\ Len(s) \in Nat
      /\ r[Len(s) + 1] = e
      /\ \A i \in 1..Len(s) : r[i] = s[i]
  OBVIOUS
<1> HIDE DEF r
<1>2. ToSet(r) = ToSet(s) \cup {e}
  <2>1. \A i \in 1..Len(r) : i \in 1..Len(s) \/ i = Len(s) + 1
    BY <1>1
  <2>2. Len(s) + 1 \in 1..Len(r) /\ 1..Len(s) \subseteq 1..Len(r)
    BY <1>1
  <2>3. DOMAIN r = 1..Len(r) /\ DOMAIN s = 1..Len(s)
    BY <1>1
  <2> QED  BY <1>1, <2>1, <2>2, <2>3 DEF ToSet
<1>3. Distinct(s) /\ e \notin ToSet(s) => Distinct(r)
  BY <1>1 DEF ToSet, Distinct
<1> QED  BY <1>1, <1>2, <1>3 DEF r

\* removeFirst(), or remove(0).
LEMMA TailFacts ==
    ASSUME NEW S, NEW s \in Seq(S), s # <<>>, Distinct(s)
    PROVE  /\ Head(s) \in S
           /\ Head(s) \in ToSet(s)
           /\ Tail(s) \in Seq(S)
           /\ ToSet(Tail(s)) = ToSet(s) \ {Head(s)}
           /\ Distinct(Tail(s))
<1> DEFINE t == Tail(s)
<1>1. /\ Head(s) = s[1] /\ Len(s) \in Nat \ {0}
      /\ t \in Seq(S) /\ Len(t) = Len(s) - 1
      /\ \A i \in 1..(Len(s) - 1) : t[i] = s[i + 1]
  OBVIOUS
<1> HIDE DEF t
<1>2. ToSet(t) = ToSet(s) \ {Head(s)}
  <2>1. ASSUME NEW i \in 1..Len(t)
        PROVE  t[i] \in ToSet(s) \ {Head(s)}
    BY <1>1 DEF ToSet, Distinct
  <2>2. ASSUME NEW i \in 1..Len(s), s[i] # Head(s)
        PROVE  s[i] \in ToSet(t)
    <3>1. i - 1 \in 1..Len(t) /\ t[i - 1] = s[i]
      BY <1>1, <2>2
    <3> QED  BY <3>1, <1>1, MemberFacts
  <2>3. ToSet(t) \subseteq ToSet(s) \ {Head(s)}
    BY <1>1, <2>1, MemberFacts
  <2>4. ToSet(s) \ {Head(s)} \subseteq ToSet(t)
    BY <2>2, MemberFacts
  <2> QED  BY <2>3, <2>4
<1>3. Distinct(t)
  BY <1>1 DEF Distinct
<1> QED  BY <1>1, <1>2, <1>3, MemberFacts DEF t

\* remove(i)
LEMMA RemoveAtFacts ==
    ASSUME NEW S, NEW s \in Seq(S), Distinct(s), NEW i \in 1..Len(s)
    PROVE  /\ RemoveAt(s, i) \in Seq(S)
           /\ ToSet(RemoveAt(s, i)) = ToSet(s) \ {s[i]}
           /\ Distinct(RemoveAt(s, i))
<1> DEFINE r == RemoveAt(s, i)
<1>1. /\ r \in Seq(S) /\ Len(r) = Len(s) - 1
      /\ \A k \in 1..(Len(s) - 1) : r[k] = IF k < i THEN s[k] ELSE s[k + 1]
  <2> DEFINE a == SubSeq(s, 1, i - 1)
             b == SubSeq(s, i + 1, Len(s))
  <2>1. /\ a \in Seq(S) /\ Len(a) = i - 1
        /\ \A k \in 1..(i - 1) : a[k] = s[k]
    OBVIOUS
  <2>2. /\ b \in Seq(S) /\ Len(b) = Len(s) - i
        /\ \A k \in 1..(Len(s) - i) : b[k] = s[k + i]
    OBVIOUS
  <2>3. r = a \o b
    BY DEF RemoveAt
  <2> HIDE DEF a, b, r
  <2>4. /\ r \in Seq(S) /\ Len(r) = Len(s) - 1
    BY <2>1, <2>2, <2>3
  <2>5. ASSUME NEW k \in 1..(Len(s) - 1)
        PROVE  r[k] = IF k < i THEN s[k] ELSE s[k + 1]
    <3>1. r[k] = IF k <= Len(a) THEN a[k] ELSE b[k - Len(a)]
      BY <2>1, <2>2, <2>3
    <3>2. CASE k < i  BY <3>1, <3>2, <2>1
    <3>3. CASE ~(k < i)
      <4>1. k - Len(a) \in 1..(Len(s) - i) /\ k - Len(a) + i = k + 1
        BY <3>3, <2>1
      <4> QED  BY <3>1, <3>3, <4>1, <2>1, <2>2
    <3> QED  BY <3>2, <3>3
  <2> QED  BY <2>4, <2>5
<1> HIDE DEF r
<1>2. ASSUME NEW k \in 1..Len(r)
      PROVE  r[k] \in ToSet(s) \ {s[i]}
  <2>1. CASE k < i  BY <2>1, <1>1 DEF ToSet, Distinct
  <2>2. CASE ~(k < i)  BY <2>2, <1>1 DEF ToSet, Distinct
  <2> QED  BY <2>1, <2>2
<1>3. ASSUME NEW k \in 1..Len(s), s[k] # s[i]
      PROVE  s[k] \in ToSet(r)
  <2>1. CASE k < i
    <3>1. k \in 1..Len(r) /\ r[k] = s[k]  BY <2>1, <1>1
    <3> QED  BY <3>1, <1>1, MemberFacts
  <2>2. CASE k > i
    <3>1. k - 1 \in 1..Len(r) /\ r[k - 1] = s[k]  BY <2>2, <1>1
    <3> QED  BY <3>1, <1>1, MemberFacts
  <2> QED  BY <2>1, <2>2, <1>3
<1>4. ToSet(r) = ToSet(s) \ {s[i]}
  <2>1. ToSet(r) \subseteq ToSet(s) \ {s[i]}
    BY <1>1, <1>2, MemberFacts
  <2>2. ToSet(s) \ {s[i]} \subseteq ToSet(r)
    BY <1>3, MemberFacts
  <2> QED  BY <2>1, <2>2
<1>5. Distinct(r)
  BY <1>1 DEF Distinct
<1> QED  BY <1>1, <1>4, <1>5 DEF r

-----------------------------------------------------------------------------
(* The inductive invariant.                                                  *)

\* handleDataURL never gives back the reference of add(): a data URL that was
\* ever created keeps one.
DataReferences ==
    \A j \in DataJob :
       /\ curl[j] = "none" /\ ~d[j].easy
       /\ \/ d[j].ref = 0 /\ ~d[j].held /\ ~Queued(j)
          \/ d[j].ref = Bit(d[j].held) + 1

\* Refused URLs never reach the manager.
RefusedApart == \A j \in BlockedJob : ~Queued(j) /\ ~d[j].easy

\* The job that downloadTimerCallback() is working on, by where it will go on:
\* in libcurl, ended in libcurl, a data URL, or a refused URL.
InCallback(label, j) ==
    /\ label \in {"localData"} => curl[j] = "transfer"
    /\ label \in {"localFinish", "remove"} => curl[j] \in {"done", "failed"}
    /\ label \in {"dataBody", "dataEnd"} => j \in DataJob /\ d[j].ref > 0

CallInv ==
    /\ pc \in {"localData", "localFinish", "remove", "dataBody", "dataEnd", "client"}
          => ~Queued(call.job)
    /\ InCallback(pc, call.job)
    /\ pc = "client" =>
          /\ InCallback(call.ret, call.job)
          /\ call.ret = "perform" => curl[call.job] = "transfer"
          /\ call.ret = "start" => call.job \in DataJob /\ d[call.job].ref > 0
          /\ call.ret \in {"idle", "start", "perform", "localData", "localFinish",
                           "remove", "dataBody", "dataEnd"}
          /\ call.ret = "idle" => call.job \in BlockedJob

\* Only a refused URL has its failure timer set.
FailureTimers == \A j \in Job : d[j].failure => j \in BlockedJob

IInv ==
    /\ TypeOK
    /\ OnePlace
    /\ SlotAccounting
    /\ RefAccounting
    /\ DataReferences
    /\ RefusedApart
    /\ FailureTimers
    /\ CallInv

-----------------------------------------------------------------------------
(* Lemmas about one step.                                                    *)

\* What a change of one handle does to d.
LEMMA UpdateFacts ==
    ASSUME TypeOK, NEW j \in Job, NEW h \in Handle, Update(j, h)
    PROVE  /\ d' \in [Job -> Handle]
           /\ d'[j] = h
           /\ \A k \in Job \ {j} : d'[k] = d[k]
BY DEF TypeOK, Update

\* The part of the invariant that is about counts and places.
Counts ==
    /\ OnePlace /\ SlotAccounting /\ RefAccounting
    /\ DataReferences /\ RefusedApart

\* A step that moves no reference and no easy handle keeps it.
LEMMA CountsFrame ==
    ASSUME TypeOK, Counts,
           list' = list, runningJobs' = runningJobs,
           \A j \in Job : /\ d'[j].ref = d[j].ref
                          /\ d'[j].held = d[j].held
                          /\ d'[j].easy = d[j].easy
                          /\ Queued(j) => ~d'[j].cancelled
                          /\ curl'[j] # "none" => d[j].easy,
           curl' \in [Job -> {"none", "transfer", "done", "failed"}]
    PROVE  Counts'
<1>1. Running' = Running
  BY DEF Running
<1>2. \A j \in Job : Queued(j)' = Queued(j)
  BY DEF Queued
<1>3. OnePlace'
  BY <1>2 DEF Counts, OnePlace, TypeOK
<1>4. SlotAccounting'
  BY <1>1 DEF Counts, SlotAccounting
<1>5. RefAccounting'
  BY <1>2 DEF Counts, RefAccounting
<1>6. DataReferences'
  BY <1>2, JobAssumption DEF Counts, DataReferences, TypeOK
<1>7. RefusedApart'
  BY <1>2, JobAssumption DEF Counts, RefusedApart
<1> QED  BY <1>3, <1>4, <1>5, <1>6, <1>7 DEF Counts

\* A slot taken and a slot given back.
LEMMA SlotFacts ==
    ASSUME TypeOK, SlotAccounting, NEW j \in Job
    PROVE  /\ ~d[j].easy => Cardinality(Running \cup {j}) = runningJobs + 1
           /\ d[j].easy => /\ Cardinality(Running \ {j}) = runningJobs - 1
                           /\ runningJobs >= 1
<1>1. IsFiniteSet(Running)
  BY JobAssumption, FS_Subset DEF Running
<1>2. ASSUME ~d[j].easy
      PROVE  Cardinality(Running \cup {j}) = runningJobs + 1
  BY <1>1, <1>2, FS_AddElement DEF Running, SlotAccounting
<1>3. ASSUME d[j].easy
      PROVE  Cardinality(Running \ {j}) = runningJobs - 1 /\ runningJobs >= 1
  <2>1. j \in Running /\ Cardinality(Running) = runningJobs
    BY <1>3 DEF Running, SlotAccounting
  <2>2. Cardinality(Running \ {j}) = Cardinality(Running) - 1
    BY <1>1, <2>1, FS_RemoveElement
  <2>3. IsFiniteSet(Running \ {j})
    BY <1>1, FS_Subset
  <2>4. Cardinality(Running \ {j}) \in Nat
    BY <2>3, FS_CardinalityType
  <2> QED  BY <2>1, <2>2, <2>4 DEF TypeOK
<1> QED  BY <1>2, <1>3

\* A new handle enters the queue with two references.
LEMMA CreateStep ==
    ASSUME IInv, NEW j \in Job, Create(j)
    PROVE  IInv'
<1> DEFINE h == [NewHandle EXCEPT !.ref = 2]
<1>1. /\ TypeOK /\ Counts /\ CallInv /\ FailureTimers
      /\ d[j].ref = 0 /\ ~(pc = "client" /\ call.job = j)
      /\ j \notin BlockedJob
      /\ pc \in {"idle", "client"}
      /\ Update(j, h) /\ list' = Append(list, j) /\ timer' = TRUE
      /\ UNCHANGED <<curl, runningJobs, pc, call, pass, started, busy>>
  BY DEF IInv, Create, Counts, Free, OwnerRuns, control
<1>2. h \in Handle /\ h.ref = 2 /\ h.held /\ ~h.easy /\ ~h.cancelled /\ ~h.failure
  BY DEF NewHandle, Handle
<1> HIDE DEF h
<1>3. /\ d' \in [Job -> Handle] /\ d'[j] = h
      /\ \A k \in Job \ {j} : d'[k] = d[k]
  BY <1>1, <1>2, UpdateFacts
<1>4. ~Queued(j) /\ ~d[j].easy /\ ~d[j].held /\ curl[j] = "none"
  BY <1>1 DEF Counts, RefAccounting, DataReferences, OnePlace, Bit, TypeOK, Handle
<1>5. /\ list' \in Seq(Job) /\ Distinct(list')
      /\ \A k \in Job : Queued(k)' <=> Queued(k) \/ k = j
  BY <1>1, <1>4, AppendFacts DEF TypeOK, Queued, Counts, OnePlace, Distinct
<1>6. TypeOK'
  BY <1>1, <1>3, <1>5 DEF TypeOK
<1>7. OnePlace'
  BY <1>1, <1>2, <1>3, <1>4, <1>5 DEF Counts, OnePlace, Distinct
<1>8. SlotAccounting'
  <2>1. Running' = Running
    BY <1>2, <1>3, <1>4 DEF Running
  <2> QED  BY <2>1, <1>1 DEF Counts, SlotAccounting
<1>9. RefAccounting' /\ DataReferences' /\ RefusedApart'
  BY <1>1, <1>2, <1>3, <1>4, <1>5, JobAssumption
     DEF Counts, RefAccounting, DataReferences, RefusedApart, Bit
<1>10. CallInv'
  BY <1>1, <1>3, <1>5 DEF CallInv, InCallback, TypeOK
<1>11. FailureTimers'
  BY <1>1, <1>2, <1>3 DEF FailureTimers
<1> QED  BY <1>6, <1>7, <1>8, <1>9, <1>10, <1>11 DEF IInv

\* A refused URL makes a handle that only its owner and its timer know.
LEMMA CreateBlockedStep ==
    ASSUME IInv, NEW j \in Job, CreateBlocked(j)
    PROVE  IInv'
<1> DEFINE h == [NewHandle EXCEPT !.failure = TRUE]
<1>1. /\ TypeOK /\ Counts /\ CallInv /\ FailureTimers
      /\ d[j].ref = 0 /\ ~(pc = "client" /\ call.job = j)
      /\ j \in BlockedJob
      /\ pc \in {"idle", "client"}
      /\ Update(j, h)
      /\ UNCHANGED <<curl, list, runningJobs, timer, pc, call, pass, started, busy>>
  BY DEF IInv, CreateBlocked, Counts, Free, OwnerRuns, control
<1>2. h \in Handle /\ h.ref = 1 /\ h.held /\ ~h.easy /\ ~h.cancelled
  BY DEF NewHandle, Handle
<1> HIDE DEF h
<1>3. /\ d' \in [Job -> Handle] /\ d'[j] = h
      /\ \A k \in Job \ {j} : d'[k] = d[k]
  BY <1>1, <1>2, UpdateFacts
<1>4. /\ ~Queued(j) /\ ~d[j].easy /\ curl[j] = "none"
      /\ \A k \in Job : Queued(k)' <=> Queued(k)
  BY <1>1 DEF Counts, RefusedApart, OnePlace, Queued
<1>5. TypeOK'
  BY <1>1, <1>3 DEF TypeOK
<1>6. OnePlace'
  BY <1>1, <1>2, <1>3, <1>4 DEF Counts, OnePlace
<1>7. SlotAccounting'
  <2>1. Running' = Running
    BY <1>2, <1>3, <1>4 DEF Running
  <2> QED  BY <2>1, <1>1 DEF Counts, SlotAccounting
<1>8. RefAccounting' /\ DataReferences' /\ RefusedApart'
  BY <1>1, <1>2, <1>3, <1>4, JobAssumption
     DEF Counts, RefAccounting, DataReferences, RefusedApart, Bit
<1>9. CallInv'
  BY <1>1, <1>3, <1>4 DEF CallInv, InCallback, TypeOK
<1>10. FailureTimers'
  BY <1>1, <1>3 DEF FailureTimers
<1> QED  BY <1>5, <1>6, <1>7, <1>8, <1>9, <1>10 DEF IInv

\* An owner drops a handle that is not in the queue.
LEMMA DropStep ==
    ASSUME IInv, NEW j \in Job, NEW h \in Handle, Update(j, h),
           ~Queued(j), d[j].held,
           h.ref = d[j].ref - 1, ~h.held, h.easy = d[j].easy,
           h.failure => d[j].failure,
           timer' \in BOOLEAN,
           UNCHANGED <<curl, list, runningJobs, pc, call, pass, started, busy>>
    PROVE  IInv'
<1>1. TypeOK /\ Counts /\ CallInv /\ FailureTimers
  BY DEF IInv, Counts
<1>2. /\ d' \in [Job -> Handle] /\ d'[j] = h
      /\ \A k \in Job \ {j} : d'[k] = d[k]
  BY <1>1, UpdateFacts
<1>3. /\ \A k \in Job : Queued(k)' <=> Queued(k)
      /\ Running' = Running
  BY <1>2 DEF Queued, Running
<1>4. TypeOK'
  BY <1>1, <1>2 DEF TypeOK
<1>5. OnePlace' /\ SlotAccounting'
  BY <1>1, <1>2, <1>3 DEF Counts, OnePlace, SlotAccounting
<1>6. RefAccounting' /\ DataReferences' /\ RefusedApart'
  <2>1. RefAccounting'
    <3>1. j \notin DataJob => h.ref = Bit(h.held) + Bit(Queued(j)) + Bit(h.easy)
      BY <1>1 DEF Counts, RefAccounting, Bit
    <3>2. \A k \in Job \ DataJob : k # j => d'[k] = d[k]
      BY <1>2
    <3> QED  BY <1>1, <1>2, <1>3, <3>1, <3>2 DEF Counts, RefAccounting, Bit
  <2>2. j \in DataJob => h.ref = 1
    BY <1>1 DEF Counts, DataReferences, Bit
  <2>3. DataReferences'
    BY <1>1, <1>2, <1>3, <2>2, JobAssumption DEF Counts, DataReferences, Bit
  <2>4. RefusedApart'
    BY <1>1, <1>2, <1>3, JobAssumption DEF Counts, RefusedApart
  <2> QED  BY <2>1, <2>3, <2>4
<1>7. CallInv'
  <2>1. \A k \in DataJob : d[k].ref > 0 => d'[k].ref > 0
    <3>1. j \in DataJob => h.ref > 0
      BY <1>1 DEF Counts, DataReferences, Bit
    <3> QED  BY <1>2, <3>1, JobAssumption
  <2> QED  BY <1>1, <1>3, <2>1 DEF CallInv, InCallback, TypeOK
<1>8. FailureTimers'
  BY <1>1, <1>2 DEF FailureTimers
<1> QED  BY <1>4, <1>5, <1>6, <1>7, <1>8 DEF IInv

LEMMA CancelStartedStep ==
    ASSUME IInv, NEW j \in Job, CancelStarted(j)
    PROVE  IInv'
<1> DEFINE h == [d[j] EXCEPT !.ref = @ - 1, !.held = FALSE, !.cancelled = TRUE,
                             !.failure = @ /\ d[j].ref # 1]
<1>1. /\ ~Queued(j) /\ d[j].held /\ Update(j, h) /\ timer' = TRUE
      /\ UNCHANGED <<curl, list, runningJobs, pc, call, pass, started, busy>>
  BY DEF CancelStarted, control
<1>2. d[j] \in Handle /\ d[j].ref - 1 \in Nat
  BY <1>1, JobAssumption
     DEF IInv, TypeOK, RefAccounting, DataReferences, Bit, Handle
<1>3. /\ h \in Handle /\ h.ref = d[j].ref - 1 /\ ~h.held /\ h.easy = d[j].easy
      /\ (h.failure => d[j].failure)
  BY <1>2 DEF Handle
<1> QED  BY <1>1, <1>3, DropStep

LEMMA ReleaseStep ==
    ASSUME IInv, Release
    PROVE  IInv'
<1> DEFINE j == call.job
           h(c) == [d[j] EXCEPT !.ref = @ - 1, !.held = FALSE, !.client = c,
                                !.cancelled = @ \/ d[j].ref = 1]
<1>1. /\ pc = "client" /\ d[j].held /\ timer' = (timer \/ d[j].ref = 1)
      /\ UNCHANGED <<curl, list, runningJobs, pc, call, pass, started, busy>>
  BY DEF Release, control
<1>2. PICK c \in {FALSE, d[j].client} : Update(j, h(c))
  BY DEF Release
<1>3. j \in Job /\ ~Queued(j) /\ timer' \in BOOLEAN
  BY <1>1 DEF IInv, TypeOK, CallInv
<1>4. d[j] \in Handle /\ d[j].ref - 1 \in Nat
  BY <1>1, <1>3, JobAssumption
     DEF IInv, TypeOK, RefAccounting, DataReferences, Bit, Handle
<1>5. c \in BOOLEAN
  BY <1>2, <1>4 DEF Handle
<1>6. /\ h(c) \in Handle /\ h(c).ref = d[j].ref - 1 /\ ~h(c).held /\ h(c).easy = d[j].easy
      /\ h(c).failure = d[j].failure
  <2> DEFINE g == [d[j] EXCEPT !.ref = @ - 1, !.held = FALSE, !.client = c]
  <2>1. /\ g \in Handle /\ g.ref = d[j].ref - 1 /\ ~g.held /\ g.easy = d[j].easy
        /\ g.failure = d[j].failure /\ g.cancelled = d[j].cancelled
    BY <1>4, <1>5 DEF Handle
  <2>2. h(c) = [g EXCEPT !.cancelled = g.cancelled \/ d[j].ref = 1]
    BY <1>4, <1>5 DEF Handle
  <2> HIDE DEF g, h, j
  <2>3. (g.cancelled \/ d[j].ref = 1) \in BOOLEAN
    OBVIOUS
  <2> QED  BY <2>1, <2>2 DEF Handle
<1> HIDE DEF h, j
<1> QED  BY <1>1, <1>2, <1>3, <1>6, DropStep DEF j

\* A queued handle leaves the queue and is deleted.
LEMMA CancelScheduledStep ==
    ASSUME IInv, NEW j \in Job, CancelScheduled(j)
    PROVE  IInv'
<1> DEFINE h == [d[j] EXCEPT !.ref = @ - 2, !.held = FALSE,
                             !.cancelled = @ \/ d[j].ref = 2]
<1>1. /\ TypeOK /\ Counts /\ CallInv /\ FailureTimers
      /\ d[j].held /\ Update(j, h) /\ timer' = (timer \/ d[j].ref = 2)
      /\ UNCHANGED <<curl, runningJobs, pc, call, pass, started, busy>>
  BY DEF IInv, CancelScheduled, Counts, control
<1>2. PICK i \in 1..Len(list) : list[i] = j /\ list' = RemoveAt(list, i)
  BY DEF CancelScheduled
<1>3. /\ list' \in Seq(Job) /\ Distinct(list')
      /\ \A k \in Job : Queued(k)' <=> Queued(k) /\ k # j
      /\ Queued(j)
  BY <1>1, <1>2, RemoveAtFacts, MemberFacts DEF TypeOK, Counts, OnePlace, Distinct, Queued
<1>4. d[j] \in Handle /\ d[j].ref = 2 /\ ~d[j].easy
  <2>1. d[j] \in Handle /\ ~d[j].easy
    BY <1>1, <1>3 DEF TypeOK, Counts, OnePlace
  <2>2. CASE j \in DataJob
    BY <1>1, <1>3, <2>1, <2>2 DEF Counts, DataReferences, Bit
  <2>3. CASE j \notin DataJob
    BY <1>1, <1>3, <2>1, <2>3 DEF Counts, RefAccounting, Bit
  <2> QED  BY <2>2, <2>3
<1>5. /\ h \in Handle /\ h.ref = 0 /\ ~h.held /\ ~h.easy
      /\ h.failure = d[j].failure
  <2>1. h.ref = 0 /\ ~h.held /\ ~h.easy /\ h.failure = d[j].failure
    BY <1>4 DEF Handle
  <2>2. d[j].ref - 2 \in Nat
    BY <1>4
  <2> QED  BY <1>4, <2>1, <2>2 DEF Handle
<1> HIDE DEF h
<1>6. /\ d' \in [Job -> Handle] /\ d'[j] = h
      /\ \A k \in Job \ {j} : d'[k] = d[k]
  BY <1>1, <1>5, UpdateFacts
<1>7. TypeOK'
  BY <1>1, <1>3, <1>6 DEF TypeOK
<1>8. OnePlace'
  BY <1>1, <1>3, <1>4, <1>6 DEF Counts, OnePlace, Distinct
<1>9. SlotAccounting'
  <2>1. Running' = Running
    BY <1>4, <1>5, <1>6 DEF Running
  <2> QED  BY <2>1, <1>1 DEF Counts, SlotAccounting
<1>10. RefAccounting' /\ DataReferences' /\ RefusedApart'
  BY <1>1, <1>3, <1>5, <1>6, JobAssumption
     DEF Counts, RefAccounting, DataReferences, RefusedApart, Bit
<1>11. CallInv'
  <2>1. pc = "client" \/ pc \in {"dataBody", "dataEnd"} => call.job # j
    BY <1>1, <1>3 DEF CallInv
  <2> QED  BY <1>1, <1>3, <1>6, <2>1 DEF CallInv, InCallback, TypeOK
<1>12. FailureTimers'
  BY <1>1, <1>5, <1>6 DEF FailureTimers
<1> QED  BY <1>7, <1>8, <1>9, <1>10, <1>11, <1>12 DEF IInv

\* removeFromCurl, for a transfer that has ended.
LEMMA RemoveFromCurlStep ==
    ASSUME IInv, NEW j \in Job, curl[j] \in {"done", "failed"}, RemoveFromCurl(j),
           UNCHANGED <<list, call, pass, started, busy>>
    PROVE  IInv'
<1> DEFINE h == [d[j] EXCEPT !.easy = FALSE, !.paused = FALSE, !.begun = FALSE,
                             !.dropped = FALSE, !.ref = @ - 1,
                             !.cancelled = @ \/ d[j].ref = 1]
<1>1. /\ TypeOK /\ Counts /\ CallInv /\ FailureTimers
      /\ runningJobs' = runningJobs - 1
      /\ curl' = [curl EXCEPT ![j] = "none"]
      /\ Update(j, h) /\ timer' = (timer \/ d[j].ref = 1) /\ pc' = "read"
  BY DEF IInv, RemoveFromCurl, Counts
<1>2. /\ d[j] \in Handle /\ d[j].easy /\ ~Queued(j)
      /\ j \notin DataJob /\ j \notin BlockedJob
      /\ d[j].ref - 1 = Bit(d[j].held)
  BY <1>1, JobAssumption
     DEF TypeOK, Counts, OnePlace, RefAccounting, DataReferences, RefusedApart, Bit, Handle
<1>3. /\ h \in Handle /\ h.ref = Bit(h.held) /\ h.held = d[j].held /\ ~h.easy
      /\ h.failure = d[j].failure
  <2>1. /\ h.ref = d[j].ref - 1 /\ h.held = d[j].held /\ ~h.easy
        /\ h.failure = d[j].failure
    BY <1>2 DEF Handle
  <2>2. d[j].ref - 1 \in Nat
    BY <1>2 DEF Bit
  <2>3. h \in Handle
    BY <1>2, <2>2 DEF Handle
  <2> QED  BY <1>2, <2>1, <2>3
<1> HIDE DEF h
<1>4. /\ d' \in [Job -> Handle] /\ d'[j] = h
      /\ \A k \in Job \ {j} : d'[k] = d[k]
      /\ \A k \in Job : Queued(k)' <=> Queued(k)
  BY <1>1, <1>3, UpdateFacts DEF Queued
<1>5. SlotAccounting' /\ runningJobs' \in Nat
  <2>1. Running' = Running \ {j}
    BY <1>3, <1>4 DEF Running
  <2>2. Cardinality(Running \ {j}) = runningJobs - 1 /\ runningJobs >= 1
    BY <1>1, <1>2, SlotFacts DEF Counts
  <2> QED  BY <2>1, <2>2, <1>1, SlotAssumption DEF Counts, SlotAccounting, TypeOK
<1>6. TypeOK'
  BY <1>1, <1>4, <1>5 DEF TypeOK, Labels
<1>7. OnePlace'
  BY <1>1, <1>2, <1>3, <1>4 DEF Counts, OnePlace, TypeOK
<1>8. RefAccounting' /\ DataReferences' /\ RefusedApart'
  <2>1. RefAccounting'
    BY <1>1, <1>2, <1>3, <1>4 DEF Counts, RefAccounting, Bit
  <2>2. DataReferences'
    BY <1>1, <1>2, <1>4, JobAssumption DEF Counts, DataReferences, TypeOK
  <2>3. RefusedApart'
    BY <1>1, <1>2, <1>4, JobAssumption DEF Counts, RefusedApart
  <2> QED  BY <2>1, <2>2, <2>3
<1>9. CallInv'
  BY <1>1 DEF CallInv, InCallback
<1>10. FailureTimers'
  BY <1>1, <1>3, <1>4 DEF FailureTimers
<1> QED  BY <1>5, <1>6, <1>7, <1>8, <1>9, <1>10 DEF IInv

\* The head of the queue gets a slot, whether libcurl takes it or not.
LEMMA StartStep ==
    ASSUME IInv, list # <<>>, runningJobs < MaxRunningJobs, pc = "start",
           Head(list) \notin DataJob,
           NEW h \in Handle, Update(Head(list), h),
           h.easy, h.ref = d[Head(list)].ref, h.held = d[Head(list)].held,
           h.failure = d[Head(list)].failure,
           list' = Tail(list), runningJobs' = runningJobs + 1,
           \/ curl' = [curl EXCEPT ![Head(list)] = "transfer"]
           \/ curl' = curl,
           timer' \in BOOLEAN, started' = TRUE,
           UNCHANGED <<pc, call, pass, busy>>
    PROVE  IInv'
<1> DEFINE j == Head(list)
<1>1. TypeOK /\ Counts /\ CallInv /\ FailureTimers
  BY DEF IInv, Counts
<1>2. /\ j \in Job /\ Queued(j)
      /\ list' \in Seq(Job) /\ Distinct(list')
      /\ \A k \in Job : Queued(k)' <=> Queued(k) /\ k # j
  BY <1>1, TailFacts DEF TypeOK, Counts, OnePlace, Distinct, Queued
<1>3. ~d[j].easy /\ j \notin BlockedJob /\ j \notin DataJob
  BY <1>1, <1>2 DEF Counts, OnePlace, RefusedApart
<1> HIDE DEF j
<1>4. /\ d' \in [Job -> Handle] /\ d'[j] = h
      /\ \A k \in Job \ {j} : d'[k] = d[k]
  BY <1>1, <1>2, UpdateFacts DEF j
<1>5. /\ curl' \in [Job -> {"none", "transfer", "done", "failed"}]
      /\ \A k \in Job \ {j} : curl'[k] = curl[k]
  BY <1>1, <1>2 DEF TypeOK, j
<1>6. TypeOK'
  BY <1>1, <1>2, <1>4, <1>5 DEF TypeOK, Labels
<1>7. SlotAccounting'
  <2>1. Running' = Running \cup {j}
    BY <1>2, <1>4 DEF Running
  <2>2. Cardinality(Running \cup {j}) = runningJobs + 1
    BY <1>1, <1>2, <1>3, SlotFacts DEF Counts
  <2> QED  BY <2>1, <2>2, <1>1, SlotAssumption DEF SlotAccounting, TypeOK
<1>8. OnePlace'
  BY <1>1, <1>2, <1>4, <1>5 DEF Counts, OnePlace, Distinct
<1>9. RefAccounting'
  BY <1>1, <1>2, <1>3, <1>4 DEF Counts, RefAccounting, Bit, j
<1>10. DataReferences' /\ RefusedApart'
  BY <1>1, <1>2, <1>3, <1>4, <1>5, JobAssumption
     DEF Counts, DataReferences, RefusedApart
<1>11. CallInv'
  BY DEF CallInv, InCallback
<1>12. FailureTimers'
  BY <1>1, <1>2, <1>4 DEF FailureTimers, j
<1> QED  BY <1>6, <1>7, <1>8, <1>9, <1>10, <1>11, <1>12 DEF IInv

LEMMA StartTransferStep ==
    ASSUME IInv, StartTransfer
    PROVE  IInv'
<1> DEFINE j == Head(list)
           h == [d[j] EXCEPT !.easy = TRUE, !.paused = d[j].defers]
<1>1. /\ pc = "start" /\ CanStart /\ j \notin DataJob /\ list' = Tail(list)
      /\ started' = TRUE /\ Update(j, h) /\ runningJobs' = runningJobs + 1
      /\ curl' = [curl EXCEPT ![j] = "transfer"]
      /\ UNCHANGED <<timer, pc, call, pass, busy>>
  BY DEF StartTransfer
<1>2. d[j] \in Handle /\ timer' \in BOOLEAN
  BY <1>1, TailFacts DEF IInv, TypeOK, OnePlace, Distinct, CanStart
<1>3. /\ h \in Handle /\ h.easy /\ h.ref = d[j].ref /\ h.held = d[j].held
      /\ h.failure = d[j].failure
  BY <1>2 DEF Handle
<1> HIDE DEF h
<1> QED  BY <1>1, <1>2, <1>3, StartStep DEF CanStart

LEMMA StartTransferFailsStep ==
    ASSUME IInv, StartTransferFails
    PROVE  IInv'
<1> DEFINE j == Head(list)
           h == [d[j] EXCEPT !.easy = TRUE, !.paused = d[j].defers,
                             !.cancelled = TRUE]
<1>1. /\ pc = "start" /\ CanStart /\ j \notin DataJob /\ list' = Tail(list)
      /\ started' = TRUE /\ Update(j, h) /\ runningJobs' = runningJobs + 1
      /\ timer' = TRUE
      /\ UNCHANGED <<curl, pc, call, pass, busy>>
  BY DEF StartTransferFails
<1>2. d[j] \in Handle
  BY <1>1, TailFacts DEF IInv, TypeOK, OnePlace, Distinct, CanStart
<1>3. /\ h \in Handle /\ h.easy /\ h.ref = d[j].ref /\ h.held = d[j].held
      /\ h.failure = d[j].failure
  BY <1>2 DEF Handle
<1> HIDE DEF h
<1> QED  BY <1>1, <1>3, StartStep DEF CanStart

\* The head of the queue is a data URL, and its owner is called at once.
LEMMA StartDataURLStep ==
    ASSUME IInv, StartDataURL
    PROVE  IInv'
<1> DEFINE j == Head(list)
<1>1. /\ TypeOK /\ Counts /\ CallInv /\ FailureTimers
      /\ CanStart /\ j \in DataJob /\ list' = Tail(list) /\ started' = TRUE
      /\ pc' = "client"
      /\ \E e \in {"cannotShow", "response"} : \E r \in {"start", "dataBody"} :
            call' = [event |-> e, job |-> j, ret |-> r]
      /\ UNCHANGED <<d, curl, runningJobs, timer, pass, busy>>
  BY DEF IInv, Counts, StartDataURL, Call
<1>2. /\ j \in Job /\ Queued(j)
      /\ list' \in Seq(Job) /\ Distinct(list')
      /\ \A k \in Job : Queued(k)' <=> Queued(k) /\ k # j
  BY <1>1, TailFacts DEF TypeOK, Counts, OnePlace, Distinct, Queued, CanStart
<1> HIDE DEF j
<1>3. TypeOK'
  BY <1>1, <1>2 DEF TypeOK, Labels, Events, Terminal
<1>4. SlotAccounting'
  <2>1. Running' = Running
    BY <1>1 DEF Running
  <2> QED  BY <2>1, <1>1 DEF Counts, SlotAccounting
<1>5. OnePlace'
  BY <1>1, <1>2 DEF Counts, OnePlace, Distinct
<1>6. RefAccounting'
  BY <1>1, <1>2 DEF Counts, RefAccounting, Bit
<1>7. d[j].ref > 0 /\ d[j].ref = Bit(d[j].held) + 1
  BY <1>1, <1>2 DEF Counts, DataReferences, Bit
<1>8. DataReferences' /\ RefusedApart'
  BY <1>1, <1>2, <1>7, JobAssumption DEF Counts, DataReferences, RefusedApart
<1>9. CallInv'
  BY <1>1, <1>2, <1>7, JobAssumption DEF CallInv, InCallback
<1>10. FailureTimers'
  BY <1>1 DEF FailureTimers
<1> QED  BY <1>3, <1>4, <1>5, <1>6, <1>8, <1>9, <1>10 DEF IInv

\* A step that changes only flags of one handle.
LEMMA QuietStep ==
    ASSUME IInv, NEW j \in Job, NEW h \in Handle, Update(j, h),
           h.ref = d[j].ref, h.held = d[j].held, h.easy = d[j].easy,
           Queued(j) => ~h.cancelled, h.failure => j \in BlockedJob,
           UNCHANGED <<curl, list, runningJobs>>
    PROVE  /\ d' \in [Job -> Handle]
           /\ \A k \in Job : d'[k].ref = d[k].ref
           /\ Counts' /\ FailureTimers'
<1>1. TypeOK /\ Counts /\ FailureTimers
  BY DEF IInv, Counts
<1>2. /\ d' \in [Job -> Handle] /\ d'[j] = h
      /\ \A k \in Job \ {j} : d'[k] = d[k]
  BY <1>1, UpdateFacts
<1>3. \A k \in Job : /\ d'[k].ref = d[k].ref
                     /\ d'[k].held = d[k].held
                     /\ d'[k].easy = d[k].easy
                     /\ Queued(k) => ~d'[k].cancelled
                     /\ curl'[k] # "none" => d[k].easy
  BY <1>1, <1>2 DEF Counts, OnePlace
<1>4. Counts'
  BY <1>1, <1>3, CountsFrame DEF TypeOK
<1>5. FailureTimers'
  BY <1>1, <1>2 DEF FailureTimers
<1> QED  BY <1>2, <1>3, <1>4, <1>5

\* The position of the callback does not change.
LEMMA SamePlace ==
    ASSUME IInv, UNCHANGED <<curl, list, pc, call>>,
           \A k \in Job : d'[k].ref = d[k].ref
    PROVE  CallInv'
BY DEF IInv, TypeOK, CallInv, InCallback, Queued

\* An owner is called, and the code will go on at r.
LEMMA NotifyStep ==
    ASSUME IInv, NEW j \in Job, NEW e \in Events,
           NEW r \in {"perform", "localData", "localFinish", "remove", "idle"},
           Notify(e, j, r), UNCHANGED <<curl, list>>, ~Queued(j),
           r \in {"perform", "localData"} => curl[j] = "transfer",
           r \in {"localFinish", "remove"} => curl[j] \in {"done", "failed"},
           r = "idle" => j \in BlockedJob
    PROVE  /\ call' \in [event : Events, job : Job, ret : Labels]
           /\ pc' \in Labels
           /\ CallInv'
<1>1. /\ call'.job = j /\ call' \in [event : Events, job : Job, ret : Labels]
      /\ \/ pc' = "client" /\ call'.ret = r
         \/ pc' = r
  BY DEF Notify, Call, IInv, TypeOK, Labels
<1>2. ~Queued(call.job)'
  BY <1>1 DEF Queued
<1> QED  BY <1>1, <1>2 DEF CallInv, InCallback, Labels

LEMMA ResumeStep ==
    ASSUME IInv, NEW j \in Job, Resume(j)
    PROVE  IInv'
<1> DEFINE h == [d[j] EXCEPT !.defers = FALSE, !.paused = FALSE, !.dropped = FALSE,
                             !.failure = j \in BlockedJob /\ ~(pc = "client" /\ call.job = j)]
<1>1. /\ Update(j, h) /\ TRUE /\ timer' = timer
      /\ UNCHANGED <<curl, list, runningJobs, pc, call, pass, started, busy>>
  BY DEF Resume, control
<1>2. d[j] \in Handle
  BY DEF IInv, TypeOK
<1>3. /\ h \in Handle /\ h.ref = d[j].ref /\ h.held = d[j].held
      /\ h.easy = d[j].easy /\ (h.failure => j \in BlockedJob)
  BY <1>2 DEF Handle, IInv, FailureTimers
<1>4. Queued(j) => ~h.cancelled
  BY <1>1, <1>2 DEF IInv, OnePlace, Handle
<1> HIDE DEF h
<1>5. /\ d' \in [Job -> Handle] /\ Counts' /\ FailureTimers'
      /\ \A k \in Job : d'[k].ref = d[k].ref
  BY <1>1, <1>3, <1>4, QuietStep
<1>6. CallInv'
  BY <1>1, <1>5, SamePlace
<1>7. TypeOK'
  BY <1>1, <1>5 DEF IInv, TypeOK
<1> QED  BY <1>5, <1>6, <1>7 DEF IInv, Counts

LEMMA ResumeFailsStep ==
    ASSUME IInv, NEW j \in Job, ResumeFails(j)
    PROVE  IInv'
<1> DEFINE h == [d[j] EXCEPT !.defers = FALSE, !.paused = FALSE, !.dropped = FALSE,
                             !.cancelled = TRUE]
<1>1. /\ Update(j, h) /\ d[j].easy /\ timer' = TRUE
      /\ UNCHANGED <<curl, list, runningJobs, pc, call, pass, started, busy>>
  BY DEF ResumeFails, control
<1>2. d[j] \in Handle
  BY DEF IInv, TypeOK
<1>3. /\ h \in Handle /\ h.ref = d[j].ref /\ h.held = d[j].held
      /\ h.easy = d[j].easy /\ (h.failure => j \in BlockedJob)
  BY <1>2 DEF Handle, IInv, FailureTimers
<1>4. Queued(j) => ~h.cancelled
  BY <1>1, <1>2 DEF IInv, OnePlace, Handle
<1> HIDE DEF h
<1>5. /\ d' \in [Job -> Handle] /\ Counts' /\ FailureTimers'
      /\ \A k \in Job : d'[k].ref = d[k].ref
  BY <1>1, <1>3, <1>4, QuietStep
<1>6. CallInv'
  BY <1>1, <1>5, SamePlace
<1>7. TypeOK'
  BY <1>1, <1>5 DEF IInv, TypeOK
<1> QED  BY <1>5, <1>6, <1>7 DEF IInv, Counts

LEMMA ReadFailsStep ==
    ASSUME IInv, NEW j \in Job, ReadFails(j)
    PROVE  IInv'
<1> DEFINE h == [d[j] EXCEPT !.cancelled = TRUE]
<1>1. /\ Update(j, h) /\ curl[j] = "transfer" /\ timer' = TRUE
      /\ UNCHANGED <<curl, list, runningJobs, pc, call, pass, started, busy>>
  BY DEF ReadFails, control, Callback, UnderWay
<1>2. d[j] \in Handle
  BY DEF IInv, TypeOK
<1>3. /\ h \in Handle /\ h.ref = d[j].ref /\ h.held = d[j].held
      /\ h.easy = d[j].easy /\ (h.failure => j \in BlockedJob)
  BY <1>2 DEF Handle, IInv, FailureTimers
<1>4. Queued(j) => ~h.cancelled
  BY <1>1, <1>2 DEF IInv, OnePlace, Handle
<1> HIDE DEF h
<1>5. /\ d' \in [Job -> Handle] /\ Counts' /\ FailureTimers'
      /\ \A k \in Job : d'[k].ref = d[k].ref
  BY <1>1, <1>3, <1>4, QuietStep
<1>6. CallInv'
  BY <1>1, <1>5, SamePlace
<1>7. TypeOK'
  BY <1>1, <1>5 DEF IInv, TypeOK
<1> QED  BY <1>5, <1>6, <1>7 DEF IInv, Counts

LEMMA DeferStep ==
    ASSUME IInv, NEW j \in Job, Defer(j)
    PROVE  IInv'
<1> DEFINE h == [d[j] EXCEPT !.defers = TRUE, !.failure = FALSE,
                             !.paused = d[j].easy, !.dropped = FALSE]
<1>1. /\ Update(j, h)
      /\ UNCHANGED <<curl, list, runningJobs, timer, pc, call, pass, started, busy>>
  BY DEF Defer, control
<1>2. d[j] \in Handle
  BY DEF IInv, TypeOK
<1>3. /\ h \in Handle /\ h.ref = d[j].ref /\ h.held = d[j].held
      /\ h.easy = d[j].easy /\ h.cancelled = d[j].cancelled
      /\ ~h.failure
  BY <1>2 DEF Handle
<1>4. Queued(j) => ~h.cancelled
  BY <1>3 DEF IInv, OnePlace
<1> HIDE DEF h
<1>5. /\ d' \in [Job -> Handle] /\ Counts' /\ FailureTimers'
      /\ \A k \in Job : d'[k].ref = d[k].ref
  BY <1>1, <1>3, <1>4, QuietStep
<1>6. CallInv'
  BY <1>1, <1>5, SamePlace
<1>7. TypeOK'
  BY <1>1, <1>5 DEF IInv, TypeOK
<1> QED  BY <1>5, <1>6, <1>7 DEF IInv, Counts

LEMMA HeaderResponseStep ==
    ASSUME IInv, NEW j \in Job, HeaderResponse(j)
    PROVE  IInv'
<1> DEFINE h == [d[j] EXCEPT !.fired = TRUE]
<1>1. /\ Update(j, h) /\ curl[j] = "transfer" /\ Notify("response", j, "perform")
      /\ UNCHANGED <<curl, list, runningJobs, timer, pass, started, busy>>
  BY DEF HeaderResponse, control, Callback, UnderWay
<1>2. d[j] \in Handle /\ ~Queued(j)
  BY <1>1 DEF IInv, TypeOK, OnePlace, RefusedApart
<1>3. /\ h \in Handle /\ h.ref = d[j].ref /\ h.held = d[j].held
      /\ h.easy = d[j].easy /\ (h.failure => j \in BlockedJob)
  BY <1>2 DEF Handle, IInv, FailureTimers
<1> HIDE DEF h
<1>4. d' \in [Job -> Handle] /\ Counts' /\ FailureTimers'
  BY <1>1, <1>2, <1>3, QuietStep
<1>5. /\ CallInv' /\ pc' \in Labels
      /\ call' \in [event : Events, job : Job, ret : Labels]
  BY <1>1, <1>2, NotifyStep DEF Events, Terminal
<1>6. TypeOK'
  BY <1>1, <1>4, <1>5 DEF IInv, TypeOK
<1> QED  BY <1>4, <1>5, <1>6 DEF IInv, Counts

LEMMA WriteLocalStep ==
    ASSUME IInv, NEW j \in Job, WriteLocal(j)
    PROVE  IInv'
<1> DEFINE h == [d[j] EXCEPT !.fired = TRUE]
<1>1. /\ Update(j, h) /\ curl[j] = "transfer" /\ Notify("response", j, "localData")
      /\ UNCHANGED <<curl, list, runningJobs, timer, pass, started, busy>>
  BY DEF WriteLocal, control, Callback, UnderWay
<1>2. d[j] \in Handle /\ ~Queued(j)
  BY <1>1 DEF IInv, TypeOK, OnePlace, RefusedApart
<1>3. /\ h \in Handle /\ h.ref = d[j].ref /\ h.held = d[j].held
      /\ h.easy = d[j].easy /\ (h.failure => j \in BlockedJob)
  BY <1>2 DEF Handle, IInv, FailureTimers
<1> HIDE DEF h
<1>4. d' \in [Job -> Handle] /\ Counts' /\ FailureTimers'
  BY <1>1, <1>2, <1>3, QuietStep
<1>5. /\ CallInv' /\ pc' \in Labels
      /\ call' \in [event : Events, job : Job, ret : Labels]
  BY <1>1, <1>2, NotifyStep DEF Events, Terminal
<1>6. TypeOK'
  BY <1>1, <1>4, <1>5 DEF IInv, TypeOK
<1> QED  BY <1>4, <1>5, <1>6 DEF IInv, Counts

LEMMA ReadDoneLocalStep ==
    ASSUME IInv, NEW j \in Job, ReadDoneLocal(j)
    PROVE  IInv'
<1> DEFINE h == [d[j] EXCEPT !.fired = TRUE]
<1>1. /\ Update(j, h) /\ curl[j] = "done" /\ Notify("response", j, "localFinish")
      /\ UNCHANGED <<curl, list, runningJobs, timer, pass, started, busy>>
  BY DEF ReadDoneLocal, control, Callback, UnderWay
<1>2. d[j] \in Handle /\ ~Queued(j)
  BY <1>1 DEF IInv, TypeOK, OnePlace, RefusedApart
<1>3. /\ h \in Handle /\ h.ref = d[j].ref /\ h.held = d[j].held
      /\ h.easy = d[j].easy /\ (h.failure => j \in BlockedJob)
  BY <1>2 DEF Handle, IInv, FailureTimers
<1> HIDE DEF h
<1>4. d' \in [Job -> Handle] /\ Counts' /\ FailureTimers'
  BY <1>1, <1>2, <1>3, QuietStep
<1>5. /\ CallInv' /\ pc' \in Labels
      /\ call' \in [event : Events, job : Job, ret : Labels]
  BY <1>1, <1>2, NotifyStep DEF Events, Terminal
<1>6. TypeOK'
  BY <1>1, <1>4, <1>5 DEF IInv, TypeOK
<1> QED  BY <1>4, <1>5, <1>6 DEF IInv, Counts

\* The failure timer of a refused URL fires.
LEMMA FireFailureStep ==
    ASSUME IInv, NEW j \in Job, FireFailure(j)
    PROVE  IInv'
<1> DEFINE h == [d[j] EXCEPT !.failure = FALSE]
<1>1. /\ Update(j, h) /\ d[j].failure /\ pc = "idle" /\ Notify("blocked", j, "idle")
      /\ UNCHANGED <<curl, list, runningJobs, timer, pass, started, busy>>
  BY DEF FireFailure, control
<1>2. d[j] \in Handle /\ j \in BlockedJob /\ ~Queued(j)
  BY <1>1 DEF IInv, TypeOK, FailureTimers, RefusedApart
<1>3. /\ h \in Handle /\ h.ref = d[j].ref /\ h.held = d[j].held
      /\ h.easy = d[j].easy /\ ~h.failure
  BY <1>2 DEF Handle
<1> HIDE DEF h
<1>4. d' \in [Job -> Handle] /\ Counts' /\ FailureTimers'
  BY <1>1, <1>2, <1>3, QuietStep
<1>5. /\ CallInv' /\ pc' \in Labels
      /\ call' \in [event : Events, job : Job, ret : Labels]
  BY <1>1, <1>2, NotifyStep DEF Events, Terminal
<1>6. TypeOK'
  BY <1>1, <1>4, <1>5 DEF IInv, TypeOK
<1> QED  BY <1>4, <1>5, <1>6 DEF IInv, Counts

-----------------------------------------------------------------------------
(* What libcurl does to a pause.                                             *)

\* Doing a request, and starting over: the handle keeps all but what libcurl
\* knows of it, and a pause is not forgotten.
Kept(k) ==
    /\ d'[k].ref = d[k].ref /\ d'[k].held = d[k].held
    /\ d'[k].client = d[k].client /\ d'[k].cancelled = d[k].cancelled
    /\ d'[k].defers = d[k].defers /\ d'[k].easy = d[k].easy
    /\ d'[k].failure = d[k].failure
    /\ d[k].paused \/ d[k].dropped => d'[k].paused \/ d'[k].dropped

LEMMA DoFacts ==
    ASSUME IInv, NEW j \in Job, Do(j) \/ StartOver(j)
    PROVE  /\ pc = "perform" /\ curl[j] = "transfer"
           /\ UNCHANGED <<curl, list, runningJobs, timer, pc, call, pass, started, busy>>
           /\ d' \in [Job -> Handle]
           /\ \A k \in Job : Kept(k)
<1> DEFINE g == [d[j] EXCEPT !.begun = TRUE, !.paused = FALSE,
                             !.dropped = @ \/ d[j].paused]
           h == [d[j] EXCEPT !.begun = FALSE]
<1>1. /\ pc = "perform" /\ curl[j] = "transfer"
      /\ UNCHANGED <<curl, list, runningJobs, timer, pc, call, pass, started, busy>>
      /\ Update(j, g) \/ Update(j, h)
  BY DEF Do, StartOver, Callback, UnderWay, control
<1>2. TypeOK /\ d[j] \in Handle
  BY DEF IInv, TypeOK
<1>3. \A f \in {g, h} :
         /\ f \in Handle
         /\ f.ref = d[j].ref /\ f.held = d[j].held
         /\ f.client = d[j].client /\ f.cancelled = d[j].cancelled
         /\ f.defers = d[j].defers /\ f.easy = d[j].easy
         /\ f.failure = d[j].failure
         /\ d[j].paused \/ d[j].dropped => f.paused \/ f.dropped
  BY <1>2 DEF Handle
<1> HIDE DEF g, h
<1>4. PICK f \in {g, h} : Update(j, f)
  BY <1>1
<1>5. /\ d' \in [Job -> Handle] /\ d'[j] = f
      /\ \A k \in Job \ {j} : d'[k] = d[k]
  BY <1>2, <1>3, <1>4, UpdateFacts
<1>6. \A k \in Job : Kept(k)
  BY <1>3, <1>5 DEF Kept
<1> QED  BY <1>1, <1>5, <1>6

LEMMA DoStep ==
    ASSUME IInv, NEW j \in Job, Do(j) \/ StartOver(j)
    PROVE  IInv'
<1>1. /\ UNCHANGED <<curl, list, runningJobs, timer, pc, call, pass, started, busy>>
      /\ d' \in [Job -> Handle]
      /\ \A k \in Job : Kept(k)
  BY DoFacts
<1>2. TypeOK /\ Counts /\ FailureTimers
  BY DEF IInv, Counts
<1>3. \A k \in Job : /\ d'[k].ref = d[k].ref
                     /\ d'[k].held = d[k].held
                     /\ d'[k].easy = d[k].easy
                     /\ Queued(k) => ~d'[k].cancelled
                     /\ curl'[k] # "none" => d[k].easy
  BY <1>1, <1>2 DEF Kept, Counts, OnePlace
<1>4. Counts'
  BY <1>1, <1>2, <1>3, CountsFrame DEF TypeOK
<1>5. FailureTimers'
  BY <1>1, <1>2 DEF FailureTimers, Kept
<1>6. CallInv'
  BY <1>1, <1>3, SamePlace
<1>7. TypeOK'
  BY <1>1, <1>2 DEF TypeOK
<1> QED  BY <1>4, <1>5, <1>6, <1>7 DEF IInv, Counts

\* An owner returns to libcurl from a callback in which it paused the transfer.
LEMMA ReturnPausedFacts ==
    ASSUME IInv, ReturnPaused
    PROVE  /\ pc = "client" /\ call.ret = "perform" /\ pc' = "perform"
           /\ call.job \in Job /\ curl[call.job] = "transfer"
           /\ UNCHANGED <<list, runningJobs, timer, call, pass, started, busy>>
           /\ \/ curl' = [curl EXCEPT ![call.job] = "failed"] /\ d' = d
              \/ Update(call.job, [d[call.job] EXCEPT !.begun = FALSE]) /\ curl' = curl
           /\ curl' \in [Job -> {"none", "transfer", "done", "failed"}]
           /\ \A k \in Job : /\ curl'[k] = "transfer" => curl[k] = "transfer"
                             /\ curl'[k] # "none" <=> curl[k] # "none"
           /\ d' \in [Job -> Handle]
           /\ \A k \in Job : Kept(k)
<1> DEFINE j == call.job
           h == [d[j] EXCEPT !.begun = FALSE]
<1>1. /\ pc = "client" /\ call.ret = "perform" /\ pc' = "perform"
      /\ UNCHANGED <<list, runningJobs, timer, call, pass, started, busy>>
      /\ \/ curl' = [curl EXCEPT ![j] = "failed"] /\ d' = d
         \/ Update(j, h) /\ curl' = curl
  BY DEF ReturnPaused, control
<1>2. /\ TypeOK /\ j \in Job /\ curl[j] = "transfer" /\ d[j] \in Handle
      /\ d \in [Job -> Handle]
      /\ curl \in [Job -> {"none", "transfer", "done", "failed"}]
  BY <1>1 DEF IInv, TypeOK, CallInv
<1>3. /\ h \in Handle
      /\ h.ref = d[j].ref /\ h.held = d[j].held
      /\ h.client = d[j].client /\ h.cancelled = d[j].cancelled
      /\ h.defers = d[j].defers /\ h.easy = d[j].easy
      /\ h.failure = d[j].failure
      /\ h.paused = d[j].paused /\ h.dropped = d[j].dropped
  BY <1>2 DEF Handle
<1>4. /\ curl' \in [Job -> {"none", "transfer", "done", "failed"}]
      /\ \A k \in Job : /\ curl'[k] = "transfer" => curl[k] = "transfer"
                        /\ curl'[k] # "none" <=> curl[k] # "none"
  BY <1>1, <1>2
<1> HIDE DEF h
<1>5. Update(j, h) => /\ d' \in [Job -> Handle] /\ d'[j] = h
                      /\ \A k \in Job \ {j} : d'[k] = d[k]
  BY <1>2, <1>3, UpdateFacts
<1>6. d' \in [Job -> Handle] /\ \A k \in Job : Kept(k)
  BY <1>1, <1>2, <1>3, <1>5 DEF Kept
<1> QED  BY <1>1, <1>2, <1>4, <1>6 DEF h

LEMMA ReturnPausedStep ==
    ASSUME IInv, ReturnPaused
    PROVE  IInv'
<1>1. TypeOK /\ Counts /\ FailureTimers
  BY DEF IInv, Counts
<1>2. /\ UNCHANGED <<list, runningJobs, timer, call, pass, started, busy>>
      /\ pc' = "perform" /\ d' \in [Job -> Handle]
      /\ curl' \in [Job -> {"none", "transfer", "done", "failed"}]
      /\ \A k \in Job : Kept(k) /\ (curl'[k] # "none" <=> curl[k] # "none")
  BY ReturnPausedFacts
<1>3. \A k \in Job : /\ d'[k].ref = d[k].ref
                     /\ d'[k].held = d[k].held
                     /\ d'[k].easy = d[k].easy
                     /\ Queued(k) => ~d'[k].cancelled
                     /\ curl'[k] # "none" => d[k].easy
  BY <1>1, <1>2 DEF Kept, Counts, OnePlace
<1>4. Counts'
  BY <1>1, <1>2, <1>3, CountsFrame
<1>5. FailureTimers'
  BY <1>1, <1>2 DEF FailureTimers, Kept
<1>6. CallInv'
  BY <1>2 DEF CallInv, InCallback
<1>7. TypeOK'
  BY <1>1, <1>2 DEF TypeOK, Labels
<1> QED  BY <1>4, <1>5, <1>6, <1>7 DEF IInv, Counts

-----------------------------------------------------------------------------
(* The steps that leave every handle alone.                                  *)

\* A step that changes no handle and at most ends transfers in libcurl.
LEMMA StillStep ==
    ASSUME IInv, UNCHANGED <<d, list, runningJobs>>,
           curl' \in [Job -> {"none", "transfer", "done", "failed"}],
           \A j \in Job : curl'[j] # "none" => curl[j] # "none"
    PROVE  Counts' /\ FailureTimers'
<1>1. TypeOK /\ Counts /\ FailureTimers
  BY DEF IInv, Counts
<1>2. \A j \in Job : /\ Queued(j) => ~d'[j].cancelled
                     /\ curl'[j] # "none" => d[j].easy
  BY <1>1 DEF Counts, OnePlace
<1>3. Counts'
  BY <1>1, <1>2, CountsFrame
<1> QED  BY <1>1, <1>3 DEF FailureTimers

\* ... and ends none.
LEMMA StillerStep ==
    ASSUME IInv, UNCHANGED <<d, list, runningJobs, curl>>
    PROVE  Counts' /\ FailureTimers'
BY StillStep DEF IInv, TypeOK

LEMMA CreateAndDeleteStep ==
    ASSUME IInv, CreateAndDelete
    PROVE  IInv'
<1>1. Counts' /\ FailureTimers'
  BY StillerStep DEF CreateAndDelete, control
<1>2. TypeOK'
  BY DEF IInv, CreateAndDelete, TypeOK, Labels, Events, Terminal, Call, control
<1>3. CallInv'
  BY JobAssumption DEF IInv, CreateAndDelete, TypeOK, CallInv, InCallback, Queued, Call, Labels, OnePlace
<1> QED  BY <1>1, <1>2, <1>3 DEF IInv, Counts

LEMMA ReturnStep ==
    ASSUME IInv, Return
    PROVE  IInv'
<1>1. Counts' /\ FailureTimers'
  BY StillerStep DEF Return, control
<1>2. TypeOK'
  BY DEF IInv, Return, TypeOK, Labels, Events, Terminal, Call, control
<1>3. CallInv'
  BY JobAssumption DEF IInv, Return, TypeOK, CallInv, InCallback, Queued, Call, Labels, OnePlace
<1> QED  BY <1>1, <1>2, <1>3 DEF IInv, Counts

LEMMA FireTimerStep ==
    ASSUME IInv, FireTimer
    PROVE  IInv'
<1>1. Counts' /\ FailureTimers'
  BY StillerStep DEF FireTimer, control
<1>2. TypeOK'
  BY DEF IInv, FireTimer, TypeOK, Labels, Events, Terminal, Call, control
<1>3. CallInv'
  BY JobAssumption DEF IInv, FireTimer, TypeOK, CallInv, InCallback, Queued, Call, Labels, OnePlace
<1> QED  BY <1>1, <1>2, <1>3 DEF IInv, Counts

LEMMA StartEndsStep ==
    ASSUME IInv, StartEnds
    PROVE  IInv'
<1>1. Counts' /\ FailureTimers'
  BY StillerStep DEF StartEnds, control
<1>2. TypeOK'
  BY DEF IInv, StartEnds, TypeOK, Labels, Events, Terminal, Call, control
<1>3. CallInv'
  BY JobAssumption DEF IInv, StartEnds, TypeOK, CallInv, InCallback, Queued, Call, Labels, OnePlace
<1> QED  BY <1>1, <1>2, <1>3 DEF IInv, Counts

LEMMA SelectStep ==
    ASSUME IInv, Select
    PROVE  IInv'
<1>1. Counts' /\ FailureTimers'
  BY StillerStep DEF Select, control
<1>2. TypeOK'
  BY DEF IInv, Select, TypeOK, Labels, Events, Terminal, Call, control
<1>3. CallInv'
  BY JobAssumption DEF IInv, Select, TypeOK, CallInv, InCallback, Queued, Call, Labels, OnePlace
<1> QED  BY <1>1, <1>2, <1>3 DEF IInv, Counts

LEMMA SelectFailsStep ==
    ASSUME IInv, SelectFails
    PROVE  IInv'
<1>1. Counts' /\ FailureTimers'
  BY StillerStep DEF SelectFails, control
<1>2. TypeOK'
  BY DEF IInv, SelectFails, TypeOK, Labels, Events, Terminal, Call, control
<1>3. CallInv'
  BY JobAssumption DEF IInv, SelectFails, TypeOK, CallInv, InCallback, Queued, Call, Labels, OnePlace
<1> QED  BY <1>1, <1>2, <1>3 DEF IInv, Counts

LEMMA PerformEndsStep ==
    ASSUME IInv, PerformEnds
    PROVE  IInv'
<1>1. Counts' /\ FailureTimers'
  BY StillerStep DEF PerformEnds, control
<1>2. TypeOK'
  BY DEF IInv, PerformEnds, TypeOK, Labels, Events, Terminal, Call, control
<1>3. CallInv'
  BY JobAssumption DEF IInv, PerformEnds, TypeOK, CallInv, InCallback, Queued, Call, Labels, OnePlace
<1> QED  BY <1>1, <1>2, <1>3 DEF IInv, Counts

LEMMA ReadEndsStep ==
    ASSUME IInv, ReadEnds
    PROVE  IInv'
<1>1. Counts' /\ FailureTimers'
  BY StillerStep DEF ReadEnds, control
<1>2. TypeOK'
  BY DEF IInv, ReadEnds, TypeOK, Labels, Events, Terminal, Call, control
<1>3. CallInv'
  BY JobAssumption DEF IInv, ReadEnds, TypeOK, CallInv, InCallback, Queued, Call, Labels, OnePlace
<1> QED  BY <1>1, <1>2, <1>3 DEF IInv, Counts

LEMMA CallbackEndsStep ==
    ASSUME IInv, CallbackEnds
    PROVE  IInv'
<1>1. Counts' /\ FailureTimers'
  BY StillerStep DEF CallbackEnds, control
<1>2. TypeOK'
  BY DEF IInv, CallbackEnds, TypeOK, Labels, Events, Terminal, Call, control
<1>3. CallInv'
  BY JobAssumption DEF IInv, CallbackEnds, TypeOK, CallInv, InCallback, Queued, Call, Labels, OnePlace
<1> QED  BY <1>1, <1>2, <1>3 DEF IInv, Counts

LEMMA DataURLBodyStep ==
    ASSUME IInv, DataURLBody
    PROVE  IInv'
<1>1. Counts' /\ FailureTimers'
  BY StillerStep DEF DataURLBody, control
<1>2. TypeOK'
  BY DEF IInv, DataURLBody, TypeOK, Labels, Events, Terminal, Call, control
<1>3. CallInv'
  BY JobAssumption DEF IInv, DataURLBody, TypeOK, CallInv, InCallback, Queued, Call, Labels, OnePlace
<1> QED  BY <1>1, <1>2, <1>3 DEF IInv, Counts

LEMMA DataURLEndStep ==
    ASSUME IInv, DataURLEnd
    PROVE  IInv'
<1>1. Counts' /\ FailureTimers'
  BY StillerStep DEF DataURLEnd, control
<1>2. TypeOK'
  BY DEF IInv, DataURLEnd, TypeOK, Labels, Events, Terminal, Call, control
<1>3. CallInv'
  BY JobAssumption DEF IInv, DataURLEnd, TypeOK, CallInv, InCallback, Queued, Call, Labels, OnePlace
<1> QED  BY <1>1, <1>2, <1>3 DEF IInv, Counts

LEMMA HeaderRedirectStep ==
    ASSUME IInv, NEW j \in Job, HeaderRedirect(j)
    PROVE  IInv'
<1>1. /\ Notify("willSend", j, "perform") /\ curl[j] \in {"transfer", "done", "failed"}
      /\ "perform" = "perform" => curl[j] = "transfer"
      /\ "perform" = "remove" => curl[j] # "transfer"
      /\ UNCHANGED <<d, curl, list, runningJobs, timer, pass, started, busy>>
  BY DEF HeaderRedirect, Callback, UnderWay, control
<1>2. ~Queued(j)
  BY <1>1 DEF IInv, OnePlace
<1>3. Counts' /\ FailureTimers'
  BY <1>1, StillerStep
<1>4. /\ CallInv' /\ pc' \in Labels
      /\ call' \in [event : Events, job : Job, ret : Labels]
  BY <1>1, <1>2, NotifyStep DEF Events, Terminal
<1>5. TypeOK'
  BY <1>1, <1>4 DEF IInv, TypeOK
<1> QED  BY <1>3, <1>4, <1>5 DEF IInv, Counts

LEMMA WriteStep ==
    ASSUME IInv, NEW j \in Job, Write(j)
    PROVE  IInv'
<1>1. /\ Notify("data", j, "perform") /\ curl[j] \in {"transfer", "done", "failed"}
      /\ "perform" = "perform" => curl[j] = "transfer"
      /\ "perform" = "remove" => curl[j] # "transfer"
      /\ UNCHANGED <<d, curl, list, runningJobs, timer, pass, started, busy>>
  BY DEF Write, Callback, UnderWay, control
<1>2. ~Queued(j)
  BY <1>1 DEF IInv, OnePlace
<1>3. Counts' /\ FailureTimers'
  BY <1>1, StillerStep
<1>4. /\ CallInv' /\ pc' \in Labels
      /\ call' \in [event : Events, job : Job, ret : Labels]
  BY <1>1, <1>2, NotifyStep DEF Events, Terminal
<1>5. TypeOK'
  BY <1>1, <1>4 DEF IInv, TypeOK
<1> QED  BY <1>3, <1>4, <1>5 DEF IInv, Counts

LEMMA ReadDoneStep ==
    ASSUME IInv, NEW j \in Job, ReadDone(j)
    PROVE  IInv'
<1>1. /\ Notify("finish", j, "remove") /\ curl[j] \in {"transfer", "done", "failed"}
      /\ "remove" = "perform" => curl[j] = "transfer"
      /\ "remove" = "remove" => curl[j] # "transfer"
      /\ UNCHANGED <<d, curl, list, runningJobs, timer, pass, started, busy>>
  BY DEF ReadDone, Callback, UnderWay, control
<1>2. ~Queued(j)
  BY <1>1 DEF IInv, OnePlace
<1>3. Counts' /\ FailureTimers'
  BY <1>1, StillerStep
<1>4. /\ CallInv' /\ pc' \in Labels
      /\ call' \in [event : Events, job : Job, ret : Labels]
  BY <1>1, <1>2, NotifyStep DEF Events, Terminal
<1>5. TypeOK'
  BY <1>1, <1>4 DEF IInv, TypeOK
<1> QED  BY <1>3, <1>4, <1>5 DEF IInv, Counts

LEMMA ReadFailedStep ==
    ASSUME IInv, NEW j \in Job, ReadFailed(j)
    PROVE  IInv'
<1>1. /\ Notify("fail", j, "remove") /\ curl[j] \in {"transfer", "done", "failed"}
      /\ "remove" = "perform" => curl[j] = "transfer"
      /\ "remove" = "remove" => curl[j] # "transfer"
      /\ UNCHANGED <<d, curl, list, runningJobs, timer, pass, started, busy>>
  BY DEF ReadFailed, Callback, UnderWay, control
<1>2. ~Queued(j)
  BY <1>1 DEF IInv, OnePlace
<1>3. Counts' /\ FailureTimers'
  BY <1>1, StillerStep
<1>4. /\ CallInv' /\ pc' \in Labels
      /\ call' \in [event : Events, job : Job, ret : Labels]
  BY <1>1, <1>2, NotifyStep DEF Events, Terminal
<1>5. TypeOK'
  BY <1>1, <1>4 DEF IInv, TypeOK
<1> QED  BY <1>3, <1>4, <1>5 DEF IInv, Counts

LEMMA CallbackAbortsStep ==
    ASSUME IInv, NEW j \in Job, CallbackAborts(j)
    PROVE  IInv'
<1>1. /\ pc = "perform" /\ curl[j] = "transfer"
      /\ curl' \in {[curl EXCEPT ![j] = "done"], [curl EXCEPT ![j] = "failed"]}
      /\ UNCHANGED <<d, list, runningJobs, timer, pc, call, pass, started, busy>>
  BY DEF CallbackAborts, Callback, UnderWay, control
<1>2. /\ curl' \in [Job -> {"none", "transfer", "done", "failed"}]
      /\ \A k \in Job : curl'[k] # "none" => curl[k] # "none"
  BY <1>1 DEF IInv, TypeOK
<1>3. Counts' /\ FailureTimers'
  BY <1>1, <1>2, StillStep
<1>4. TypeOK'
  BY <1>1, <1>2 DEF IInv, TypeOK
<1>5. CallInv'
  BY <1>1 DEF IInv, CallInv, InCallback
<1> QED  BY <1>3, <1>4, <1>5 DEF IInv, Counts

LEMMA TransferEndsStep ==
    ASSUME IInv, NEW j \in Job, TransferEnds(j)
    PROVE  IInv'
<1>1. /\ pc = "perform" /\ curl[j] = "transfer"
      /\ curl' \in {[curl EXCEPT ![j] = "done"], [curl EXCEPT ![j] = "failed"]}
      /\ UNCHANGED <<d, list, runningJobs, timer, pc, call, pass, started, busy>>
  BY DEF TransferEnds, Callback, UnderWay, control
<1>2. /\ curl' \in [Job -> {"none", "transfer", "done", "failed"}]
      /\ \A k \in Job : curl'[k] # "none" => curl[k] # "none"
  BY <1>1 DEF IInv, TypeOK
<1>3. Counts' /\ FailureTimers'
  BY <1>1, <1>2, StillStep
<1>4. TypeOK'
  BY <1>1, <1>2 DEF IInv, TypeOK
<1>5. CallInv'
  BY <1>1 DEF IInv, CallInv, InCallback
<1> QED  BY <1>3, <1>4, <1>5 DEF IInv, Counts

LEMMA WriteLocalDataStep ==
    ASSUME IInv, WriteLocalData
    PROVE  IInv'
<1> DEFINE j == call.job
<1>1. /\ pc = "localData" /\ j \in Job /\ ~Queued(j) /\ curl[j] = "transfer"
      /\ UNCHANGED <<d, list, runningJobs, timer, pass, started, busy>>
  BY DEF IInv, TypeOK, CallInv, InCallback, WriteLocalData, control
<1>2. CASE Notify("data", j, "perform") /\ UNCHANGED curl
  <2>1. Counts' /\ FailureTimers'
    BY <1>1, <1>2, StillerStep
  <2>2. /\ CallInv' /\ pc' \in Labels
        /\ call' \in [event : Events, job : Job, ret : Labels]
    BY <1>1, <1>2, NotifyStep DEF Events, Terminal
  <2>3. TypeOK'
    BY <1>1, <1>2, <2>2 DEF IInv, TypeOK
  <2> QED  BY <2>1, <2>2, <2>3 DEF IInv, Counts
<1>3. CASE /\ curl' = [curl EXCEPT ![j] = "failed"]
           /\ pc' = "perform"
           /\ UNCHANGED call
  <2>1. /\ curl' \in [Job -> {"none", "transfer", "done", "failed"}]
        /\ \A k \in Job : curl'[k] # "none" => curl[k] # "none"
    BY <1>1, <1>3 DEF IInv, TypeOK
  <2>2. Counts' /\ FailureTimers'
    BY <1>1, <2>1, StillStep
  <2>3. TypeOK'
    BY <1>1, <1>3, <2>1 DEF IInv, TypeOK, Labels
  <2>4. CallInv'
    BY <1>3 DEF CallInv, InCallback
  <2> QED  BY <2>2, <2>3, <2>4 DEF IInv, Counts
<1> QED  BY <1>2, <1>3 DEF WriteLocalData

LEMMA ReadCancelledStep ==
    ASSUME IInv, NEW j \in Job, ReadCancelled(j)
    PROVE  IInv'
BY RemoveFromCurlStep DEF ReadCancelled, control

LEMMA RemoveJobStep ==
    ASSUME IInv, RemoveJob
    PROVE  IInv'
<1>1. call.job \in Job /\ curl[call.job] \in {"done", "failed"}
  BY DEF IInv, TypeOK, CallInv, InCallback, RemoveJob
<1> QED  BY <1>1, RemoveFromCurlStep DEF RemoveJob, control

LEMMA ReadLocalFinishStep ==
    ASSUME IInv, ReadLocalFinish
    PROVE  IInv'
<1> DEFINE j == call.job
<1>1. /\ pc = "localFinish" /\ j \in Job /\ ~Queued(j) /\ curl[j] \in {"done", "failed"}
      /\ UNCHANGED <<list, pass, started, busy>>
  BY DEF IInv, TypeOK, CallInv, InCallback, ReadLocalFinish, control
<1>2. CASE RemoveFromCurl(j) /\ UNCHANGED call
  BY <1>1, <1>2, RemoveFromCurlStep
<1>3. CASE Notify("finish", j, "remove") /\ UNCHANGED <<d, curl, runningJobs, timer>>
  <2>1. Counts' /\ FailureTimers'
    BY <1>1, <1>3, StillerStep
  <2>2. /\ CallInv' /\ pc' \in Labels
        /\ call' \in [event : Events, job : Job, ret : Labels]
    BY <1>1, <1>3, NotifyStep DEF Events, Terminal
  <2>3. TypeOK'
    BY <1>1, <1>3, <2>2 DEF IInv, TypeOK
  <2> QED  BY <2>1, <2>2, <2>3 DEF IInv, Counts
<1> QED  BY <1>2, <1>3 DEF ReadLocalFinish

LEMMA StutterStep ==
    ASSUME IInv, UNCHANGED vars
    PROVE  IInv'
<1>1. Counts' /\ FailureTimers'
  BY StillerStep DEF vars
<1>2. TypeOK' /\ CallInv'
  BY DEF IInv, TypeOK, CallInv, InCallback, Queued, vars
<1> QED  BY <1>1, <1>2 DEF IInv, Counts

-----------------------------------------------------------------------------
(* The theorems.                                                             *)

LEMMA InitialInvariant == Init => IInv
<1> SUFFICES ASSUME Init
             PROVE  IInv
  OBVIOUS
<1>1. NoHandle \in Handle
  BY DEF NoHandle, NewHandle, Handle
<1>2. /\ ~NoHandle.held /\ ~NoHandle.easy /\ NoHandle.ref = 0 /\ ~NoHandle.failure
  BY DEF NoHandle, NewHandle
<1> HIDE DEF NoHandle
<1>3. TypeOK
  <2>1. d \in [Job -> Handle]
    BY <1>1 DEF Init
  <2>2. call \in [event : Events, job : Job, ret : Labels]
    BY DEF Init, Labels, Events, Terminal
  <2>3. list \in Seq(Job) /\ pc \in Labels /\ curl \in [Job -> {"none", "transfer", "done", "failed"}]
    BY DEF Init, Labels
  <2> QED  BY <2>1, <2>2, <2>3 DEF Init, TypeOK
<1>4. \A j \in Job : ~Queued(j)
  BY DEF Init, Queued, ToSet
<1>5. SlotAccounting
  <2>1. Running = {}
    BY <1>2 DEF Init, Running
  <2> QED  BY <2>1, FS_EmptySet, SlotAssumption DEF Init, SlotAccounting
<1>6. OnePlace
  BY <1>4 DEF Init, OnePlace
<1>7. RefAccounting /\ DataReferences /\ RefusedApart /\ FailureTimers
  BY <1>2, <1>4, JobAssumption
     DEF Init, RefAccounting, DataReferences, RefusedApart, FailureTimers, Bit
<1>8. CallInv
  BY DEF Init, CallInv, InCallback
<1> QED  BY <1>3, <1>5, <1>6, <1>7, <1>8 DEF IInv

LEMMA NextInvariant == IInv /\ [Next]_vars => IInv'
<1> SUFFICES ASSUME IInv, [Next]_vars
             PROVE  IInv'
  OBVIOUS
<1>1. ASSUME NEW j \in Job, OwnerStep(j)
      PROVE  IInv'
  BY <1>1, CreateStep, CreateBlockedStep, CancelScheduledStep, CancelStartedStep,
     DeferStep, ResumeStep, ResumeFailsStep DEF OwnerStep
<1>2. ASSUME NEW j \in Job, CurlStep(j)
      PROVE  IInv'
  BY <1>2, CallbackAbortsStep, HeaderRedirectStep, HeaderResponseStep, WriteStep,
     WriteLocalStep, ReadFailsStep, TransferEndsStep, DoStep DEF CurlStep
<1>3. ASSUME NEW j \in Job, ReadStep(j)
      PROVE  IInv'
  BY <1>3, ReadCancelledStep, ReadDoneStep, ReadDoneLocalStep, ReadFailedStep
     DEF ReadStep
<1>4. CASE ManagerStep
  BY <1>3, <1>4, StartTransferStep, StartTransferFailsStep, StartDataURLStep,
     DataURLBodyStep, DataURLEndStep, StartEndsStep, SelectStep, SelectFailsStep,
     WriteLocalDataStep, PerformEndsStep, ReadLocalFinishStep, RemoveJobStep,
     ReadEndsStep, CallbackEndsStep DEF ManagerStep
<1>5. CASE UNCHANGED vars
  BY <1>5, StutterStep
<1> QED
  BY <1>1, <1>2, <1>4, <1>5, FireFailureStep, CreateAndDeleteStep, ReleaseStep,
     ReturnStep, ReturnPausedStep, FireTimerStep DEF Next

LEMMA Invariant == Spec => []IInv
BY InitialInvariant, NextInvariant, PTL DEF Spec

(***************************************************************************)
(* Type correctness: reference counts never go below zero and m_runningJobs*)
(* stays a natural number, although removeFromCurl, cancel and the owners  *)
(* subtract without looking.                                               *)
(***************************************************************************)
THEOREM TypeCorrect == Spec => []TypeOK
<1>1. IInv => TypeOK
  BY DEF IInv
<1> QED  BY <1>1, Invariant, PTL

(***************************************************************************)
(* m_runningJobs is the number of live easy handles and never exceeds      *)
(* maxRunningJobs, whatever owners and faults do.                          *)
(***************************************************************************)
THEOREM Slots == Spec => []SlotAccounting
<1>1. IInv => SlotAccounting
  BY DEF IInv
<1> QED  BY <1>1, Invariant, PTL

(***************************************************************************)
(* The references of a job that is not a data URL are the owner's, the     *)
(* queue's and the running transfer's, and no other.                       *)
(***************************************************************************)
THEOREM References == Spec => []RefAccounting
<1>1. IInv => RefAccounting
  BY DEF IInv
<1> QED  BY <1>1, Invariant, PTL

(***************************************************************************)
(* A job is once in the queue or in libcurl, never in both, and a queued   *)
(* job has not been cancelled.                                             *)
(***************************************************************************)
THEOREM Places == Spec => []OnePlace
<1>1. IInv => OnePlace
  BY DEF IInv
<1> QED  BY <1>1, Invariant, PTL

(***************************************************************************)
(* No handle is deleted while the queue, libcurl or a later line of the    *)
(* callback still uses it.                                                 *)
(***************************************************************************)
THEOREM Alive == Spec => []AliveWhileUsed
<1>1. ASSUME IInv, NEW j \in Job, InUse(j)
      PROVE  d[j].ref > 0
  <2>1. CASE j \in DataJob
    <3>1. d[j].ref > 0 \/ ~Queued(j)
      BY <1>1, <2>1 DEF IInv, DataReferences, Bit
    <3>2. curl[j] = "none" /\ ~d[j].easy
      BY <1>1, <2>1 DEF IInv, DataReferences
    <3> QED  BY <1>1, <3>1, <3>2 DEF IInv, InUse, CallInv, InCallback
  <2>2. CASE j \notin DataJob
    <3>1. Queued(j) \/ d[j].easy
      BY <1>1, <2>2 DEF IInv, InUse, OnePlace, CallInv, InCallback
    <3>2. d[j].ref = Bit(d[j].held) + Bit(Queued(j)) + Bit(d[j].easy)
      BY <1>1, <2>2 DEF IInv, RefAccounting
    <3> QED  BY <3>1, <3>2 DEF Bit
  <2> QED  BY <2>1, <2>2
<1>2. IInv => AliveWhileUsed
  BY <1>1 DEF AliveWhileUsed
<1> QED  BY <1>2, Invariant, PTL

-----------------------------------------------------------------------------
(***************************************************************************)
(* Owners.  Who waits in the queue still has its owner; an owner that      *)
(* holds the handle can be told; a refused URL is told once, and not while *)
(* it is being told.  A transfer that its owner let go of without a cancel *)
(* has had its last event, and is about to be removed.  The transfer of a  *)
(* deferred job is paused, or libcurl has dropped the pause.               *)
(***************************************************************************)
Waiting == \A j \in Job : Queued(j) => d[j].held

Known == \A j \in Job : d[j].held => d[j].client

Refusals ==
    \A j \in BlockedJob :
       /\ d[j].held => ~d[j].cancelled
       /\ d[j].failure => d[j].held
       /\ pc = "client" /\ call.job = j => ~d[j].failure

Removing(j) ==
    call.job = j /\ (pc = "remove" \/ (pc = "client" /\ call.ret = "remove"))

Abandoned(h) == h.easy /\ ~h.held /\ ~h.cancelled

LetGo == \A j \in Job : Abandoned(d[j]) => Removing(j)

Lasts(e, r) == e \in Terminal <=> r \in {"remove", "start", "idle"}

LastEvents ==
    /\ pc = "client" => Lasts(call.event, call.ret)
    /\ pc = "remove" => ~d[call.job].held \/ d[call.job].cancelled

PauseKnown(h) == h.easy /\ h.defers => h.paused \/ h.dropped

Paused == \A j \in Job : PauseKnown(d[j])

Owners == Waiting /\ Known /\ Refusals /\ LetGo /\ LastEvents /\ Paused

\* One handle changes, and the thread stays where it is.
LEMMA OwnersUpdate ==
    ASSUME TypeOK, Owners, NEW j \in Job, NEW h \in Handle, Update(j, h),
           UNCHANGED <<pc, call>>,
           \A k \in Job : Queued(k)' => Queued(k) \/ k = j,
           Queued(j)' => h.held,
           h.held => h.client,
           j \in BlockedJob =>
              /\ h.held => ~h.cancelled
              /\ h.failure => h.held
              /\ pc = "client" /\ call.job = j => ~h.failure,
           Abandoned(h) => Removing(j),
           pc = "remove" /\ call.job = j => ~h.held \/ h.cancelled,
           PauseKnown(h)
    PROVE  Owners'
<1>1. /\ d' \in [Job -> Handle] /\ d'[j] = h
      /\ \A k \in Job \ {j} : d'[k] = d[k]
  BY UpdateFacts
<1>2. Waiting'
  BY <1>1 DEF Owners, Waiting
<1>3. Known'
  BY <1>1 DEF Owners, Known
<1>4. Refusals'
  BY <1>1, JobAssumption DEF Owners, Refusals
<1>5. LetGo'
  BY <1>1 DEF Owners, LetGo, Removing
<1>6. LastEvents'
  BY <1>1 DEF Owners, LastEvents, TypeOK
<1>7. Paused'
  BY <1>1 DEF Owners, Paused
<1> QED  BY <1>2, <1>3, <1>4, <1>5, <1>6, <1>7 DEF Owners

\* The thread goes on elsewhere, and no flag that matters changes.
Same(k) ==
    /\ d'[k].held = d[k].held /\ d'[k].client = d[k].client
    /\ d'[k].cancelled = d[k].cancelled /\ d'[k].easy = d[k].easy
    /\ d'[k].defers = d[k].defers
    /\ d[k].paused \/ d[k].dropped => d'[k].paused \/ d'[k].dropped
    /\ d'[k].failure => d[k].failure

LEMMA OwnersMove ==
    ASSUME Owners, \A k \in Job : Same(k), pc \notin {"client", "remove"},
           \A k \in Job : Queued(k)' => Queued(k),
           pc' = "client" => Lasts(call'.event, call'.ret),
           pc' = "client" /\ call'.job \in BlockedJob => ~d'[call'.job].failure,
           pc' # "remove"
    PROVE  Owners'
<1>1. \A k \in Job : /\ Abandoned(d[k])' = Abandoned(d[k])
                     /\ PauseKnown(d[k]) => PauseKnown(d[k])'
  BY DEF Same, Abandoned, PauseKnown
<1>2. Waiting' /\ Known'
  BY DEF Owners, Waiting, Known, Same
<1>3. Refusals'
  BY JobAssumption DEF Owners, Refusals, Same
<1>4. LetGo'
  BY <1>1 DEF Owners, LetGo, Removing
<1>5. LastEvents' /\ Paused'
  BY <1>1 DEF Owners, LastEvents, Paused
<1> QED  BY <1>2, <1>3, <1>4, <1>5 DEF Owners

\* An owner is told, if it can be.
LEMMA OwnersNotify ==
    ASSUME IInv, Owners, \A k \in Job : Same(k), pc \notin {"client", "remove"},
           list' = list,
           NEW e \in Events, NEW j \in Job, NEW r \in Labels, Notify(e, j, r),
           r # "client", Lasts(e, r), j \in BlockedJob => ~d'[j].failure
    PROVE  Owners'
<1>1. \A k \in Job : Queued(k)' = Queued(k)
  BY DEF Queued
<1>2. CASE r # "remove" \/ d[j].client
  <2>1. pc' # "remove"
    BY <1>2 DEF Notify, Call
  <2>2. pc' = "client" => call' = [event |-> e, job |-> j, ret |-> r]
    BY DEF Notify, Call
  <2> QED  BY <1>1, <2>1, <2>2, OwnersMove
<1>3. CASE r = "remove" /\ ~d[j].client
  <2>1. pc' = "remove" /\ call' = [call EXCEPT !.job = j]
    BY <1>3 DEF Notify
  <2>2. call'.job = j
    BY <2>1 DEF IInv, TypeOK
  <2>3. ~d'[j].held
    BY <1>3 DEF Owners, Known, Same
  <2>4. \A k \in Job : /\ Abandoned(d[k])' = Abandoned(d[k])
                       /\ PauseKnown(d[k]) => PauseKnown(d[k])'
    BY DEF Same, Abandoned, PauseKnown
  <2>5. Waiting' /\ Known'
    BY <1>1 DEF Owners, Waiting, Known, Same
  <2>6. Refusals'
    BY <2>1, JobAssumption DEF Owners, Refusals, Same
  <2>7. LetGo'
    BY <2>4 DEF Owners, LetGo, Removing
  <2>8. LastEvents' /\ Paused'
    BY <2>1, <2>2, <2>3, <2>4 DEF Owners, LastEvents, Paused
  <2> QED  BY <2>5, <2>6, <2>7, <2>8 DEF Owners
<1> QED  BY <1>2, <1>3

-----------------------------------------------------------------------------
(* Owners, step by step.                                                     *)

LEMMA OwnersStutter ==
    ASSUME Owners, UNCHANGED <<d, list, pc, call>>
    PROVE  Owners'
BY DEF Owners, Waiting, Known, Refusals, LetGo, Removing, LastEvents, Paused, Queued

LEMMA OwnersCreate ==
    ASSUME IInv, Owners, NEW j \in Job, Create(j)
    PROVE  Owners'
<1> DEFINE h == [NewHandle EXCEPT !.ref = 2]
<1>1. /\ TypeOK /\ j \notin BlockedJob /\ Update(j, h)
      /\ list' = Append(list, j) /\ UNCHANGED <<pc, call>> /\ pc # "remove"
  BY DEF IInv, Create, OwnerRuns
<1>2. h \in Handle /\ h.held /\ h.client /\ ~h.easy
  BY DEF NewHandle, Handle
<1>3. \A k \in Job : Queued(k)' => Queued(k) \/ k = j
  BY <1>1, AppendFacts DEF TypeOK, Queued
<1> HIDE DEF h
<1> QED  BY <1>1, <1>2, <1>3, OwnersUpdate DEF Abandoned, PauseKnown

LEMMA OwnersCreateBlocked ==
    ASSUME IInv, Owners, NEW j \in Job, CreateBlocked(j)
    PROVE  Owners'
<1> DEFINE h == [NewHandle EXCEPT !.failure = TRUE]
<1>1. /\ TypeOK /\ Update(j, h) /\ ~(pc = "client" /\ call.job = j)
      /\ UNCHANGED <<list, pc, call>> /\ pc # "remove"
  BY DEF IInv, CreateBlocked, OwnerRuns, Free
<1>2. h \in Handle /\ h.held /\ h.client /\ ~h.easy /\ ~h.cancelled
  BY DEF NewHandle, Handle
<1>3. \A k \in Job : Queued(k)' => Queued(k)
  BY <1>1 DEF Queued
<1> HIDE DEF h
<1> QED  BY <1>1, <1>2, <1>3, OwnersUpdate DEF Abandoned, PauseKnown

LEMMA OwnersCancelScheduled ==
    ASSUME IInv, Owners, NEW j \in Job, CancelScheduled(j)
    PROVE  Owners'
<1> DEFINE h == [d[j] EXCEPT !.ref = @ - 2, !.held = FALSE,
                             !.cancelled = @ \/ d[j].ref = 2]
<1>1. /\ TypeOK /\ OnePlace /\ Update(j, h) /\ UNCHANGED <<pc, call>>
      /\ pc # "remove"
  BY DEF IInv, CancelScheduled, OwnerRuns
<1>2. PICK i \in 1..Len(list) : list[i] = j /\ list' = RemoveAt(list, i)
  BY DEF CancelScheduled
<1>3. /\ \A k \in Job : Queued(k)' => Queued(k) /\ k # j
      /\ Queued(j)
  BY <1>1, <1>2, RemoveAtFacts, MemberFacts DEF TypeOK, OnePlace, Distinct, Queued
<1>4. /\ d[j] \in Handle /\ ~d[j].easy /\ j \notin BlockedJob
      /\ d[j].ref = Bit(d[j].held) + 1
  BY <1>1, <1>3, JobAssumption
     DEF IInv, TypeOK, OnePlace, RefusedApart, RefAccounting, DataReferences, Bit
<1>5. d[j].held
  BY DEF CancelScheduled
<1>6. d[j].ref = 2
  BY <1>4, <1>5 DEF Bit
<1>7. h.ref = 0 /\ ~h.held /\ ~h.easy
  BY <1>4, <1>6 DEF Handle
<1>8. h \in Handle
  <2>1. d[j].ref - 2 \in Nat
    BY <1>6
  <2> QED  BY <1>4, <2>1 DEF Handle
<1> HIDE DEF h
<1> QED  BY <1>1, <1>3, <1>4, <1>7, <1>8, OwnersUpdate DEF Abandoned, PauseKnown

LEMMA OwnersCancelStarted ==
    ASSUME IInv, Owners, NEW j \in Job, CancelStarted(j)
    PROVE  Owners'
<1> DEFINE h == [d[j] EXCEPT !.ref = @ - 1, !.held = FALSE, !.cancelled = TRUE,
                             !.failure = @ /\ d[j].ref # 1]
<1>1. /\ TypeOK /\ ~Queued(j) /\ d[j].held /\ Update(j, h) /\ pc # "remove"
      /\ UNCHANGED <<list, pc, call>>
  BY DEF IInv, CancelStarted, OwnerRuns
<1>2. d[j] \in Handle /\ d[j].ref - 1 \in Nat
  BY <1>1, JobAssumption
     DEF IInv, TypeOK, RefAccounting, DataReferences, Bit, Handle
<1>3. j \in BlockedJob => d[j].ref = 1
  BY <1>1, JobAssumption DEF IInv, RefAccounting, RefusedApart, Bit
<1>4. h \in Handle
  BY <1>2 DEF Handle
<1>5. /\ ~h.held /\ h.cancelled /\ h.easy = d[j].easy
      /\ h.defers = d[j].defers /\ h.paused = d[j].paused /\ h.dropped = d[j].dropped
      /\ j \in BlockedJob => ~h.failure
  BY <1>2, <1>3 DEF Handle
<1>6. PauseKnown(h)
  BY <1>5 DEF Owners, Paused, PauseKnown
<1>7. \A k \in Job : Queued(k)' <=> Queued(k)
  BY <1>1 DEF Queued
<1> HIDE DEF h
<1> QED  BY <1>1, <1>4, <1>5, <1>6, <1>7, OwnersUpdate DEF Abandoned

LEMMA OwnersDefer ==
    ASSUME IInv, Owners, NEW j \in Job, Defer(j)
    PROVE  Owners'
<1> DEFINE h == [d[j] EXCEPT !.defers = TRUE, !.failure = FALSE,
                             !.paused = d[j].easy, !.dropped = FALSE]
<1>1. /\ TypeOK /\ d[j].held /\ pc # "remove" /\ UNCHANGED <<list, pc, call>>
      /\ d[j] \in Handle /\ Update(j, h)
  BY DEF IInv, Defer, OwnerRuns, TypeOK
<1>2. /\ h \in Handle /\ h.held /\ h.client = d[j].client
      /\ h.cancelled = d[j].cancelled /\ ~h.failure
      /\ h.easy = d[j].easy /\ h.paused = d[j].easy
  BY <1>1 DEF Handle
<1>3. \A k \in Job : Queued(k)' <=> Queued(k)
  BY <1>1 DEF Queued
<1>4. PauseKnown(h) /\ ~Abandoned(h)
  BY <1>2 DEF PauseKnown, Abandoned
<1>5. h.client /\ (j \in BlockedJob => ~h.cancelled)
  BY <1>1, <1>2 DEF Owners, Known, Refusals
<1> HIDE DEF h
<1> QED  BY <1>1, <1>2, <1>3, <1>4, <1>5, OwnersUpdate

LEMMA OwnersResume ==
    ASSUME IInv, Owners, NEW j \in Job, Resume(j)
    PROVE  Owners'
<1> DEFINE h == [d[j] EXCEPT !.defers = FALSE, !.paused = FALSE, !.dropped = FALSE,
                  !.failure = j \in BlockedJob /\ ~(pc = "client" /\ call.job = j)]
<1>1. /\ TypeOK /\ d[j].held /\ pc # "remove" /\ UNCHANGED <<list, pc, call>>
      /\ d[j] \in Handle /\ Update(j, h)
  BY DEF IInv, Resume, OwnerRuns, TypeOK
<1>2. /\ h \in Handle /\ h.held /\ h.client = d[j].client
      /\ h.cancelled = d[j].cancelled /\ ~h.defers
      /\ pc = "client" /\ call.job = j => ~h.failure
  BY <1>1 DEF Handle
<1>3. \A k \in Job : Queued(k)' <=> Queued(k)
  BY <1>1 DEF Queued
<1>4. PauseKnown(h) /\ ~Abandoned(h)
  BY <1>2 DEF PauseKnown, Abandoned
<1>5. h.client /\ (j \in BlockedJob => ~h.cancelled)
  BY <1>1, <1>2 DEF Owners, Known, Refusals
<1> HIDE DEF h
<1> QED  BY <1>1, <1>2, <1>3, <1>4, <1>5, OwnersUpdate

LEMMA OwnersResumeFails ==
    ASSUME IInv, Owners, NEW j \in Job, ResumeFails(j)
    PROVE  Owners'
<1> DEFINE h == [d[j] EXCEPT !.defers = FALSE, !.paused = FALSE, !.dropped = FALSE,
                             !.cancelled = TRUE]
<1>1. /\ TypeOK /\ d[j].held /\ pc # "remove" /\ UNCHANGED <<list, pc, call>>
      /\ d[j] \in Handle /\ Update(j, h) /\ d[j].easy
  BY DEF IInv, ResumeFails, OwnerRuns, TypeOK
<1>2. /\ h \in Handle /\ h.held /\ h.client = d[j].client
      /\ h.cancelled /\ ~h.defers
  BY <1>1 DEF Handle
<1>3. \A k \in Job : Queued(k)' <=> Queued(k)
  BY <1>1 DEF Queued
<1>4. PauseKnown(h) /\ ~Abandoned(h)
  BY <1>2 DEF PauseKnown, Abandoned
<1>5. h.client /\ j \notin BlockedJob
  BY <1>1, <1>2 DEF IInv, RefusedApart, Owners, Known
<1> HIDE DEF h
<1> QED  BY <1>1, <1>2, <1>3, <1>4, <1>5, OwnersUpdate

LEMMA OwnersRelease ==
    ASSUME IInv, Owners, Release
    PROVE  Owners'
<1> DEFINE j == call.job
           h(c) == [d[j] EXCEPT !.ref = @ - 1, !.held = FALSE, !.client = c,
                                !.cancelled = @ \/ d[j].ref = 1]
<1>1. /\ pc = "client" /\ d[j].held /\ call.event \in Terminal
      /\ UNCHANGED <<list, pc, call>>
  BY DEF Release
<1>2. PICK c \in {FALSE, d[j].client} : Update(j, h(c))
  BY DEF Release
<1>3. TypeOK /\ j \in Job /\ ~Queued(j)
  BY <1>1 DEF IInv, TypeOK, CallInv
<1>4. d[j] \in Handle /\ d[j].ref - 1 \in Nat
  BY <1>1, <1>3, JobAssumption
     DEF IInv, TypeOK, RefAccounting, DataReferences, Bit, Handle
<1>5. c \in BOOLEAN
  BY <1>2, <1>4 DEF Handle
<1>6. h(c) \in Handle
  BY <1>4, <1>5 DEF Handle
<1>7. /\ ~h(c).held /\ h(c).easy = d[j].easy /\ h(c).failure = d[j].failure
      /\ h(c).defers = d[j].defers /\ h(c).paused = d[j].paused
      /\ h(c).dropped = d[j].dropped
  BY <1>4 DEF Handle
<1>8. PauseKnown(h(c))
  BY <1>3, <1>7 DEF Owners, Paused, PauseKnown
<1>9. d[j].easy => Removing(j)
  BY <1>1, <1>3, JobAssumption
     DEF IInv, CallInv, DataReferences, RefusedApart, Owners, LastEvents, Lasts, Removing
<1>10. j \in BlockedJob => ~h(c).failure
  BY <1>1, <1>7 DEF Owners, Refusals
<1>11. \A k \in Job : Queued(k)' <=> Queued(k)
  BY <1>1 DEF Queued
<1>12. Abandoned(h(c)) => Removing(j)
  BY <1>7, <1>9 DEF Abandoned
<1> HIDE DEF h, j
<1> QED  BY <1>1, <1>2, <1>3, <1>6, <1>7, <1>8, <1>10, <1>11, <1>12, OwnersUpdate

LEMMA OwnersReadFails ==
    ASSUME IInv, Owners, NEW j \in Job, ReadFails(j)
    PROVE  Owners'
<1> DEFINE h == [d[j] EXCEPT !.cancelled = TRUE]
<1>1. /\ TypeOK /\ pc = "perform" /\ UNCHANGED <<list, pc, call>>
      /\ d[j] \in Handle /\ Update(j, h) /\ d[j].easy /\ ~Queued(j)
  BY DEF IInv, ReadFails, Callback, UnderWay, TypeOK, OnePlace
<1>2. /\ h \in Handle /\ h.held = d[j].held /\ h.client = d[j].client
      /\ h.cancelled /\ h.defers = d[j].defers /\ h.easy = d[j].easy
      /\ h.paused = d[j].paused /\ h.dropped = d[j].dropped
  BY <1>1 DEF Handle
<1>3. \A k \in Job : Queued(k)' <=> Queued(k)
  BY <1>1 DEF Queued
<1>4. PauseKnown(h) /\ ~Abandoned(h)
  BY <1>2 DEF Owners, Paused, PauseKnown, Abandoned
<1>5. (h.held => h.client) /\ j \notin BlockedJob
  BY <1>1, <1>2 DEF IInv, RefusedApart, Owners, Known
<1> HIDE DEF h
<1> QED  BY <1>1, <1>2, <1>3, <1>4, <1>5, OwnersUpdate

\* The head of the queue gets a slot.
LEMMA OwnersStart ==
    ASSUME IInv, Owners, list # <<>>, pc = "start", Head(list) \notin DataJob,
           NEW h \in Handle, Update(Head(list), h),
           h.held = d[Head(list)].held, h.client = d[Head(list)].client,
           h.paused = h.defers,
           list' = Tail(list), UNCHANGED <<pc, call>>
    PROVE  Owners'
<1> DEFINE j == Head(list)
<1>1. TypeOK
  BY DEF IInv
<1>2. /\ j \in Job /\ Queued(j)
      /\ \A k \in Job : Queued(k)' <=> Queued(k) /\ k # j
  BY <1>1, TailFacts DEF TypeOK, IInv, OnePlace, Distinct, Queued
<1>3. j \notin BlockedJob /\ h.held /\ h.client
  BY <1>2 DEF IInv, RefusedApart, Owners, Waiting, Known
<1> HIDE DEF j
<1>4. Update(j, h)
  BY DEF j
<1> QED  BY <1>1, <1>2, <1>3, <1>4, OwnersUpdate DEF PauseKnown, Abandoned

LEMMA OwnersStartTransfer ==
    ASSUME IInv, Owners, StartTransfer \/ StartTransferFails
    PROVE  Owners'
<1> DEFINE j == Head(list)
           g == [d[j] EXCEPT !.easy = TRUE, !.paused = d[j].defers]
           h == [d[j] EXCEPT !.easy = TRUE, !.paused = d[j].defers,
                             !.cancelled = TRUE]
<1>1. /\ pc = "start" /\ list # <<>> /\ j \notin DataJob /\ list' = Tail(list)
      /\ Update(j, g) \/ Update(j, h)
      /\ UNCHANGED <<pc, call>>
  BY DEF StartTransfer, StartTransferFails, CanStart
<1>2. d[j] \in Handle
  BY <1>1, TailFacts DEF IInv, TypeOK, OnePlace, Distinct
<1>3. /\ g \in Handle /\ g.held = d[j].held /\ g.client = d[j].client
      /\ g.paused = g.defers
  BY <1>2 DEF Handle
<1>4. /\ h \in Handle /\ h.held = d[j].held /\ h.client = d[j].client
      /\ h.paused = h.defers
  BY <1>2 DEF Handle
<1> HIDE DEF g, h
<1> QED  BY <1>1, <1>3, <1>4, OwnersStart

\* The thread goes on inside the callback, and no handle changes.
LEMMA OwnersStay ==
    ASSUME Owners, UNCHANGED d, pc \notin {"client", "remove"},
           \A k \in Job : Queued(k)' => Queued(k),
           pc' = "client" => Lasts(call'.event, call'.ret)
                             /\ call'.job \notin BlockedJob,
           pc' # "remove"
    PROVE  Owners'
<1>1. \A k \in Job : Same(k)
  BY DEF Same
<1> QED  BY <1>1, OwnersMove

LEMMA OwnersDataURL ==
    ASSUME IInv, Owners, StartDataURL \/ DataURLBody \/ DataURLEnd
    PROVE  Owners'
<1>1. CASE StartDataURL
  <2>1. /\ pc = "start" /\ list # <<>> /\ Head(list) \in DataJob /\ UNCHANGED d
        /\ list' = Tail(list) /\ pc' = "client"
        /\ \/ call' = [event |-> "cannotShow", job |-> Head(list), ret |-> "start"]
           \/ call' = [event |-> "response", job |-> Head(list), ret |-> "dataBody"]
    BY <1>1 DEF StartDataURL, Call, CanStart
  <2>2. \A k \in Job : Queued(k)' => Queued(k)
    BY <2>1, TailFacts DEF IInv, TypeOK, OnePlace, Distinct, Queued
  <2>3. Lasts(call'.event, call'.ret) /\ call'.job \notin BlockedJob
    BY <2>1, JobAssumption DEF Lasts, Terminal
  <2> QED  BY <2>1, <2>2, <2>3, OwnersStay
<1>2. CASE DataURLBody
  <2>1. /\ pc = "dataBody" /\ UNCHANGED <<d, list>>
        /\ \/ /\ pc' = "client"
              /\ call' = [event |-> "data", job |-> call.job, ret |-> "dataEnd"]
           \/ pc' = "dataEnd"
    BY <1>2 DEF DataURLBody, Call
  <2>2. call.job \notin BlockedJob
    BY <2>1, JobAssumption DEF IInv, CallInv, InCallback
  <2> QED  BY <2>1, <2>2, OwnersStay DEF Lasts, Terminal, Queued
<1>3. CASE DataURLEnd
  <2>1. /\ pc = "dataEnd" /\ UNCHANGED <<d, list>>
        /\ pc' = "client"
        /\ call' = [event |-> "finish", job |-> call.job, ret |-> "start"]
    BY <1>3 DEF DataURLEnd, Call
  <2>2. call.job \notin BlockedJob
    BY <2>1, JobAssumption DEF IInv, CallInv, InCallback
  <2> QED  BY <2>1, <2>2, OwnersStay DEF Lasts, Terminal, Queued
<1> QED  BY <1>1, <1>2, <1>3

LEMMA OwnersQuiet ==
    ASSUME Owners,
           \/ FireTimer \/ StartEnds \/ Select \/ SelectFails \/ PerformEnds
           \/ ReadEnds \/ CallbackEnds
           \/ \E j \in Job : CallbackAborts(j) \/ TransferEnds(j)
    PROVE  Owners'
<1>1. /\ UNCHANGED <<d, list>> /\ pc \notin {"client", "remove"}
      /\ pc' \notin {"client", "remove"}
  BY DEF FireTimer, StartEnds, Select, SelectFails, PerformEnds, ReadEnds,
         CallbackEnds, CallbackAborts, TransferEnds, Callback, UnderWay
<1> QED  BY <1>1, OwnersStay DEF Queued

\* A transfer is nobody's refused URL.
LEMMA TransferFacts ==
    ASSUME IInv, NEW j \in Job, curl[j] # "none"
    PROVE  /\ j \notin BlockedJob /\ j \notin DataJob /\ d[j].easy /\ ~Queued(j)
           /\ d[j] \in Handle
BY JobAssumption DEF IInv, OnePlace, RefusedApart, DataReferences, TypeOK

LEMMA OwnersCallbacks ==
    ASSUME IInv, Owners, NEW j \in Job,
           HeaderRedirect(j) \/ HeaderResponse(j) \/ Write(j) \/ WriteLocal(j)
    PROVE  Owners'
<1>1. /\ pc = "perform" /\ curl[j] # "none" /\ UNCHANGED list
      /\ d' = d \/ Update(j, [d[j] EXCEPT !.fired = TRUE])
  BY DEF HeaderRedirect, HeaderResponse, Write, WriteLocal, Callback, UnderWay
<1>2. j \notin BlockedJob /\ d[j] \in Handle /\ d \in [Job -> Handle]
  BY <1>1, TransferFacts DEF IInv, TypeOK
<1>3. \A k \in Job : Same(k)
  BY <1>1, <1>2 DEF Same, Update, Handle
<1>4. \/ Notify("willSend", j, "perform") \/ Notify("response", j, "perform")
      \/ Notify("data", j, "perform") \/ Notify("response", j, "localData")
  BY DEF HeaderRedirect, HeaderResponse, Write, WriteLocal
<1>5. \A e \in {"willSend", "response", "data"}, r \in {"perform", "localData"} :
         e \in Events /\ r \in Labels /\ r # "client" /\ Lasts(e, r)
  BY DEF Events, Labels, Lasts, Terminal
<1> QED  BY <1>1, <1>2, <1>3, <1>4, <1>5, OwnersNotify

LEMMA OwnersRead ==
    ASSUME IInv, Owners, NEW j \in Job,
           ReadDone(j) \/ ReadDoneLocal(j) \/ ReadFailed(j)
    PROVE  Owners'
<1>1. /\ pc = "read" /\ curl[j] # "none" /\ UNCHANGED list
      /\ d' = d \/ Update(j, [d[j] EXCEPT !.fired = TRUE])
  BY DEF ReadDone, ReadDoneLocal, ReadFailed
<1>2. j \notin BlockedJob /\ d[j] \in Handle /\ d \in [Job -> Handle]
  BY <1>1, TransferFacts DEF IInv, TypeOK
<1>3. \A k \in Job : Same(k)
  BY <1>1, <1>2 DEF Same, Update, Handle
<1>4. \/ Notify("finish", j, "remove") \/ Notify("fail", j, "remove")
      \/ Notify("response", j, "localFinish")
  BY DEF ReadDone, ReadDoneLocal, ReadFailed
<1>5. /\ {"finish", "fail", "response"} \subseteq Events
      /\ {"remove", "localFinish"} \subseteq Labels
      /\ Lasts("finish", "remove") /\ Lasts("fail", "remove")
      /\ Lasts("response", "localFinish")
  BY DEF Events, Labels, Lasts, Terminal
<1> QED  BY <1>1, <1>2, <1>3, <1>4, <1>5, OwnersNotify

LEMMA OwnersFireFailure ==
    ASSUME IInv, Owners, NEW j \in Job, FireFailure(j)
    PROVE  Owners'
<1>1. /\ pc = "idle" /\ Update(j, [d[j] EXCEPT !.failure = FALSE])
      /\ Notify("blocked", j, "idle") /\ list' = list
      /\ d[j] \in Handle /\ d \in [Job -> Handle]
  BY DEF FireFailure, IInv, TypeOK
<1>2. (\A k \in Job : Same(k)) /\ ~d'[j].failure
  BY <1>1 DEF Same, Update, Handle
<1>3. "blocked" \in Events /\ "idle" \in Labels /\ Lasts("blocked", "idle")
  BY DEF Events, Labels, Lasts, Terminal
<1> QED  BY <1>1, <1>2, <1>3, OwnersNotify

\* removeFromCurl, of the job that has had its last event if there is one.
LEMMA OwnersRemove ==
    ASSUME IInv, Owners, NEW j \in Job, curl[j] # "none", RemoveFromCurl(j),
           pc # "client", pc = "remove" => j = call.job, list' = list
    PROVE  Owners'
<1> DEFINE h == [d[j] EXCEPT !.easy = FALSE, !.paused = FALSE, !.begun = FALSE,
                             !.dropped = FALSE, !.ref = @ - 1,
                             !.cancelled = @ \/ d[j].ref = 1]
<1>1. /\ d[j] \in Handle /\ j \notin BlockedJob /\ pc' = "read"
      /\ d \in [Job -> Handle] /\ d' = [d EXCEPT ![j] = h]
  BY TransferFacts DEF RemoveFromCurl, IInv, TypeOK, Update
<1>2. h.held = d[j].held /\ h.client = d[j].client /\ ~h.easy
  BY <1>1 DEF Handle
<1> HIDE DEF h
<1>3. d'[j] = h /\ \A k \in Job \ {j} : d'[k] = d[k]
  BY <1>1
<1>4. \A k \in Job : Queued(k)' <=> Queued(k)
  BY DEF Queued
<1>5. Waiting' /\ Known'
  BY <1>2, <1>3, <1>4 DEF Owners, Waiting, Known
<1>6. Refusals'
  BY <1>1, <1>3, JobAssumption DEF Owners, Refusals
<1>7. LetGo'
  BY <1>2, <1>3 DEF Owners, LetGo, Abandoned, Removing
<1>8. LastEvents' /\ Paused'
  BY <1>1, <1>2, <1>3 DEF Owners, LastEvents, Paused, PauseKnown
<1> QED  BY <1>5, <1>6, <1>7, <1>8 DEF Owners

LEMMA OwnersRemovals ==
    ASSUME IInv, Owners, RemoveJob \/ \E j \in Job : ReadCancelled(j)
    PROVE  Owners'
<1>1. CASE RemoveJob
  <2>1. pc = "remove" /\ RemoveFromCurl(call.job) /\ list' = list
    BY <1>1 DEF RemoveJob
  <2>2. call.job \in Job /\ curl[call.job] # "none"
    BY <2>1 DEF IInv, TypeOK, CallInv, InCallback
  <2> QED  BY <2>1, <2>2, OwnersRemove
<1>2. ASSUME NEW j \in Job, ReadCancelled(j)
      PROVE  Owners'
  <2>1. pc = "read" /\ RemoveFromCurl(j) /\ list' = list /\ curl[j] # "none"
    BY <1>2 DEF ReadCancelled
  <2> QED  BY <2>1, OwnersRemove
<1> QED  BY <1>1, <1>2

LEMMA OwnersReadLocalFinish ==
    ASSUME IInv, Owners, ReadLocalFinish
    PROVE  Owners'
<1> DEFINE j == call.job
<1>1. /\ pc = "localFinish" /\ list' = list
      /\ \/ RemoveFromCurl(j)
         \/ Notify("finish", j, "remove") /\ d' = d
  BY DEF ReadLocalFinish
<1>2. j \in Job /\ curl[j] # "none"
  BY <1>1 DEF IInv, TypeOK, CallInv, InCallback
<1>3. j \notin BlockedJob
  BY <1>2, TransferFacts
<1>4. d' = d => \A k \in Job : Same(k)
  BY DEF Same
<1>5. "finish" \in Events /\ "remove" \in Labels /\ Lasts("finish", "remove")
  BY DEF Events, Labels, Lasts, Terminal
<1> HIDE DEF j
<1>6. CASE RemoveFromCurl(j)
  BY <1>1, <1>2, <1>6, OwnersRemove
<1>7. CASE Notify("finish", j, "remove") /\ d' = d
  BY <1>1, <1>2, <1>3, <1>4, <1>5, <1>7, OwnersNotify
<1> QED  BY <1>1, <1>6, <1>7

LEMMA OwnersWriteLocalData ==
    ASSUME IInv, Owners, WriteLocalData
    PROVE  Owners'
<1> DEFINE j == call.job
<1>1. /\ pc = "localData" /\ list' = list /\ d' = d
      /\ \/ pc' = "perform"
         \/ Notify("data", j, "perform")
  BY DEF WriteLocalData
<1>2. j \in Job /\ curl[j] # "none"
  BY <1>1 DEF IInv, TypeOK, CallInv, InCallback
<1>3. j \notin BlockedJob
  BY <1>2, TransferFacts
<1>4. \A k \in Job : Same(k)
  BY <1>1 DEF Same
<1>5. "data" \in Events /\ "perform" \in Labels /\ Lasts("data", "perform")
  BY DEF Events, Labels, Lasts, Terminal
<1> HIDE DEF j
<1>6. CASE pc' = "perform"
  BY <1>1, <1>6, OwnersStay DEF Queued
<1>7. CASE Notify("data", j, "perform")
  BY <1>1, <1>2, <1>3, <1>4, <1>5, <1>7, OwnersNotify
<1> QED  BY <1>1, <1>6, <1>7

LEMMA OwnersReturn ==
    ASSUME IInv, Owners, Return
    PROVE  Owners'
<1>1. /\ pc = "client" /\ pc' = call.ret /\ UNCHANGED <<d, list, call>>
      /\ call.event \in Terminal => ~d[call.job].held
  BY DEF Return
<1>2. pc' # "client"
  BY <1>1 DEF IInv, CallInv
<1>3. \A k \in Job : Queued(k)' <=> Queued(k)
  BY <1>1 DEF Queued
<1>4. Waiting' /\ Known' /\ Refusals' /\ Paused'
  BY <1>1, <1>2, <1>3 DEF Owners, Waiting, Known, Refusals, Paused
<1>5. LetGo'
  BY <1>1 DEF Owners, LetGo, Removing
<1>6. LastEvents'
  BY <1>1, <1>2 DEF Owners, LastEvents, Lasts
<1> QED  BY <1>4, <1>5, <1>6 DEF Owners

LEMMA OwnersDo ==
    ASSUME IInv, Owners, NEW j \in Job, Do(j) \/ StartOver(j)
    PROVE  Owners'
<1>1. /\ pc = "perform" /\ UNCHANGED <<list, pc>> /\ \A k \in Job : Same(k)
  BY DoFacts DEF Kept, Same
<1> QED  BY <1>1, OwnersMove DEF Queued

LEMMA OwnersReturnPaused ==
    ASSUME IInv, Owners, ReturnPaused
    PROVE  Owners'
<1>1. /\ pc = "client" /\ call.ret = "perform" /\ pc' = "perform"
      /\ UNCHANGED <<list, call>> /\ \A k \in Job : Kept(k)
  BY ReturnPausedFacts
<1>2. \A k \in Job : /\ Queued(k)' <=> Queued(k)
                     /\ Abandoned(d[k])' = Abandoned(d[k])
                     /\ PauseKnown(d[k]) => PauseKnown(d[k])'
  BY <1>1 DEF Kept, Queued, Abandoned, PauseKnown
<1>3. Waiting' /\ Known' /\ Paused'
  BY <1>1, <1>2 DEF Owners, Waiting, Known, Paused, Kept
<1>4. Refusals'
  BY <1>1, JobAssumption DEF Owners, Refusals, Kept
<1>5. LetGo'
  BY <1>1, <1>2 DEF Owners, LetGo, Removing
<1>6. LastEvents'
  BY <1>1 DEF LastEvents
<1> QED  BY <1>3, <1>4, <1>5, <1>6 DEF Owners

LEMMA OwnersInit == Init => Owners
<1> SUFFICES ASSUME Init
             PROVE  Owners
  OBVIOUS
<1>1. \A j \in Job : ~d[j].held /\ ~d[j].failure /\ ~d[j].easy
  BY DEF Init, NoHandle, NewHandle
<1>2. \A j \in Job : ~Queued(j)
  BY DEF Init, Queued, ToSet
<1> QED  BY <1>1, <1>2, JobAssumption
         DEF Init, Owners, Waiting, Known, Refusals, LetGo, Abandoned,
             LastEvents, Paused, PauseKnown

LEMMA OwnersNext == IInv /\ Owners /\ [Next]_vars => Owners'
<1> SUFFICES ASSUME IInv, Owners, [Next]_vars
             PROVE  Owners'
  OBVIOUS
<1>1. ASSUME NEW j \in Job, OwnerStep(j)
      PROVE  Owners'
  BY <1>1, OwnersCreate, OwnersCreateBlocked, OwnersCancelScheduled,
     OwnersCancelStarted, OwnersDefer, OwnersResume, OwnersResumeFails DEF OwnerStep
<1>2. ASSUME NEW j \in Job, CurlStep(j)
      PROVE  Owners'
  BY <1>2, OwnersQuiet, OwnersCallbacks, OwnersReadFails, OwnersDo DEF CurlStep
<1>3. ASSUME NEW j \in Job, ReadStep(j)
      PROVE  Owners'
  BY <1>3, OwnersRemovals, OwnersRead DEF ReadStep
<1>4. CASE ManagerStep
  BY <1>3, <1>4, OwnersStartTransfer, OwnersDataURL, OwnersQuiet,
     OwnersWriteLocalData, OwnersReadLocalFinish, OwnersRemovals DEF ManagerStep
<1>5. CASE UNCHANGED vars \/ CreateAndDelete
  BY <1>5, OwnersStutter DEF vars, CreateAndDelete
<1> QED
  BY <1>1, <1>2, <1>4, <1>5, OwnersFireFailure, OwnersRelease, OwnersReturn,
     OwnersReturnPaused, OwnersQuiet DEF Next

LEMMA OwnersInvariant == Spec => [](IInv /\ Owners)
BY InitialInvariant, NextInvariant, OwnersInit, OwnersNext, PTL DEF Spec

-----------------------------------------------------------------------------
(* Who is called, and when.                                                  *)

\* The three ways an owner comes to be called.
Delivery(j) == pc \in {"start", "dataBody", "dataEnd"} /\ j \in DataJob

Refusal(j) == pc = "idle" /\ j \in BlockedJob /\ d[j].failure

Progress(j) ==
    /\ pc \in {"perform", "localData", "read", "localFinish"}
    /\ curl[j] # "none"
    /\ ~d[j].cancelled
    /\ pc = "perform" => ~d[j].paused

LEMMA Calls ==
    ASSUME IInv, [Next]_vars, CallsOwner
    PROVE  call'.job \in Job
           /\ (Delivery(call'.job) \/ Refusal(call'.job) \/ Progress(call'.job))
<1> DEFINE Goal == call'.job \in Job
              /\ (Delivery(call'.job) \/ Refusal(call'.job) \/ Progress(call'.job))
<1>1. pc # "client" /\ pc' = "client"
  BY DEF CallsOwner
<1>2. call.job \in Job
  BY DEF IInv, TypeOK
<1>3. ASSUME NEW e, NEW j \in Job, NEW r, Notify(e, j, r), r # "client"
      PROVE  call'.job = j
  BY <1>1, <1>3 DEF Notify, Call
<1>4. ASSUME NEW j \in Job, OwnerStep(j)
      PROVE  FALSE
  BY <1>1, <1>4 DEF OwnerStep, Create, CreateBlocked, CancelScheduled, CancelStarted,
     Defer, Resume, ResumeFails, OwnerRuns
<1>5. ASSUME NEW j \in Job, CurlStep(j)
      PROVE  Goal
  <2>1. CASE HeaderRedirect(j) \/ HeaderResponse(j) \/ Write(j) \/ WriteLocal(j)
    <3>1. pc = "perform" /\ curl[j] # "none" /\ ~d[j].cancelled /\ ~d[j].paused
      BY <2>1 DEF HeaderRedirect, HeaderResponse, Write, WriteLocal, Callback, UnderWay
    <3>2. call'.job = j
      BY <1>3, <2>1 DEF HeaderRedirect, HeaderResponse, Write, WriteLocal
    <3> QED  BY <3>1, <3>2 DEF Progress
  <2>2. CASE \/ CallbackAborts(j) \/ ReadFails(j) \/ TransferEnds(j)
             \/ Do(j) \/ StartOver(j)
    BY <1>1, <2>2 DEF CallbackAborts, ReadFails, TransferEnds, Do, StartOver, Callback, UnderWay
  <2> QED  BY <1>5, <2>1, <2>2 DEF CurlStep
<1>6. ASSUME NEW j \in Job, ReadStep(j)
      PROVE  Goal
  <2>1. CASE ReadDone(j) \/ ReadDoneLocal(j) \/ ReadFailed(j)
    <3>1. pc = "read" /\ curl[j] # "none" /\ ~d[j].cancelled
      BY <2>1 DEF ReadDone, ReadDoneLocal, ReadFailed
    <3>2. call'.job = j
      BY <1>3, <2>1 DEF ReadDone, ReadDoneLocal, ReadFailed
    <3> QED  BY <3>1, <3>2 DEF Progress
  <2>2. ~ReadCancelled(j)
    BY <1>1 DEF ReadCancelled, RemoveFromCurl
  <2> QED  BY <1>6, <2>1, <2>2 DEF ReadStep
<1>7. ASSUME StartDataURL
      PROVE  Goal
  <2>1. Head(list) \in DataJob /\ call'.job = Head(list) /\ pc = "start"
    BY <1>7 DEF StartDataURL, Call
  <2> QED  BY <2>1, JobAssumption DEF Delivery
<1>8. ASSUME DataURLBody \/ DataURLEnd
      PROVE  Goal
  <2>1. pc \in {"dataBody", "dataEnd"} /\ call'.job = call.job
    BY <1>1, <1>8 DEF DataURLBody, DataURLEnd, Call
  <2>2. call.job \in DataJob
    BY <2>1 DEF IInv, CallInv, InCallback
  <2> QED  BY <1>2, <2>1, <2>2 DEF Delivery
<1>9. ASSUME WriteLocalData
      PROVE  Goal
  <2>1. pc = "localData" /\ ~d[call.job].cancelled /\ Notify("data", call.job, "perform")
    BY <1>1, <1>9 DEF WriteLocalData
  <2>2. curl[call.job] # "none"
    BY <2>1 DEF IInv, CallInv, InCallback
  <2> QED  BY <1>2, <1>3, <2>1, <2>2 DEF Progress
<1>10. ASSUME ReadLocalFinish
       PROVE  Goal
  <2>1. /\ pc = "localFinish" /\ ~d[call.job].cancelled
        /\ Notify("finish", call.job, "remove")
    BY <1>1, <1>10 DEF ReadLocalFinish, RemoveFromCurl
  <2>2. curl[call.job] # "none"
    BY <2>1 DEF IInv, CallInv, InCallback
  <2> QED  BY <1>2, <1>3, <2>1, <2>2 DEF Progress
<1>11. ASSUME NEW j \in Job, FireFailure(j)
       PROVE  Goal
  <2>1. pc = "idle" /\ d[j].failure /\ Notify("blocked", j, "idle")
    BY <1>11 DEF FireFailure
  <2>2. j \in BlockedJob
    BY <2>1 DEF IInv, FailureTimers
  <2> QED  BY <1>3, <2>1, <2>2 DEF Refusal
<1>12. ASSUME \/ StartTransfer \/ StartTransferFails \/ StartEnds \/ Select \/ SelectFails
              \/ PerformEnds \/ RemoveJob \/ ReadEnds \/ CallbackEnds
              \/ FireTimer \/ Release \/ CreateAndDelete \/ UNCHANGED vars
       PROVE  FALSE
  BY <1>1, <1>12 DEF StartTransfer, StartTransferFails, StartEnds, Select, SelectFails,
     PerformEnds, RemoveJob, RemoveFromCurl, ReadEnds, CallbackEnds, FireTimer,
     Release, CreateAndDelete, vars
<1>13. ASSUME Return \/ ReturnPaused
       PROVE  Goal
  BY <1>1, <1>13 DEF Return, ReturnPaused
<1>14. ASSUME ManagerStep
       PROVE  Goal
  BY <1>6, <1>7, <1>8, <1>9, <1>10, <1>12, <1>14 DEF ManagerStep
<1> HIDE DEF Goal
<1>15. Goal
  BY <1>4, <1>5, <1>11, <1>12, <1>13, <1>14 DEF Next
<1> QED  BY <1>15 DEF Goal

(***************************************************************************)
(* No event after a cancel: whoever is called still holds the handle and   *)
(* has not cancelled it, however owners and callbacks interleave.  Data    *)
(* URLs are left out, as in the property.                                  *)
(***************************************************************************)
THEOREM NoLateEvents == Spec => NoEventAfterCancel
<1>1. ASSUME IInv, Owners, NEW j \in Job, Refusal(j) \/ Progress(j)
      PROVE  d[j].held /\ ~d[j].cancelled
  <2>1. CASE Refusal(j)
    BY <1>1, <2>1 DEF Refusal, Owners, Refusals
  <2>2. CASE Progress(j)
    <3>1. d[j].easy
      BY <1>1, <2>2, TransferFacts DEF Progress
    <3>2. ~Removing(j)
      BY <2>2 DEF Progress, Removing
    <3> QED  BY <1>1, <2>2, <3>1, <3>2 DEF Progress, Owners, LetGo, Abandoned
  <2> QED  BY <1>1, <2>1, <2>2
<1>2. IInv /\ Owners /\ [Next]_vars
        => [CallsOwner /\ call'.job \notin DataJob =>
               d[call'.job].held /\ ~d[call'.job].cancelled]_vars
  BY <1>1, Calls DEF Delivery
<1> QED  BY <1>2, OwnersInvariant, PTL DEF Spec, NoEventAfterCancel

(***************************************************************************)
(* A callback reaches a deferred job only through a pause that libcurl has *)
(* dropped: wherever the job was deferred, the manager had paused its      *)
(* transfer.  (That callbacks never reach a deferred job, as their         *)
(* assertions say, is not so: libcurl does drop pauses.)                   *)
(***************************************************************************)
THEOREM DeferredMeansDropped == Spec => OnlyDroppedPauses
<1>1. ASSUME IInv, Owners, [Next]_vars, CallsOwner, pc = "perform",
             d[call'.job].defers
      PROVE  d[call'.job].dropped
  <2>1. call'.job \in Job /\ Progress(call'.job)
    BY <1>1, Calls DEF Delivery, Refusal
  <2>2. d[call'.job].easy
    BY <1>1, <2>1, TransferFacts DEF Progress
  <2> QED  BY <1>1, <2>1, <2>2 DEF Progress, Owners, Paused, PauseKnown
<1>2. IInv /\ Owners /\ [Next]_vars
        => [CallsOwner /\ pc = "perform" /\ d[call'.job].defers =>
               d[call'.job].dropped]_vars
  BY <1>1
<1> QED  BY <1>2, OwnersInvariant, PTL DEF Spec, OnlyDroppedPauses

-----------------------------------------------------------------------------
(* Polling.                                                                  *)

\* The thread is at one of these labels, or will be when the owner returns.
Within(labels) == pc \in labels \/ (pc = "client" /\ call.ret \in labels)

Reading == {"read", "localFinish", "remove"}
Starting == {"start", "dataBody", "dataEnd"}

(***************************************************************************)
(* What the end of the callback relies on: while messages are read, busy   *)
(* tells of every transfer that goes on; in the second                     *)
(* startScheduledJobs() only such transfers and new ones are left.  A slot *)
(* without a transfer is one whose job libcurl refused.                    *)
(***************************************************************************)
BusyWhileReading ==
    Within(Reading) => \A j \in Job : curl[j] = "transfer" => busy

BusyAtTheEnd ==
    pass = 2 /\ Within(Starting) => \A j \in Job : curl[j] # "none" => started \/ busy

NoLeak == "add" \notin Faults => \A j \in Job : d[j].easy => curl[j] # "none"

Polls == BusyWhileReading /\ BusyAtTheEnd /\ NoLeak

\* What most steps do to it: nothing.
LEMMA PollsFrame ==
    ASSUME Polls, NoLeak',
           \A j \in Job : /\ curl'[j] = "transfer" => curl[j] = "transfer"
                          /\ curl'[j] # "none" => curl[j] # "none",
           Within(Reading)' => Within(Reading),
           Within(Starting)' => Within(Starting) \/ ~(pass' = 2),
           pass' \in {pass, 1}, started' = started \/ pass' = 1, busy' = busy
    PROVE  Polls'
<1>1. BusyWhileReading'
  BY DEF Polls, BusyWhileReading
<1>2. BusyAtTheEnd'
  BY DEF Polls, BusyAtTheEnd
<1> QED  BY <1>1, <1>2 DEF Polls

\* A step that leaves the callback where it is, and every easy handle.
LEMMA PollsStay ==
    ASSUME Polls, UNCHANGED <<curl, pc, call, pass, started, busy>>,
           \A j \in Job : d'[j].easy => d[j].easy
    PROVE  Polls'
<1>1. NoLeak'
  BY DEF Polls, NoLeak
<1>2. /\ Within(Reading)' = Within(Reading)
      /\ Within(Starting)' = Within(Starting)
  BY DEF Within
<1> QED  BY <1>1, <1>2, PollsFrame

\* What owners do changes no easy handle but that of a new job, which has none.
LEMMA OwnersKeepSlots ==
    ASSUME IInv, \/ \E j \in Job : OwnerStep(j)
                 \/ Release \/ \E j \in Job : ReadFails(j)
                 \/ CreateAndDelete \/ UNCHANGED vars
    PROVE  /\ \A k \in Job : d'[k].easy => d[k].easy
           /\ UNCHANGED <<curl, pc, call, pass, started, busy>>
<1>1. d \in [Job -> Handle] /\ \A k \in Job : d[k] \in Handle
  BY DEF IInv, TypeOK
<1>2. ASSUME NEW j \in Job, OwnerStep(j)
      PROVE  /\ \A k \in Job : d'[k].easy => d[k].easy
             /\ UNCHANGED <<curl, pc, call, pass, started, busy>>
  <2>1. CASE Create(j) \/ CreateBlocked(j)
    BY <1>1, <2>1 DEF Create, CreateBlocked, Update, NewHandle, Handle, control
  <2>2. CASE CancelScheduled(j) \/ CancelStarted(j)
    <3>1. UNCHANGED <<curl, pc, call, pass, started, busy>>
      BY <2>2 DEF CancelScheduled, CancelStarted, control
    <3>2. CASE CancelStarted(j)
      BY <1>1, <3>1, <3>2 DEF CancelStarted, Update, Handle
    <3>3. CASE CancelScheduled(j)
      <4>1. Update(j, [d[j] EXCEPT !.ref = @ - 2, !.held = FALSE,
                              !.cancelled = @ \/ d[j].ref = 2])
        BY <3>3 DEF CancelScheduled
      <4> QED  BY <1>1, <3>1, <4>1 DEF Update, Handle
    <3> QED  BY <2>2, <3>2, <3>3
  <2>3. CASE Defer(j)
    BY <1>1, <2>3 DEF Defer, Update, Handle, control
  <2>4. CASE Resume(j) \/ ResumeFails(j)
    BY <1>1, <2>4 DEF Resume, ResumeFails, Update, Handle, control
  <2> QED  BY <1>2, <2>1, <2>2, <2>3, <2>4 DEF OwnerStep
<1>3. ASSUME Release
      PROVE  /\ \A k \in Job : d'[k].easy => d[k].easy
             /\ UNCHANGED <<curl, pc, call, pass, started, busy>>
  BY <1>1, <1>3 DEF Release, Update, Handle, control
<1>4. ASSUME NEW j \in Job, ReadFails(j)
      PROVE  /\ \A k \in Job : d'[k].easy => d[k].easy
             /\ UNCHANGED <<curl, pc, call, pass, started, busy>>
  BY <1>1, <1>4 DEF ReadFails, Update, Handle, control
<1>5. ASSUME CreateAndDelete \/ UNCHANGED vars
      PROVE  /\ \A k \in Job : d'[k].easy => d[k].easy
             /\ UNCHANGED <<curl, pc, call, pass, started, busy>>
  BY <1>5 DEF CreateAndDelete, vars, control
<1> QED  BY <1>2, <1>3, <1>4, <1>5

\* A transfer starts, or libcurl refuses it.
LEMMA PollsStart ==
    ASSUME IInv, Polls, StartTransfer \/ StartTransferFails
    PROVE  Polls'
<1> DEFINE j == Head(list)
<1>1. /\ pc = "start" /\ pc' = "start" /\ started' = TRUE
      /\ \A k \in Job \ {j} : d'[k] = d[k] /\ curl'[k] = curl[k]
      /\ "add" \in Faults \/ curl'[j] # "none"
  <2>1. j \in Job /\ d \in [Job -> Handle] /\ DOMAIN curl = Job
    BY TailFacts DEF StartTransfer, StartTransferFails, CanStart, IInv, TypeOK,
       OnePlace, Distinct
  <2> HIDE DEF j
  <2>2. /\ pc = "start" /\ pc' = "start" /\ started' = TRUE
        /\ \A k \in Job \ {j} : d'[k] = d[k]
    BY <2>1 DEF StartTransfer, StartTransferFails, Update, j
  <2>3. /\ \A k \in Job \ {j} : curl'[k] = curl[k]
        /\ "add" \in Faults \/ curl'[j] # "none"
    BY <2>1 DEF StartTransfer, StartTransferFails, j
  <2> QED  BY <2>2, <2>3
<1> HIDE DEF j
<1>2. NoLeak'
  BY <1>1 DEF Polls, NoLeak
<1>3. BusyWhileReading' /\ BusyAtTheEnd'
  BY <1>1 DEF BusyWhileReading, BusyAtTheEnd, Within, Reading
<1> QED  BY <1>2, <1>3 DEF Polls

\* The steps inside the callback that call an owner or go on, and keep d's slots.
LEMMA PollsQuiet ==
    ASSUME IInv, Polls,
           \A k \in Job : d'[k].easy => d[k].easy,
           curl' \in [Job -> {"none", "transfer", "done", "failed"}],
           \A k \in Job : /\ curl'[k] = "transfer" => curl[k] = "transfer"
                          /\ curl'[k] # "none" <=> curl[k] # "none",
           \/ Within(Reading) /\ ~Within(Starting)'
           \/ Within(Starting) /\ ~Within(Reading)'
           \/ ~Within(Reading)' /\ ~Within(Starting)',
           pass' = pass, started => started', busy' = busy
    PROVE  Polls'
<1>1. NoLeak'
  BY DEF Polls, NoLeak
<1>2. BusyWhileReading'
  BY DEF Polls, BusyWhileReading
<1>3. BusyAtTheEnd'
  BY DEF Polls, BusyAtTheEnd
<1> QED  BY <1>1, <1>2, <1>3 DEF Polls

\* removeFromCurl takes the slot and the transfer away together.
LEMMA PollsRemove ==
    ASSUME IInv, Polls, NEW j \in Job, RemoveFromCurl(j), Within(Reading),
           UNCHANGED <<call, pass, started, busy>>
    PROVE  Polls'
<1>1. /\ pc' = "read"
      /\ \A k \in Job \ {j} : d'[k] = d[k] /\ curl'[k] = curl[k]
      /\ curl'[j] = "none"
  BY DEF RemoveFromCurl, Update, IInv, TypeOK
<1>2. ~d'[j].easy
  BY DEF RemoveFromCurl, Update, IInv, TypeOK, Handle
<1>3. NoLeak'
  BY <1>1, <1>2 DEF Polls, NoLeak
<1>4. BusyWhileReading' /\ BusyAtTheEnd'
  BY <1>1 DEF Polls, BusyWhileReading, BusyAtTheEnd, Within, Starting
<1> QED  BY <1>3, <1>4 DEF Polls

\* Where a call to an owner leads.
LEMMA NotifyLeads ==
    ASSUME NEW e, NEW j, NEW r, Notify(e, j, r)
    PROVE  pc' = r \/ (pc' = "client" /\ call'.ret = r)
BY DEF Notify, Call

LEMMA PollsCallbacks ==
    ASSUME IInv, Polls,
           NEW j \in Job,
           \/ HeaderRedirect(j) \/ HeaderResponse(j) \/ Write(j) \/ WriteLocal(j)
           \/ CallbackAborts(j) \/ TransferEnds(j)
    PROVE  Polls'
<1>1. /\ d \in [Job -> Handle] /\ curl \in [Job -> {"none", "transfer", "done", "failed"}]
      /\ call \in [event : Events, job : Job, ret : Labels]
      /\ pc = "perform" /\ curl[j] = "transfer" /\ UNCHANGED <<pass, started, busy>>
  BY DEF IInv, TypeOK, HeaderRedirect, HeaderResponse, Write, WriteLocal,
         CallbackAborts, TransferEnds, Callback, UnderWay, control
<1>2. \A k \in Job : d'[k].easy = d[k].easy
  BY <1>1 DEF HeaderRedirect, HeaderResponse, Write, WriteLocal,
         CallbackAborts, TransferEnds, Update, Handle
<1>3. /\ curl' \in [Job -> {"none", "transfer", "done", "failed"}]
      /\ \A k \in Job : /\ curl'[k] = "transfer" => curl[k] = "transfer"
                        /\ curl'[k] # "none" <=> curl[k] # "none"
  BY <1>1 DEF HeaderRedirect, HeaderResponse, Write, WriteLocal,
         CallbackAborts, TransferEnds
<1>4. \/ \E e \in Events, r \in {"perform", "localData"} : Notify(e, j, r)
      \/ pc' = "perform"
  BY <1>1 DEF HeaderRedirect, HeaderResponse, Write, WriteLocal, Events,
         CallbackAborts, TransferEnds
<1>5. ~Within(Reading)' /\ ~Within(Starting)'
  BY <1>1, <1>4, NotifyLeads DEF Reading, Starting, Within
<1> QED  BY <1>1, <1>2, <1>3, <1>5, PollsQuiet

LEMMA PollsReads ==
    ASSUME IInv, Polls,
           NEW j \in Job, ReadDone(j) \/ ReadDoneLocal(j) \/ ReadFailed(j)
    PROVE  Polls'
<1>1. /\ d \in [Job -> Handle] /\ curl \in [Job -> {"none", "transfer", "done", "failed"}]
      /\ call \in [event : Events, job : Job, ret : Labels]
      /\ pc = "read" /\ UNCHANGED <<curl, pass, started, busy>>
  BY DEF IInv, TypeOK, ReadDone, ReadDoneLocal, ReadFailed, control
<1>2. \A k \in Job : d'[k].easy = d[k].easy
  BY <1>1 DEF ReadDone, ReadDoneLocal, ReadFailed, Update, Handle
<1>3. \E e \in Events, r \in {"localFinish", "remove"} : Notify(e, j, r)
  BY <1>1 DEF ReadDone, ReadDoneLocal, ReadFailed, Events, Terminal
<1>4. Within(Reading) /\ ~Within(Starting)'
  BY <1>1, <1>3, NotifyLeads DEF Reading, Starting, Within
<1> QED  BY <1>1, <1>2, <1>4, PollsQuiet

LEMMA PollsLocal ==
    ASSUME IInv, Polls, WriteLocalData \/ ReadLocalFinish
    PROVE  Polls'
<1> DEFINE j == call.job
<1>1. /\ j \in Job /\ curl \in [Job -> {"none", "transfer", "done", "failed"}]
      /\ call \in [event : Events, job : Job, ret : Labels]
  BY DEF IInv, TypeOK
<1>2. CASE WriteLocalData
  <2>1. /\ pc = "localData" /\ curl[j] = "transfer"
        /\ UNCHANGED <<d, pass, started, busy>>
    BY <1>2 DEF WriteLocalData, control, IInv, CallInv, InCallback
  <2>2. pc' = "perform" \/ Notify("data", j, "perform")
    BY <1>2 DEF WriteLocalData
  <2>3. ~Within(Reading)' /\ ~Within(Starting)'
    BY <1>1, <2>2, NotifyLeads DEF Reading, Starting, Within
  <2>4. curl' = curl \/ curl' = [curl EXCEPT ![j] = "failed"]
    BY <1>2 DEF WriteLocalData
  <2>5. /\ curl' \in [Job -> {"none", "transfer", "done", "failed"}]
        /\ \A k \in Job : /\ curl'[k] = "transfer" => curl[k] = "transfer"
                          /\ curl'[k] # "none" <=> curl[k] # "none"
    BY <1>1, <2>1, <2>4
  <2> QED  BY <2>1, <2>3, <2>5, PollsQuiet
<1>3. CASE ReadLocalFinish
  <2>1. /\ pc = "localFinish" /\ Within(Reading)
        /\ UNCHANGED <<pass, started, busy>>
    BY <1>3 DEF ReadLocalFinish, control, Within, Reading
  <2>2. CASE RemoveFromCurl(j) /\ UNCHANGED call
    BY <1>1, <2>1, <2>2, PollsRemove
  <2>3. CASE Notify("finish", j, "remove") /\ UNCHANGED <<d, curl>>
    <3>1. ~Within(Starting)'
      BY <1>1, <2>3, NotifyLeads DEF Starting, Within
    <3> QED  BY <1>1, <2>1, <2>3, <3>1, PollsQuiet
  <2> QED  BY <1>3, <2>2, <2>3 DEF ReadLocalFinish
<1> QED  BY <1>2, <1>3

LEMMA PollsRemovals ==
    ASSUME IInv, Polls, RemoveJob \/ \E j \in Job : ReadCancelled(j)
    PROVE  Polls'
<1>1. CASE RemoveJob
  <2>1. /\ call.job \in Job /\ RemoveFromCurl(call.job) /\ Within(Reading)
        /\ UNCHANGED <<call, pass, started, busy>>
    BY <1>1 DEF RemoveJob, control, Within, Reading, IInv, TypeOK
  <2> QED  BY <2>1, PollsRemove
<1>2. ASSUME NEW j \in Job, ReadCancelled(j)
      PROVE  Polls'
  <2>1. /\ RemoveFromCurl(j) /\ Within(Reading)
        /\ UNCHANGED <<call, pass, started, busy>>
    BY <1>2 DEF ReadCancelled, control, Within, Reading
  <2> QED  BY <2>1, PollsRemove
<1> QED  BY <1>1, <1>2

LEMMA PollsDataURL ==
    ASSUME IInv, Polls, StartDataURL \/ DataURLBody \/ DataURLEnd
    PROVE  Polls'
<1>1. /\ UNCHANGED <<d, curl, pass, busy>> /\ Within(Starting)
      /\ started => started'
  BY DEF StartDataURL, DataURLBody, DataURLEnd, control, Within, Starting
<1>2. \/ pc' = "client" /\ call'.ret \in {"start", "dataBody", "dataEnd"}
      \/ pc' = "dataEnd"
  BY DEF StartDataURL, DataURLBody, DataURLEnd, Call
<1>3. ~Within(Reading)'
  BY <1>2 DEF Within, Reading
<1>4. curl \in [Job -> {"none", "transfer", "done", "failed"}]
  BY DEF IInv, TypeOK
<1> QED  BY <1>1, <1>3, <1>4, PollsQuiet

LEMMA PollsSteps ==
    ASSUME IInv, Polls, StartEnds \/ Select \/ SelectFails \/ CallbackEnds
                        \/ \E j \in Job : FireFailure(j)
    PROVE  Polls'
<1>1. /\ d \in [Job -> Handle] /\ curl \in [Job -> {"none", "transfer", "done", "failed"}]
      /\ call \in [event : Events, job : Job, ret : Labels]
      /\ UNCHANGED <<curl, pass, started, busy>>
  BY DEF IInv, TypeOK, StartEnds, Select, SelectFails, CallbackEnds, FireFailure, control
<1>2. \A k \in Job : d'[k].easy = d[k].easy
  BY <1>1 DEF StartEnds, Select, SelectFails, CallbackEnds, FireFailure, Update, Handle
<1>3. \/ pc' \in {"idle", "select", "perform"}
      \/ \E j \in Job : Notify("blocked", j, "idle")
  BY DEF StartEnds, Select, SelectFails, CallbackEnds, FireFailure
<1>4. ~Within(Reading)' /\ ~Within(Starting)'
  BY <1>1, <1>3, NotifyLeads DEF Reading, Starting, Within
<1> QED  BY <1>1, <1>2, <1>4, PollsQuiet

LEMMA PollsFireTimer ==
    ASSUME Polls, FireTimer
    PROVE  Polls'
<1>1. /\ UNCHANGED <<d, curl, busy>> /\ pass' = 1 /\ pc' = "start"
  BY DEF FireTimer
<1> QED  BY <1>1 DEF Polls, BusyWhileReading, BusyAtTheEnd, NoLeak, Within, Reading

LEMMA PollsReturn ==
    ASSUME Polls, Return
    PROVE  Polls'
<1>1. /\ UNCHANGED <<d, curl, call, pass, started, busy>>
      /\ pc = "client" /\ pc' = call.ret
  BY DEF Return, control
<1>2. /\ Within(Reading)' => Within(Reading)
      /\ Within(Starting)' => Within(Starting)
  BY <1>1 DEF Within, Reading, Starting
<1> QED  BY <1>1, <1>2, PollsFrame DEF Polls, NoLeak

LEMMA PollsDo ==
    ASSUME IInv, Polls, NEW j \in Job, Do(j) \/ StartOver(j)
    PROVE  Polls'
<1>1. /\ UNCHANGED <<curl, pc, call, pass, started, busy>>
      /\ \A k \in Job : d'[k].easy => d[k].easy
  BY DoFacts DEF Kept
<1> QED  BY <1>1, PollsStay

LEMMA PollsReturnPaused ==
    ASSUME IInv, Polls, ReturnPaused
    PROVE  Polls'
<1>1. /\ pc' = "perform" /\ UNCHANGED <<pass, started, busy>>
      /\ curl' \in [Job -> {"none", "transfer", "done", "failed"}]
      /\ \A k \in Job : /\ curl'[k] = "transfer" => curl[k] = "transfer"
                        /\ curl'[k] # "none" <=> curl[k] # "none"
                        /\ d'[k].easy => d[k].easy
  BY ReturnPausedFacts DEF Kept
<1>2. ~Within(Reading)' /\ ~Within(Starting)'
  BY <1>1 DEF Within, Reading, Starting
<1> QED  BY <1>1, <1>2, PollsQuiet

LEMMA PollsPerformEnds ==
    ASSUME Polls, PerformEnds
    PROVE  Polls'
<1>1. /\ UNCHANGED <<d, curl>> /\ pc' = "read"
      /\ busy' = \E j \in Job : curl[j] = "transfer"
  BY DEF PerformEnds
<1>2. BusyWhileReading'
  BY <1>1 DEF BusyWhileReading
<1>3. BusyAtTheEnd' /\ NoLeak'
  BY <1>1 DEF Polls, BusyAtTheEnd, NoLeak, Within, Starting
<1> QED  BY <1>2, <1>3 DEF Polls

LEMMA PollsReadEnds ==
    ASSUME IInv, Polls, ReadEnds
    PROVE  Polls'
<1>1. /\ UNCHANGED <<d, curl, busy>> /\ pc = "read" /\ pc' = "start"
      /\ \A j \in Job : curl[j] \notin {"done", "failed"}
  BY DEF ReadEnds
<1>2. \A j \in Job : curl[j] # "none" => busy
  BY <1>1 DEF IInv, TypeOK, Polls, BusyWhileReading, Within, Reading
<1>3. BusyWhileReading' /\ BusyAtTheEnd' /\ NoLeak'
  BY <1>1, <1>2 DEF Polls, BusyWhileReading, BusyAtTheEnd, NoLeak, Within, Reading
<1> QED  BY <1>3 DEF Polls

LEMMA PollsInit == Init => Polls
<1> SUFFICES ASSUME Init
             PROVE  Polls
  OBVIOUS
<1>1. NoLeak
  BY DEF Init, NoLeak, NoHandle, NewHandle
<1>2. BusyWhileReading /\ BusyAtTheEnd
  BY DEF Init, BusyWhileReading, BusyAtTheEnd, Within, Reading, Starting
<1> QED  BY <1>1, <1>2 DEF Polls

LEMMA PollsNext == IInv /\ Polls /\ [Next]_vars => Polls'
<1> SUFFICES ASSUME IInv, Polls, [Next]_vars
             PROVE  Polls'
  OBVIOUS
<1>1. ASSUME \/ \E j \in Job : OwnerStep(j)
             \/ Release \/ \E j \in Job : ReadFails(j)
             \/ CreateAndDelete \/ UNCHANGED vars
      PROVE  Polls'
  BY <1>1, OwnersKeepSlots, PollsStay
<1>2. ASSUME NEW j \in Job, CurlStep(j)
      PROVE  Polls'
  BY <1>1, <1>2, PollsCallbacks, PollsDo DEF CurlStep
<1>3. ASSUME NEW j \in Job, ReadStep(j)
      PROVE  Polls'
  BY <1>3, PollsRemovals, PollsReads DEF ReadStep
<1>4. CASE ManagerStep
  BY <1>3, <1>4, PollsStart, PollsDataURL, PollsSteps, PollsLocal, PollsPerformEnds,
     PollsRemovals, PollsReadEnds DEF ManagerStep
<1> QED
  BY <1>1, <1>2, <1>4, PollsSteps, PollsReturn, PollsReturnPaused, PollsFireTimer DEF Next

LEMMA PollsInvariant == Spec => [](IInv /\ Polls)
BY InitialInvariant, NextInvariant, PollsInit, PollsNext, PTL DEF Spec

\* A step that ends between two callbacks leaves the timer set.
LEMMA PollStep ==
    ASSUME IInv, Polls, [Next]_vars, PollScheduled, ~SlotLeaked, ~SelectFails
    PROVE  PollScheduled'
<1> DEFINE Wanted == list # <<>> \/ \E j \in Job : curl[j] # "none"
<1> SUFFICES ASSUME BetweenCallbacks', Wanted'
             PROVE  timer'
  BY DEF PollScheduled
<1>1. CASE CallbackEnds
  <2>1. /\ pc = "start" /\ pass = 2 /\ ~CanStart /\ timer' = (timer \/ started \/ busy)
        /\ UNCHANGED <<list, curl>>
    BY <1>1 DEF CallbackEnds
  <2>2. (\E j \in Job : curl[j] # "none") => started \/ busy
    BY <2>1 DEF Polls, BusyAtTheEnd, Within, Starting
  <2>3. list # <<>> => \E j \in Job : d[j].easy
    <3>1. SUFFICES ASSUME list # <<>>, Running = {}
                   PROVE  FALSE
      BY DEF Running
    <3>2. Cardinality(Running) = 0
      BY <3>1, FS_EmptySet
    <3> QED  BY <2>1, <3>1, <3>2, SlotAssumption DEF CanStart, IInv, SlotAccounting
  <2> QED  BY <2>1, <2>2, <2>3 DEF SlotLeaked
<1>2. ASSUME BetweenCallbacks, Wanted, timer => timer'
      PROVE  timer'
  BY <1>2 DEF PollScheduled
<1>3. ASSUME NEW j \in Job, OwnerStep(j)
      PROVE  timer'
  <2>1. BetweenCallbacks
    BY <1>3 DEF BetweenCallbacks, OwnerStep, Create, CreateBlocked, CancelScheduled,
       CancelStarted, Defer, Resume, ResumeFails
  <2>2. CASE Create(j) \/ CancelStarted(j) \/ ResumeFails(j)
    BY <2>2 DEF Create, CancelStarted, ResumeFails
  <2>3. CASE CreateBlocked(j) \/ Defer(j) \/ Resume(j)
    BY <1>2, <2>1, <2>3 DEF CreateBlocked, Defer, Resume
  <2>4. CASE CancelScheduled(j)
    <3>1. Queued(j) /\ d[j].held /\ timer' = (timer \/ d[j].ref = 2)
      BY <2>4, MemberFacts DEF CancelScheduled, Queued, IInv, TypeOK
    <3>2. d[j].ref = 2
      BY <3>1 DEF IInv, RefAccounting, DataReferences, OnePlace, Bit
    <3> QED  BY <3>1, <3>2
  <2> QED  BY <1>3, <2>2, <2>3, <2>4 DEF OwnerStep
<1>4. CASE Release \/ UNCHANGED vars \/ CreateAndDelete
  <2>1. UNCHANGED <<pc, call, list, curl>>
    BY <1>4 DEF Release, CreateAndDelete, vars
  <2>2. timer => timer'
    <3>1. CASE Release
      BY <3>1 DEF Release
    <3>2. CASE UNCHANGED vars \/ CreateAndDelete
      BY <3>2 DEF CreateAndDelete, vars
    <3> QED  BY <1>4, <3>1, <3>2
  <2>3. BetweenCallbacks
    BY <2>1 DEF BetweenCallbacks
  <2>4. Wanted
    BY <2>1
  <2> QED  BY <1>2, <2>2, <2>3, <2>4
<1>5. CASE Return \/ \E j \in Job : FireFailure(j)
  <2>1. BetweenCallbacks /\ UNCHANGED <<list, curl, timer>>
    BY <1>5 DEF Return, FireFailure, BetweenCallbacks
  <2>2. Wanted
    BY <2>1
  <2>3. timer => timer'
    BY <2>1
  <2> QED  BY <1>2, <2>1, <2>2, <2>3
<1>6. ASSUME NEW j \in Job, CurlStep(j)
      PROVE  FALSE
  <2>1. \/ pc = "perform" /\ pc' = pc
        \/ \E e \in Events, r \in {"perform", "localData"} : Notify(e, j, r)
        \/ pc' = "perform"
    BY <1>6 DEF CurlStep, CallbackAborts, HeaderRedirect, HeaderResponse, Write,
       WriteLocal, ReadFails, TransferEnds, Do, StartOver, Callback, UnderWay, Events
  <2> QED  BY <2>1, NotifyLeads DEF BetweenCallbacks
<1>7. ASSUME NEW j \in Job, ReadStep(j)
      PROVE  FALSE
  <2>1. \/ \E e \in Events, r \in {"localFinish", "remove"} : Notify(e, j, r)
        \/ pc' = "read"
    BY <1>7 DEF ReadStep, ReadCancelled, ReadDone, ReadDoneLocal, ReadFailed,
       RemoveFromCurl, Events, Terminal
  <2> QED  BY <2>1, NotifyLeads DEF BetweenCallbacks
<1>8. CASE WriteLocalData \/ ReadLocalFinish
  <2>1. \/ Notify("data", call.job, "perform") \/ Notify("finish", call.job, "remove")
        \/ pc' \in {"perform", "read"}
    BY <1>8 DEF WriteLocalData, ReadLocalFinish, RemoveFromCurl
  <2> QED  BY <2>1, NotifyLeads DEF BetweenCallbacks
<1>9. CASE \/ FireTimer \/ StartTransfer \/ StartTransferFails \/ StartEnds \/ Select
           \/ PerformEnds \/ RemoveJob \/ ReadEnds
  <2>1. pc' \in {"start", "select", "perform", "read"}
    BY <1>9 DEF FireTimer, StartTransfer, StartTransferFails, StartEnds, Select,
       PerformEnds, RemoveJob, RemoveFromCurl, ReadEnds
  <2> QED  BY <2>1 DEF BetweenCallbacks
<1>10. CASE StartDataURL \/ DataURLBody \/ DataURLEnd
  <2>1. \/ pc' = "client" /\ call'.ret \in {"start", "dataBody", "dataEnd"}
        \/ pc' = "dataEnd"
    BY <1>10 DEF StartDataURL, DataURLBody, DataURLEnd, Call
  <2> QED  BY <2>1 DEF BetweenCallbacks
<1>11. CASE ManagerStep
  BY <1>1, <1>7, <1>8, <1>9, <1>10, <1>11 DEF ManagerStep
<1>12. CASE FireTimer \/ ReturnPaused
  <2>1. ~ReturnPaused
    BY DEF ReturnPaused, BetweenCallbacks
  <2> QED  BY <1>9, <1>12, <2>1
<1>13. \/ \E j \in Job : OwnerStep(j) \/ CurlStep(j) \/ FireFailure(j)
       \/ ManagerStep \/ Release \/ Return \/ ReturnPaused \/ FireTimer \/ CreateAndDelete
          \/ UNCHANGED vars
  BY DEF Next
<1> QED  BY <1>3, <1>4, <1>5, <1>6, <1>11, <1>12, <1>13

(***************************************************************************)
(* The one-shot timer is not lost by any step but a failed select(), as    *)
(* long as libcurl has refused no job: whatever owners do at any of the    *)
(* steps of the callback.                                                  *)
(***************************************************************************)
THEOREM TimerKept == Spec => PollKept
<1>1. IInv /\ Polls /\ [Next]_vars
        => [PollScheduled /\ ~SlotLeaked => PollScheduled' \/ SelectFails]_vars
  BY PollStep
<1> QED  BY <1>1, PollsInvariant, PTL DEF Spec, PollKept

(***************************************************************************)
(* Between two callbacks, as long as a job waits or a transfer runs, the   *)
(* timer is set: if neither select() nor curl_multi_add_handle() fails.    *)
(***************************************************************************)
THEOREM TimerSet ==
    ASSUME "select" \notin Faults, "add" \notin Faults
    PROVE  Spec => []PollScheduled
<1>1. Init => PollScheduled
  BY DEF Init, PollScheduled
<1>2. ASSUME IInv, Polls, [Next]_vars, PollScheduled
      PROVE  PollScheduled'
  <2>1. ~SlotLeaked
    BY <1>2 DEF SlotLeaked, Polls, NoLeak
  <2>2. ~SelectFails
    BY DEF SelectFails
  <2> QED  BY <1>2, <2>1, <2>2, PollStep
<1>3. IInv /\ Polls /\ PollScheduled /\ [Next]_vars => PollScheduled'
  BY <1>2
<1> QED  BY <1>1, <1>3, PollsInvariant, PTL DEF Spec

-----------------------------------------------------------------------------
(* The abstract service.                                                     *)

Owed == {j \in Job : d[j].held /\ ~d[j].cancelled}

\* What the service sees of a step.
ServiceStep == Service!SNext \/ UNCHANGED Service!svars

LEMMA ServiceStutter ==
    ASSUME list' = list, Running' = Running, ServedInline' = ServedInline, Owed' = Owed
    PROVE  ServiceStep
BY DEF ServiceStep, Service!svars, Owed

LEMMA ServiceAsk ==
    ASSUME NEW j \in Job, Running' = Running, ServedInline' = ServedInline,
           j \notin Owed \cup Running \cup ServedInline, ~Queued(j),
           Owed' = Owed \cup {j}, list' = list \/ list' = Append(list, j)
    PROVE  ServiceStep
<1>1. Service!Ask(j)
  BY DEF Service!Ask, Service!ToSet, Queued, ToSet, Owed
<1> QED  BY <1>1 DEF ServiceStep, Service!SNext

LEMMA ServiceSettle ==
    ASSUME NEW j \in Job, list' = list, Running' = Running,
           ServedInline' = ServedInline, ~Queued(j), Owed' = Owed \ {j}
    PROVE  ServiceStep
<1>1. CASE j \in Owed
  <2>1. Service!Settle(j)
    BY <1>1 DEF Service!Settle, Service!ToSet, Queued, ToSet, Owed
  <2> QED  BY <2>1 DEF ServiceStep, Service!SNext
<1>2. CASE j \notin Owed
  <2>1. Owed' = Owed
    BY <1>2
  <2> QED  BY <2>1, ServiceStutter
<1> QED  BY <1>1, <1>2

LEMMA ServiceWithdraw ==
    ASSUME NEW j \in Job, Running' = Running, ServedInline' = ServedInline,
           j \in Owed, Owed' = Owed \ {j},
           NEW i \in 1..Len(list), list[i] = j, list' = RemoveAt(list, i)
    PROVE  ServiceStep
<1>1. Service!Withdraw(j)
  BY DEF Service!Withdraw, Service!RemoveAt, RemoveAt, Owed
<1> QED  BY <1>1 DEF ServiceStep, Service!SNext

LEMMA ServiceAdmit ==
    ASSUME IInv, list # <<>>, runningJobs < MaxRunningJobs,
           ServedInline = {}, Head(list) \in Owed, list' = Tail(list),
           Running' \cup ServedInline' = Running \cup {Head(list)},
           Owed' = Owed \/ Owed' = Owed \ {Head(list)}
    PROVE  ServiceStep
<1>1. Running \cup ServedInline = Running
  OBVIOUS
<1>2. Cardinality(Running \cup ServedInline) < MaxRunningJobs
  BY <1>1 DEF IInv, SlotAccounting
<1>3. Service!Cardinality(Running \cup ServedInline) < MaxRunningJobs
  BY <1>2 DEF Service!Cardinality, Cardinality
<1>4. Service!Admit
  BY <1>1, <1>3 DEF Service!Admit, Owed
<1> QED  BY <1>4 DEF ServiceStep, Service!SNext

LEMMA ServiceRetire ==
    ASSUME NEW j \in Job, list' = list, j \in Running \cup ServedInline, j \notin Owed,
           Running' \cup ServedInline' = (Running \cup ServedInline) \ {j},
           Owed' = Owed
    PROVE  ServiceStep
<1>1. Service!Retire(j)
  BY DEF Service!Retire, Owed
<1> QED  BY <1>1 DEF ServiceStep, Service!SNext

\* What a change of one handle does to the sets.
LEMMA SetsUpdate ==
    ASSUME TypeOK, NEW j \in Job, NEW h, Update(j, h)
    PROVE  /\ h.easy => Running' = Running \cup {j}
           /\ ~h.easy => Running' = Running \ {j}
           /\ h.held /\ ~h.cancelled => Owed' = Owed \cup {j}
           /\ ~(h.held /\ ~h.cancelled) => Owed' = Owed \ {j}
<1>1. d'[j] = h /\ \A k \in Job \ {j} : d'[k] = d[k]
  BY DEF TypeOK, Update
<1>2. /\ h.easy => Running' = Running \cup {j}
      /\ ~h.easy => Running' = Running \ {j}
  BY <1>1 DEF Running
<1>3. /\ h.held /\ ~h.cancelled => Owed' = Owed \cup {j}
      /\ ~(h.held /\ ~h.cancelled) => Owed' = Owed \ {j}
  BY <1>1 DEF Owed
<1> QED  BY <1>2, <1>3

\* ... and when the flag stays as it was.
LEMMA SetsKeep ==
    ASSUME TypeOK, NEW j \in Job, NEW h, Update(j, h)
    PROVE  /\ h.easy = d[j].easy => Running' = Running
           /\ h.held = d[j].held /\ h.cancelled = d[j].cancelled => Owed' = Owed
<1>1. d'[j] = h /\ \A k \in Job \ {j} : d'[k] = d[k]
  BY DEF TypeOK, Update
<1>2. h.easy = d[j].easy => Running' = Running
  BY <1>1 DEF Running
<1>3. h.held = d[j].held /\ h.cancelled = d[j].cancelled => Owed' = Owed
  BY <1>1 DEF Owed
<1> QED  BY <1>2, <1>3

\* Nobody is served inline, unless a data URL is being delivered.
LEMMA NotInline ==
    ASSUME IInv
    PROVE  /\ pc \notin {"dataBody", "dataEnd", "client"} => ServedInline = {}
           /\ pc = "client" /\ call.ret \notin {"start", "dataBody", "dataEnd"}
                 => ServedInline = {}
           /\ pc \in {"dataBody", "dataEnd"}
              \/ (pc = "client" /\ call.ret \in {"start", "dataBody", "dataEnd"})
                 => ServedInline = {call.job} /\ call.job \in DataJob
<1>1. pc \notin {"dataBody", "dataEnd", "client"} => ServedInline = {}
  BY DEF ServedInline
<1>2. pc \in {"dataBody", "dataEnd"}
      \/ (pc = "client" /\ call.ret \in {"start", "dataBody", "dataEnd"})
         => ServedInline = {call.job} /\ call.job \in DataJob
  BY DEF ServedInline, IInv, CallInv, InCallback
<1>3. pc = "client" /\ call.ret \notin {"start", "dataBody", "dataEnd"}
         => call.job \notin DataJob
  BY JobAssumption DEF IInv, CallInv, InCallback, DataReferences
<1> QED  BY <1>1, <1>2, <1>3 DEF ServedInline

LEMMA SameInline ==
    ASSUME UNCHANGED <<pc, call>>
    PROVE  ServedInline' = ServedInline
BY DEF ServedInline

LEMMA ServesCreate ==
    ASSUME IInv, NEW j \in Job, Create(j) \/ CreateBlocked(j)
    PROVE  ServiceStep
<1> DEFINE g == [NewHandle EXCEPT !.ref = 2]
           h == [NewHandle EXCEPT !.failure = TRUE]
<1>1. /\ TypeOK /\ UNCHANGED <<pc, call>> /\ pc \in {"idle", "client"}
      /\ Update(j, g) \/ Update(j, h)
      /\ list' = list \/ list' = Append(list, j)
      /\ d[j].ref = 0 /\ ~(pc = "client" /\ call.job = j)
  BY DEF IInv, Create, CreateBlocked, Free, OwnerRuns
<1>2. g.held /\ ~g.cancelled /\ ~g.easy /\ h.held /\ ~h.cancelled /\ ~h.easy
  BY DEF NewHandle
<1>3. d[j].ref = 0 => ~d[j].held /\ ~d[j].easy /\ ~Queued(j)
  BY DEF IInv, RefAccounting, DataReferences, Bit
<1>4. ~d[j].held /\ ~d[j].easy /\ ~Queued(j)
  BY <1>1, <1>3
<1> HIDE DEF g, h
<1>5. Running' = Running /\ Owed' = Owed \cup {j}
  <2>1. PICK f : Update(j, f) /\ f.held /\ ~f.cancelled /\ ~f.easy
    BY <1>1, <1>2
  <2>2. Running' = Running \ {j} /\ Owed' = Owed \cup {j}
    BY <1>1, <2>1, SetsUpdate
  <2> QED  BY <1>4, <2>2 DEF Running
<1>6. ServedInline' = ServedInline /\ j \notin ServedInline
  BY <1>1, SameInline DEF ServedInline
<1>7. j \notin Owed \cup Running \cup ServedInline
  BY <1>4, <1>6 DEF Owed, Running
<1> QED  BY <1>1, <1>4, <1>5, <1>6, <1>7, ServiceAsk

LEMMA ServesCancelScheduled ==
    ASSUME IInv, NEW j \in Job, CancelScheduled(j)
    PROVE  ServiceStep
<1> DEFINE h == [d[j] EXCEPT !.ref = @ - 2, !.held = FALSE,
                             !.cancelled = @ \/ d[j].ref = 2]
<1>1. /\ TypeOK /\ UNCHANGED <<pc, call>> /\ d[j].held /\ Update(j, h)
      /\ d[j] \in Handle
  BY DEF IInv, CancelScheduled, TypeOK
<1>2. PICK i \in 1..Len(list) : list[i] = j /\ list' = RemoveAt(list, i)
  BY DEF CancelScheduled
<1>3. Queued(j)
  BY <1>1, <1>2, MemberFacts DEF TypeOK, Queued
<1>4. h.easy = d[j].easy /\ ~h.held
  BY <1>1 DEF Handle
<1> HIDE DEF h
<1>5. Running' = Running /\ Owed' = Owed \ {j}
  BY <1>1, <1>4, SetsUpdate, SetsKeep
<1>6. j \in Owed
  BY <1>1, <1>3 DEF IInv, OnePlace, Owed
<1> QED  BY <1>1, <1>2, <1>5, <1>6, SameInline, ServiceWithdraw

LEMMA ServesSettle ==
    ASSUME IInv, NEW j \in Job,
           CancelStarted(j) \/ ResumeFails(j) \/ ReadFails(j)
    PROVE  ServiceStep
<1>1. /\ TypeOK /\ UNCHANGED <<list, pc, call>> /\ d[j] \in Handle
      /\ DOMAIN d = Job
  BY DEF IInv, CancelStarted, ResumeFails, ReadFails, TypeOK
<1>2. ~Queued(j)
  BY DEF IInv, OnePlace, CancelStarted, ResumeFails, ReadFails, Callback, UnderWay
<1>3. d'[j].easy = d[j].easy /\ d'[j].cancelled
  BY <1>1 DEF CancelStarted, ResumeFails, ReadFails, Update, Handle
<1>4. Update(j, d'[j])
  BY <1>1 DEF CancelStarted, ResumeFails, ReadFails, Update
<1>5. PICK h : h = d'[j]
  OBVIOUS
<1>6. Update(j, h) /\ h.easy = d[j].easy /\ h.cancelled
  BY <1>3, <1>4, <1>5
<1>7. Running' = Running /\ Owed' = Owed \ {j}
  BY <1>1, <1>6, SetsUpdate, SetsKeep
<1> QED  BY <1>1, <1>2, <1>7, SameInline, ServiceSettle

LEMMA ServesRelease ==
    ASSUME IInv, Release
    PROVE  ServiceStep
<1> DEFINE j == call.job
           h(c) == [d[j] EXCEPT !.ref = @ - 1, !.held = FALSE, !.client = c,
                                !.cancelled = @ \/ d[j].ref = 1]
<1>1. /\ TypeOK /\ pc = "client" /\ UNCHANGED <<list, pc, call>>
      /\ j \in Job /\ d[j] \in Handle /\ ~Queued(j)
  BY DEF IInv, Release, TypeOK, CallInv
<1>2. PICK c : Update(j, h(c))
  BY DEF Release
<1>3. h(c).easy = d[j].easy /\ ~h(c).held
  BY <1>1 DEF Handle
<1> HIDE DEF j, h
<1>4. Running' = Running /\ Owed' = Owed \ {j}
  BY <1>1, <1>2, <1>3, SetsUpdate, SetsKeep
<1> QED  BY <1>1, <1>4, SameInline, ServiceSettle

LEMMA ServesDefer ==
    ASSUME IInv, NEW j \in Job, Defer(j) \/ Resume(j)
    PROVE  ServiceStep
<1>1. /\ TypeOK /\ UNCHANGED <<list, pc, call>> /\ d[j] \in Handle
      /\ \A k \in Job \ {j} : d'[k] = d[k]
  BY DEF IInv, Defer, Resume, Update, TypeOK
<1>2. /\ d'[j].easy = d[j].easy /\ d'[j].held = d[j].held
      /\ d'[j].cancelled = d[j].cancelled
  <2>1. CASE Defer(j)
    BY <1>1, <2>1 DEF TypeOK, Defer, Update, Handle
  <2>2. CASE Resume(j)
    BY <1>1, <2>2 DEF TypeOK, Resume, Update, Handle
  <2> QED  BY <2>1, <2>2
<1>3. Running' = Running /\ Owed' = Owed
  BY <1>1, <1>2 DEF Running, Owed
<1> QED  BY <1>1, <1>3, SameInline, ServiceStutter

LEMMA ServesReturn ==
    ASSUME IInv, Owners, Return
    PROVE  ServiceStep
<1>1. /\ pc = "client" /\ pc' = call.ret /\ UNCHANGED <<d, list, call>>
      /\ call.event \in Terminal => ~d[call.job].held
      /\ call.job \in Job
  BY DEF Return, IInv, TypeOK
<1>2. Running' = Running /\ Owed' = Owed
  BY <1>1 DEF Running, Owed
<1>3. pc' # "client"
  BY <1>1 DEF IInv, CallInv
<1>4. CASE call.ret = "start"
  <2>1. ServedInline = {call.job} /\ call.job \in DataJob
    BY <1>1, <1>4, NotInline
  <2>2. ServedInline' = {}
    BY <1>1, <1>4 DEF ServedInline
  <2>3. call.job \notin Owed
    BY <1>1, <1>4 DEF Owners, LastEvents, Lasts, Owed
  <2>4. call.job \notin Running
    BY <2>1 DEF IInv, DataReferences, Running
  <2> QED  BY <1>1, <1>2, <2>1, <2>2, <2>3, <2>4, ServiceRetire
<1>5. CASE call.ret \in {"dataBody", "dataEnd"}
  <2>1. ServedInline = {call.job}
    BY <1>1, <1>5, NotInline
  <2>2. ServedInline' = {call.job}
    BY <1>1, <1>5 DEF ServedInline
  <2> QED  BY <1>1, <1>2, <2>1, <2>2, ServiceStutter
<1>6. CASE call.ret \notin {"start", "dataBody", "dataEnd"}
  <2>1. ServedInline = {}
    BY <1>1, <1>6, NotInline
  <2>2. ServedInline' = {}
    BY <1>1, <1>3, <1>6 DEF ServedInline
  <2> QED  BY <1>1, <1>2, <2>1, <2>2, ServiceStutter
<1> QED  BY <1>4, <1>5, <1>6

LEMMA ServesStart ==
    ASSUME IInv, Owners, StartTransfer \/ StartTransferFails
    PROVE  ServiceStep
<1> DEFINE j == Head(list)
           g == [d[j] EXCEPT !.easy = TRUE, !.paused = d[j].defers]
           h == [d[j] EXCEPT !.easy = TRUE, !.paused = d[j].defers,
                             !.cancelled = TRUE]
<1>1. /\ TypeOK /\ pc = "start" /\ list # <<>> /\ runningJobs < MaxRunningJobs
      /\ list' = Tail(list) /\ UNCHANGED <<pc, call>>
      /\ Update(j, g) \/ Update(j, h)
  BY DEF StartTransfer, StartTransferFails, CanStart, IInv
<1>2. j \in Job /\ Queued(j) /\ d[j] \in Handle
  BY <1>1, TailFacts DEF IInv, TypeOK, OnePlace, Distinct, Queued
<1>3. j \in Owed
  BY <1>2 DEF IInv, OnePlace, Owners, Waiting, Owed
<1>4. g.easy /\ h.easy /\ h.cancelled /\ g.held = d[j].held /\ g.cancelled = d[j].cancelled
  BY <1>2 DEF Handle
<1>5. ServedInline = {} /\ ServedInline' = {}
  BY <1>1 DEF ServedInline
<1> HIDE DEF g, h, j
<1>6. CASE Update(j, g)
  <2>1. Running' = Running \cup {j} /\ Owed' = Owed
    BY <1>1, <1>2, <1>4, <1>6, SetsUpdate, SetsKeep
  <2> QED  BY <1>1, <1>3, <1>5, <2>1, ServiceAdmit DEF j
<1>7. CASE Update(j, h)
  <2>1. Running' = Running \cup {j} /\ Owed' = Owed \ {j}
    BY <1>1, <1>2, <1>4, <1>7, SetsUpdate
  <2> QED  BY <1>1, <1>3, <1>5, <2>1, ServiceAdmit DEF j
<1> QED  BY <1>1, <1>6, <1>7

LEMMA ServesStartDataURL ==
    ASSUME IInv, Owners, StartDataURL
    PROVE  ServiceStep
<1> DEFINE j == Head(list)
<1>1. /\ TypeOK /\ pc = "start" /\ list # <<>> /\ runningJobs < MaxRunningJobs
      /\ list' = Tail(list) /\ UNCHANGED d /\ j \in DataJob
      /\ pc' = "client" /\ call'.job = j
  BY DEF StartDataURL, CanStart, IInv, Call
<1>2. j \in Job /\ Queued(j)
  BY <1>1, TailFacts DEF IInv, TypeOK, OnePlace, Distinct, Queued
<1>3. j \in Owed
  BY <1>2 DEF IInv, OnePlace, Owners, Waiting, Owed
<1>4. ServedInline = {} /\ ServedInline' = {j}
  BY <1>1 DEF ServedInline
<1>5. Running' = Running /\ Owed' = Owed
  BY <1>1 DEF Running, Owed
<1> QED  BY <1>1, <1>3, <1>4, <1>5, ServiceAdmit

LEMMA ServesDataURL ==
    ASSUME IInv, DataURLBody \/ DataURLEnd
    PROVE  ServiceStep
<1>1. /\ pc \in {"dataBody", "dataEnd"} /\ UNCHANGED <<d, list>>
      /\ pc' \in {"client", "dataEnd"} /\ call'.job = call.job
  BY DEF DataURLBody, DataURLEnd, Call
<1>2. ServedInline = {call.job} /\ call.job \in DataJob
  BY <1>1, NotInline
<1>3. ServedInline' = {call.job}
  BY <1>1, <1>2 DEF ServedInline
<1>4. Running' = Running /\ Owed' = Owed
  BY <1>1 DEF Running, Owed
<1> QED  BY <1>1, <1>2, <1>3, <1>4, ServiceStutter

\* An owner is told of its transfer, or of the refusal of its URL.
LEMMA ServesNotify ==
    ASSUME IInv, NEW e, NEW j \in Job \ DataJob, NEW r, Notify(e, j, r),
           r \notin {"dataBody", "dataEnd", "client"},
           pc \notin {"dataBody", "dataEnd", "client"},
           list' = list,
           \A k \in Job : /\ d'[k].easy = d[k].easy /\ d'[k].held = d[k].held
                          /\ d'[k].cancelled = d[k].cancelled
    PROVE  ServiceStep
<1>1. ServedInline = {} /\ ServedInline' = {}
  BY DEF ServedInline, Notify, Call
<1>2. Running' = Running /\ Owed' = Owed
  BY DEF Running, Owed
<1> QED  BY <1>1, <1>2, ServiceStutter

\* The thread goes on, and nobody is told.
LEMMA ServesMove ==
    ASSUME UNCHANGED <<d, list>>,
           pc \notin {"dataBody", "dataEnd", "client"},
           pc' \notin {"dataBody", "dataEnd", "client"}
    PROVE  ServiceStep
<1>1. ServedInline = {} /\ ServedInline' = {}
  BY DEF ServedInline
<1>2. Running' = Running /\ Owed' = Owed
  BY DEF Running, Owed
<1> QED  BY <1>1, <1>2, ServiceStutter

LEMMA ServesRemove ==
    ASSUME IInv, NEW j \in Job, RemoveFromCurl(j), curl[j] # "none", j \notin Owed,
           pc \notin {"dataBody", "dataEnd", "client"}, list' = list
    PROVE  ServiceStep
<1> DEFINE h == [d[j] EXCEPT !.easy = FALSE, !.paused = FALSE, !.begun = FALSE,
                             !.dropped = FALSE, !.ref = @ - 1,
                             !.cancelled = @ \/ d[j].ref = 1]
<1>1. TypeOK /\ Update(j, h) /\ pc' = "read" /\ d[j].easy /\ d[j] \in Handle
  BY TransferFacts DEF RemoveFromCurl, IInv
<1>2. /\ ~h.easy /\ h.held = d[j].held
      /\ d[j].cancelled => h.cancelled
  BY <1>1 DEF Handle
<1>3. ~(d[j].held /\ ~d[j].cancelled)
  BY DEF Owed
<1> HIDE DEF h
<1>4. ~h.easy /\ ~(h.held /\ ~h.cancelled)
  BY <1>1, <1>2, <1>3
<1>5. Running' = Running \ {j} /\ Owed' = Owed \ {j}
  BY <1>1, <1>4, SetsUpdate
<1>6. Owed' = Owed /\ j \in Running
  BY <1>1, <1>5 DEF Running
<1>7. ServedInline = {} /\ ServedInline' = {}
  BY <1>1 DEF ServedInline
<1> QED  BY <1>5, <1>6, <1>7, ServiceRetire

LEMMA ServesPauses ==
    ASSUME IInv, ReturnPaused \/ \E j \in Job : Do(j) \/ StartOver(j)
    PROVE  ServiceStep
<1>1. /\ list' = list /\ \A k \in Job : Kept(k)
      /\ \/ pc = "perform"
         \/ pc = "client" /\ call.ret = "perform"
      /\ pc' = "perform"
  BY ReturnPausedFacts, DoFacts
<1>2. Running' = Running /\ Owed' = Owed
  BY <1>1 DEF Running, Owed, Kept
<1>3. ServedInline = {} /\ ServedInline' = {}
  BY <1>1, NotInline DEF ServedInline
<1> QED  BY <1>1, <1>2, <1>3, ServiceStutter

LEMMA ServesTransfer ==
    ASSUME IInv, NEW j \in Job,
           \/ CurlStep(j) /\ ~ReadFails(j)
           \/ ReadStep(j)
    PROVE  ServiceStep
<1>1. /\ pc \in {"perform", "read"} /\ curl[j] # "none" /\ list' = list
      /\ d[j] \in Handle /\ d \in [Job -> Handle]
  BY DEF CurlStep, ReadStep, HeaderRedirect, HeaderResponse, Write, WriteLocal, ReadFails,
         CallbackAborts, TransferEnds, Do, StartOver, Callback, UnderWay, ReadCancelled,
         ReadDone, ReadDoneLocal, ReadFailed, IInv, TypeOK
<1>2. CASE CallbackAborts(j) \/ TransferEnds(j)
  BY <1>2, ServesMove DEF CallbackAborts, TransferEnds, Callback, UnderWay
<1>3. CASE ReadCancelled(j)
  <2>1. RemoveFromCurl(j) /\ j \notin Owed
    BY <1>3 DEF ReadCancelled, Owed
  <2> QED  BY <1>1, <2>1, ServesRemove
<1>4. CASE \/ HeaderRedirect(j) \/ HeaderResponse(j) \/ Write(j) \/ WriteLocal(j)
           \/ ReadDone(j) \/ ReadDoneLocal(j) \/ ReadFailed(j)
  <2>1. \E e, r : Notify(e, j, r) /\ r \notin {"dataBody", "dataEnd", "client"}
    BY <1>4 DEF HeaderRedirect, HeaderResponse, Write, WriteLocal, ReadDone,
       ReadDoneLocal, ReadFailed
  <2>2. d' = d \/ Update(j, [d[j] EXCEPT !.fired = TRUE])
    BY <1>4 DEF HeaderRedirect, HeaderResponse, Write, WriteLocal, ReadDone,
       ReadDoneLocal, ReadFailed
  <2>3. \A k \in Job : /\ d'[k].easy = d[k].easy /\ d'[k].held = d[k].held
                       /\ d'[k].cancelled = d[k].cancelled
    BY <1>1, <2>2 DEF Update, Handle
  <2> QED  BY <1>1, <2>1, <2>3, TransferFacts, ServesNotify
<1> QED  BY <1>2, <1>3, <1>4, ServesPauses DEF CurlStep, ReadStep

LEMMA ServesFireFailure ==
    ASSUME IInv, NEW j \in Job, FireFailure(j)
    PROVE  ServiceStep
<1>1. /\ pc = "idle" /\ Notify("blocked", j, "idle") /\ list' = list
      /\ j \in Job \ DataJob
      /\ Update(j, [d[j] EXCEPT !.failure = FALSE])
      /\ d[j] \in Handle /\ d \in [Job -> Handle]
  BY JobAssumption DEF FireFailure, IInv, FailureTimers, TypeOK
<1>2. \A k \in Job : /\ d'[k].easy = d[k].easy /\ d'[k].held = d[k].held
                     /\ d'[k].cancelled = d[k].cancelled
  BY <1>1 DEF Update, Handle
<1> QED  BY <1>1, <1>2, ServesNotify

LEMMA ServesLocal ==
    ASSUME IInv, Owners, WriteLocalData \/ ReadLocalFinish \/ RemoveJob
    PROVE  ServiceStep
<1> DEFINE j == call.job
<1>1. /\ j \in Job /\ curl[j] # "none" /\ list' = list
      /\ pc \in {"localData", "localFinish", "remove"}
  BY DEF IInv, TypeOK, CallInv, InCallback, WriteLocalData, ReadLocalFinish, RemoveJob
<1>2. j \notin DataJob
  BY <1>1, TransferFacts
<1>3. CASE RemoveJob
  <2>1. RemoveFromCurl(j) /\ j \notin Owed
    BY <1>3 DEF RemoveJob, Owners, LastEvents, Owed
  <2> QED  BY <1>1, <2>1, ServesRemove
<1>4. CASE ReadLocalFinish
  <2>1. CASE RemoveFromCurl(j) /\ d[j].cancelled
    <3>1. j \notin Owed
      BY <2>1 DEF Owed
    <3> QED  BY <1>1, <2>1, <3>1, ServesRemove
  <2>2. CASE Notify("finish", j, "remove") /\ d' = d
    BY <1>1, <1>2, <2>2, ServesNotify
  <2> QED  BY <1>4, <2>1, <2>2 DEF ReadLocalFinish
<1>5. CASE WriteLocalData
  <2>1. CASE pc' = "perform" /\ d' = d
    BY <1>1, <2>1, ServesMove
  <2>2. CASE Notify("data", j, "perform") /\ d' = d
    BY <1>1, <1>2, <2>2, ServesNotify
  <2> QED  BY <1>5, <2>1, <2>2 DEF WriteLocalData
<1> QED  BY <1>3, <1>4, <1>5

LEMMA ServesQuiet ==
    ASSUME \/ StartEnds \/ Select \/ SelectFails \/ PerformEnds \/ ReadEnds \/ CallbackEnds
           \/ FireTimer \/ CreateAndDelete \/ UNCHANGED vars
    PROVE  ServiceStep
<1>1. CASE CreateAndDelete \/ UNCHANGED vars
  <2>1. UNCHANGED <<d, list, pc, call>>
    BY <1>1 DEF CreateAndDelete, vars
  <2>2. Running' = Running /\ Owed' = Owed
    BY <2>1 DEF Running, Owed
  <2> QED  BY <2>1, <2>2, SameInline, ServiceStutter
<1>2. CASE \/ StartEnds \/ Select \/ SelectFails \/ PerformEnds \/ ReadEnds \/ CallbackEnds
           \/ FireTimer
  <2>1. /\ UNCHANGED <<d, list>> /\ pc \notin {"dataBody", "dataEnd", "client"}
        /\ pc' \notin {"dataBody", "dataEnd", "client"}
    BY <1>2 DEF StartEnds, Select, SelectFails, PerformEnds, ReadEnds, CallbackEnds, FireTimer
  <2> QED  BY <2>1, ServesMove
<1> QED  BY <1>1, <1>2

LEMMA ServesInit == Init => Service!SInit
<1> SUFFICES ASSUME Init
             PROVE  Service!SInit
  OBVIOUS
<1>1. \A j \in Job : ~d[j].easy /\ ~d[j].held
  BY DEF Init, NoHandle, NewHandle
<1>2. Running = {} /\ Owed = {}
  BY <1>1 DEF Running, Owed
<1>3. ServedInline = {} /\ list = <<>>
  BY DEF Init, ServedInline
<1> QED  BY <1>2, <1>3 DEF Service!SInit, Owed

LEMMA ServesNext == IInv /\ Owners /\ [Next]_vars => [Service!SNext]_(Service!svars)
<1> SUFFICES ASSUME IInv, Owners, [Next]_vars
             PROVE  ServiceStep
  BY DEF ServiceStep
<1>1. ASSUME NEW j \in Job, OwnerStep(j)
      PROVE  ServiceStep
  BY <1>1, ServesCreate, ServesCancelScheduled, ServesSettle, ServesDefer DEF OwnerStep
<1>2. ASSUME NEW j \in Job, CurlStep(j)
      PROVE  ServiceStep
  BY <1>2, ServesTransfer, ServesSettle
<1>3. CASE ManagerStep
  BY <1>3, ServesStart, ServesStartDataURL, ServesDataURL, ServesTransfer, ServesLocal,
     ServesQuiet DEF ManagerStep
<1> QED
  BY <1>1, <1>2, <1>3, ServesFireFailure, ServesRelease, ServesReturn,
     ServesPauses, ServesQuiet DEF Next

(***************************************************************************)
(* The refinement: whatever owners, libcurl and the faults do, the back    *)
(* end behaves as the queue with MaxRunningJobs places that LoadService    *)
(* describes.  Requests are admitted in order, never more than there are   *)
(* slots, and none is dropped while its owner waits, unless libcurl or the *)
(* upload stream refuses it.                                               *)
(***************************************************************************)
THEOREM Implements == Spec => ImplementsService
<1> QED
  BY ServesInit, ServesNext, OwnersInvariant, PTL DEF Spec, ImplementsService, Service!Spec

=============================================================================
