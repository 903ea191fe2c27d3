---------------------- MODULE ResourceLoadSchedulerProofs ----------------------
(***************************************************************************)
(* What holds of ResourceLoadScheduler for any loaders, hosts and limits:  *)
(* no loader is misplaced, no host is deleted that has requests, and no    *)
(* load waits without something that will serve it.                        *)
(***************************************************************************)
EXTENDS ResourceLoadScheduler, FiniteSetTheorems, TLAPS

-----------------------------------------------------------------------------
(* Queues without repetitions: what the operations do to the members.         *)

\* A sequence without repetitions.
Distinct(s) == \A i, k \in 1..Len(s) : s[i] = s[k] => i = k

LEMMA MemberFacts ==
    ASSUME NEW S, NEW s \in Seq(S)
    PROVE  /\ \A i \in 1..Len(s) : s[i] \in ToSet(s) /\ s[i] \in S
           /\ \A x \in ToSet(s) : \E i \in 1..Len(s) : s[i] = x
BY DEF ToSet

\* append(e), for an element that is not in the queue.
LEMMA AppendFacts ==
    ASSUME NEW S, NEW s \in Seq(S), NEW e \in S
    PROVE  /\ Append(s, e) \in Seq(S)
           /\ ToSet(Append(s, e)) = ToSet(s) \cup {e}
           /\ Distinct(s) /\ e \notin ToSet(s) => Distinct(Append(s, e))
<1> DEFINE r == Append(s, e)
<1>1. /\ r \in Seq(S) /\ Len(r) = Len(s) + 1 /\ Len(s) \in Nat
      /\ r[Len(s) + 1] = e
      /\ \A i \in 1..Len(s) : r[i] = s[i]
  OBVIOUS
<1> HIDE DEF r
<1>2. ToSet(r) = ToSet(s) \cup {e}
  <2>1. \A i \in 1..Len(r) : i \in 1..Len(s) \/ i = Len(s) + 1
    BY <1>1
  <2>2. Len(s) + 1 \in 1..Len(r) /\ 1..Len(s) \subseteq 1..Len(r)
    BY <1>1
  <2>3. DOMAIN r = 1..Len(r) /\ DOMAIN s = 1..Len(s)
    BY <1>1
  <2> QED  BY <1>1, <2>1, <2>2, <2>3 DEF ToSet
<1>3. Distinct(s) /\ e \notin ToSet(s) => Distinct(r)
  BY <1>1 DEF ToSet, Distinct
<1> QED  BY <1>1, <1>2, <1>3 DEF r

\* removeFirst(), or remove(0).
LEMMA TailFacts ==
    ASSUME NEW S, NEW s \in Seq(S), s # <<>>, Distinct(s)
    PROVE  /\ Head(s) \in S
           /\ Head(s) \in ToSet(s)
           /\ Tail(s) \in Seq(S)
           /\ ToSet(Tail(s)) = ToSet(s) \ {Head(s)}
           /\ Distinct(Tail(s))
<1> DEFINE t == Tail(s)
<1>1. /\ Head(s) = s[1] /\ Len(s) \in Nat \ {0}
      /\ t \in Seq(S) /\ Len(t) = Len(s) - 1
      /\ \A i \in 1..(Len(s) - 1) : t[i] = s[i + 1]
  OBVIOUS
<1> HIDE DEF t
<1>2. ToSet(t) = ToSet(s) \ {Head(s)}
  <2>1. ASSUME NEW i \in 1..Len(t)
        PROVE  t[i] \in ToSet(s) \ {Head(s)}
    BY <1>1 DEF ToSet, Distinct
  <2>2. ASSUME NEW i \in 1..Len(s), s[i] # Head(s)
        PROVE  s[i] \in ToSet(t)
    <3>1. i - 1 \in 1..Len(t) /\ t[i - 1] = s[i]
      BY <1>1, <2>2
    <3> QED  BY <3>1, <1>1, MemberFacts
  <2>3. ToSet(t) \subseteq ToSet(s) \ {Head(s)}
    BY <1>1, <2>1, MemberFacts
  <2>4. ToSet(s) \ {Head(s)} \subseteq ToSet(t)
    BY <2>2, MemberFacts
  <2> QED  BY <2>3, <2>4
<1>3. Distinct(t)
  BY <1>1 DEF Distinct
<1> QED  BY <1>1, <1>2, <1>3, MemberFacts DEF t

\* remove(i)
LEMMA RemoveAtFacts ==
    ASSUME NEW S, NEW s \in Seq(S), Distinct(s), NEW i \in 1..Len(s)
    PROVE  /\ RemoveAt(s, i) \in Seq(S)
           /\ ToSet(RemoveAt(s, i)) = ToSet(s) \ {s[i]}
           /\ Distinct(RemoveAt(s, i))
<1> DEFINE r == RemoveAt(s, i)
<1>1. /\ r \in Seq(S) /\ Len(r) = Len(s) - 1
      /\ \A k \in 1..(Len(s) - 1) : r[k] = IF k < i THEN s[k] ELSE s[k + 1]
  <2> DEFINE a == SubSeq(s, 1, i - 1)
             b == SubSeq(s, i + 1, Len(s))
  <2>1. /\ a \in Seq(S) /\ Len(a) = i - 1
        /\ \A k \in 1..(i - 1) : a[k] = s[k]
    OBVIOUS
  <2>2. /\ b \in Seq(S) /\ Len(b) = Len(s) - i
        /\ \A k \in 1..(Len(s) - i) : b[k] = s[k + i]
    OBVIOUS
  <2>3. r = a \o b
    BY DEF RemoveAt
  <2> HIDE DEF a, b, r
  <2>4. /\ r \in Seq(S) /\ Len(r) = Len(s) - 1
    BY <2>1, <2>2, <2>3
  <2>5. ASSUME NEW k \in 1..(Len(s) - 1)
        PROVE  r[k] = IF k < i THEN s[k] ELSE s[k + 1]
    <3>1. r[k] = IF k <= Len(a) THEN a[k] ELSE b[k - Len(a)]
      BY <2>1, <2>2, <2>3
    <3>2. CASE k < i  BY <3>1, <3>2, <2>1
    <3>3. CASE ~(k < i)
      <4>1. k - Len(a) \in 1..(Len(s) - i) /\ k - Len(a) + i = k + 1
        BY <3>3, <2>1
      <4> QED  BY <3>1, <3>3, <4>1, <2>1, <2>2
    <3> QED  BY <3>2, <3>3
  <2> QED  BY <2>4, <2>5
<1> HIDE DEF r
<1>2. ASSUME NEW k \in 1..Len(r)
      PROVE  r[k] \in ToSet(s) \ {s[i]}
  <2>1. CASE k < i  BY <2>1, <1>1 DEF ToSet, Distinct
  <2>2. CASE ~(k < i)  BY <2>2, <1>1 DEF ToSet, Distinct
  <2> QED  BY <2>1, <2>2
<1>3. ASSUME NEW k \in 1..Len(s), s[k] # s[i]
      PROVE  s[k] \in ToSet(r)
  <2>1. CASE k < i
    <3>1. k \in 1..Len(r) /\ r[k] = s[k]  BY <2>1, <1>1
    <3> QED  BY <3>1, <1>1, MemberFacts
  <2>2. CASE k > i
    <3>1. k - 1 \in 1..Len(r) /\ r[k - 1] = s[k]  BY <2>2, <1>1
    <3> QED  BY <3>1, <1>1, MemberFacts
  <2> QED  BY <2>1, <2>2, <1>3
<1>4. ToSet(r) = ToSet(s) \ {s[i]}
  <2>1. ToSet(r) \subseteq ToSet(s) \ {s[i]}
    BY <1>1, <1>2, MemberFacts
  <2>2. ToSet(s) \ {s[i]} \subseteq ToSet(r)
    BY <1>3, MemberFacts
  <2> QED  BY <2>1, <2>2
<1>5. Distinct(r)
  BY <1>1 DEF Distinct
<1> QED  BY <1>1, <1>4, <1>5 DEF r

-----------------------------------------------------------------------------
(* The inductive invariant.                                                  *)

\* WakeUpSecured also while hosts are served: then what waits may rely on
\* its host being served down to a priority at which something waits.
ToBeServed(h) ==
    /\ h \in serving
    /\ \E p \in Priority : p >= minimum /\ pending[h][p] # <<>>

WakeUp ==
    \/ timer
    \/ suspended
    \/ \E h \in Host : loading[h] # {}
    \/ \A h \in Host : HasPending(h) => ToBeServed(h)

\* HostsKept for the host that a loader is registered at.
HostOfLoader == \A l \in Loader : url[l] \in Host => url[l] \in Known

IInv ==
    /\ TypeOK
    /\ LoaderFindable
    /\ HostOfLoader
    /\ WakeUp

-----------------------------------------------------------------------------
(* Lemmas about states and about one step.                                   *)

\* A queue is empty when nothing waits in it.
LEMMA EmptyFacts ==
    ASSUME NEW S, NEW s \in Seq(S)
    PROVE  /\ s # <<>> <=> \E x \in S : x \in ToSet(s)
           /\ ToSet(s) \subseteq S
<1>1. s # <<>> => s[1] \in ToSet(s)
  BY MemberFacts
<1>2. ToSet(<<>>) = {}
  BY DEF ToSet
<1>3. ToSet(s) \subseteq S
  BY MemberFacts
<1> QED  BY <1>1, <1>2, <1>3

\* What a change of one queue does to all of them.
Queues == [Host -> [Priority -> Seq(Loader)]]

LEMMA PendingFacts ==
    ASSUME NEW f \in Queues, NEW h \in Host, NEW p \in Priority, NEW s \in Seq(Loader)
    PROVE  /\ [f EXCEPT ![h][p] = s] \in Queues
           /\ [f EXCEPT ![h][p] = s][h][p] = s
           /\ \A g \in Host, q \in Priority :
                 g # h \/ q # p => [f EXCEPT ![h][p] = s][g][q] = f[g][q]
BY DEF Queues

\* What a change of one host does to loading.
LEMMA LoadingFacts ==
    ASSUME NEW f \in [Host -> SUBSET Loader], NEW h \in Host, NEW s \in SUBSET Loader
    PROVE  /\ [f EXCEPT ![h] = s] \in [Host -> SUBSET Loader]
           /\ [f EXCEPT ![h] = s][h] = s
           /\ \A g \in Host : g # h => [f EXCEPT ![h] = s][g] = f[g]
OBVIOUS

\* A host has requests when a loader's current URL names it.
LEMMA RequestsFacts ==
    ASSUME TypeOK, LoaderFindable, NEW h \in Host
    PROVE  HasRequests(h) <=> \E l \in Loader : url[l] = h
<1>1. HasPending(h) <=> \E p \in Priority : \E l \in Loader : Waits(l, h, p)
  BY EmptyFacts DEF HasPending, Waits, TypeOK
<1>2. loading[h] # {} <=> \E l \in Loader : l \in loading[h]
  BY DEF TypeOK
<1>3. HasRequests(h) <=> \E l \in Loader : Holds(h, l)
  BY <1>1, <1>2 DEF HasRequests, Holds
<1> QED  BY <1>3 DEF LoaderFindable

\* HostsKept follows.
LEMMA HostsFacts ==
    ASSUME TypeOK, LoaderFindable, HostOfLoader
    PROVE  HostsKept
BY RequestsFacts DEF HostOfLoader, HostsKept

\* A step that changes the places of one loader only keeps the others found.
LEMMA FindableFrame ==
    ASSUME TypeOK, LoaderFindable, NEW l \in Loader,
           \A k \in Loader \ {l} :
              /\ url'[k] = url[k]
              /\ \A g \in Host : k \in loading'[g] <=> k \in loading[g]
              /\ \A g \in Host, q \in Priority : Waits(k, g, q)' <=> Waits(k, g, q),
           \A g \in Host : Holds(g, l)' <=> url'[l] = g,
           \A g \in Host, q \in Priority :
              Waits(l, g, q)' => /\ l \notin loading'[g]
                                 /\ \A r \in Priority : Waits(l, g, r)' => r = q,
           \A g \in Host, q \in Priority : Distinct(pending'[g][q])
    PROVE  LoaderFindable'
<1>1. ASSUME NEW k \in Loader, NEW g \in Host
      PROVE  Holds(g, k)' <=> url'[k] = g
  <2>1. CASE k = l  BY <2>1
  <2>2. CASE k # l  BY <2>2 DEF Holds, LoaderFindable
  <2> QED  BY <2>1, <2>2
<1>2. ASSUME NEW k \in Loader, NEW g \in Host, NEW q \in Priority, Waits(k, g, q)'
      PROVE  /\ k \notin loading'[g]
             /\ \A r \in Priority : Waits(k, g, r)' => r = q
  <2>1. CASE k = l  BY <2>1, <1>2
  <2>2. CASE k # l  BY <2>2, <1>2 DEF LoaderFindable
  <2> QED  BY <2>1, <2>2
<1>3. \A g \in Host, q \in Priority : \A i, k \in 1..Len(pending'[g][q]) :
         pending'[g][q][i] = pending'[g][q][k] => i = k
  BY DEF Distinct
<1> QED  BY <1>1, <1>2, <1>3 DEF LoaderFindable

\* The queues have no repetitions.
LEMMA DistinctQueues ==
    ASSUME LoaderFindable, NEW h \in Host, NEW p \in Priority
    PROVE  Distinct(pending[h][p])
BY DEF LoaderFindable, Distinct

\* What waits after a loader has left its queue, which becomes r.
LEMMA LeaveFacts ==
    ASSUME TypeOK, LoaderFindable, NEW l \in Loader, NEW h \in Host,
           NEW p \in Priority, l \in ToSet(pending[h][p]),
           NEW r \in Seq(Loader), Distinct(r),
           ToSet(r) = ToSet(pending[h][p]) \ {l},
           pending' = [pending EXCEPT ![h][p] = r]
    PROVE  /\ pending' \in Queues
           /\ \A k \in Loader, g \in Host, q \in Priority :
                 Waits(k, g, q)' <=> Waits(k, g, q) /\ k # l
           /\ \A g \in Host, q \in Priority : Distinct(pending'[g][q])
<1>4. /\ pending' \in Queues
      /\ pending'[h][p] = r
      /\ \A g \in Host, q \in Priority :
            g # h \/ q # p => pending'[g][q] = pending[g][q]
  BY PendingFacts DEF TypeOK, Queues
<1>5. ASSUME NEW k \in Loader, NEW g \in Host, NEW q \in Priority
      PROVE  Waits(k, g, q)' <=> Waits(k, g, q) /\ k # l
  <2>1. CASE g = h /\ q = p
    BY <2>1, <1>4 DEF Waits
  <2>2. CASE g # h \/ q # p
    <3>1. Waits(k, g, q)' <=> Waits(k, g, q)
      BY <2>2, <1>4 DEF Waits
    <3>2. Waits(l, h, p)
      BY DEF Waits
    <3>3. ~Waits(l, g, q)
      BY <2>2, <3>2 DEF LoaderFindable, Holds
    <3> QED  BY <3>1, <3>3
  <2> QED  BY <2>1, <2>2
<1>6. \A g \in Host, q \in Priority : Distinct(pending'[g][q])
  <2>1. ASSUME NEW g \in Host, NEW q \in Priority
        PROVE  Distinct(pending'[g][q])
    <3>1. CASE g = h /\ q = p  BY <3>1, <1>4
    <3>2. CASE g # h \/ q # p  BY <3>2, <1>4, DistinctQueues
    <3> QED  BY <3>1, <3>2
  <2> QED  BY <2>1
<1> QED  BY <1>4, <1>5, <1>6

\* What waits after a loader has been appended to a queue.
LEMMA EnterFacts ==
    ASSUME TypeOK, LoaderFindable, NEW l \in Loader, NEW h \in Host,
           NEW p \in Priority, url[l] \notin Host,
           pending' = [pending EXCEPT ![h][p] = Append(@, l)]
    PROVE  /\ pending' \in Queues
           /\ \A k \in Loader, g \in Host, q \in Priority :
                 Waits(k, g, q)' <=> Waits(k, g, q) \/ (k = l /\ g = h /\ q = p)
           /\ \A g \in Host, q \in Priority : Distinct(pending'[g][q])
<1> DEFINE s == pending[h][p]
           r == Append(s, l)
<1>1. s \in Seq(Loader) /\ Distinct(s) /\ l \notin ToSet(s)
  <2>1. ~Waits(l, h, p)
    BY DEF LoaderFindable, Holds
  <2> QED  BY <2>1, DistinctQueues DEF TypeOK, Waits
<1>2. r \in Seq(Loader) /\ ToSet(r) = ToSet(s) \cup {l} /\ Distinct(r)
  BY <1>1, AppendFacts
<1>3. pending' = [pending EXCEPT ![h][p] = r]
  OBVIOUS
<1> HIDE DEF r
<1>4. /\ pending' \in Queues
      /\ pending'[h][p] = r
      /\ \A g \in Host, q \in Priority :
            g # h \/ q # p => pending'[g][q] = pending[g][q]
  BY <1>2, <1>3, PendingFacts DEF TypeOK, Queues
<1>5. ASSUME NEW k \in Loader, NEW g \in Host, NEW q \in Priority
      PROVE  Waits(k, g, q)' <=> Waits(k, g, q) \/ (k = l /\ g = h /\ q = p)
  <2>1. CASE g = h /\ q = p  BY <2>1, <1>2, <1>4 DEF Waits
  <2>2. CASE g # h \/ q # p  BY <2>2, <1>4 DEF Waits
  <2> QED  BY <2>1, <2>2
<1>6. ASSUME NEW g \in Host, NEW q \in Priority
      PROVE  Distinct(pending'[g][q])
  <2>1. CASE g = h /\ q = p  BY <2>1, <1>2, <1>4
  <2>2. CASE g # h \/ q # p  BY <2>2, <1>4, DistinctQueues
  <2> QED  BY <2>1, <2>2
<1> QED  BY <1>4, <1>5, <1>6

\* HostInformation::remove takes a loader that is registered at h, or at no
\* host but through sets, out of both.
LEMMA RemoveFacts ==
    ASSUME TypeOK, LoaderFindable, NEW l \in Loader, NEW h \in Host,
           NEW sets \in [Host -> SUBSET Loader], url[l] = h,
           sets[h] = loading[h], RemoveFrom(l, h, sets)
    PROVE  /\ pending' \in Queues
           /\ loading' \in [Host -> SUBSET Loader]
           /\ loading'[h] = loading[h] \ {l}
           /\ \A g \in Host : g # h => loading'[g] = sets[g]
           /\ \A k \in Loader, g \in Host, q \in Priority :
                 Waits(k, g, q)' <=> Waits(k, g, q) /\ k # l
           /\ \A g \in Host, q \in Priority : Distinct(pending'[g][q])
<1>1. /\ loading' \in [Host -> SUBSET Loader]
      /\ loading'[h] = loading[h] \ {l}
      /\ \A g \in Host : g # h => loading'[g] = sets[g]
  BY DEF RemoveFrom
<1>2. \A g \in Host, q \in Priority : Waits(l, g, q) => g = h
  BY DEF LoaderFindable, Holds
<1>3. CASE pending' = pending /\ \A q \in Priority : ~Waits(l, h, q)
  <2>1. \A k \in Loader, g \in Host, q \in Priority :
           Waits(k, g, q)' <=> Waits(k, g, q) /\ k # l
    BY <1>2, <1>3 DEF Waits
  <2>2. \A g \in Host, q \in Priority : Distinct(pending'[g][q])
    BY <1>3, DistinctQueues
  <2> QED  BY <1>1, <1>3, <2>1, <2>2 DEF TypeOK, Queues
<1>4. CASE l \notin loading[h] /\ \E p \in Priority : \E i \in 1..Len(pending[h][p]) :
              /\ pending[h][p][i] = l
              /\ pending' = [pending EXCEPT ![h][p] = RemoveAt(@, i)]
  <2>1. PICK p \in Priority : \E i \in 1..Len(pending[h][p]) :
              /\ pending[h][p][i] = l
              /\ pending' = [pending EXCEPT ![h][p] = RemoveAt(@, i)]
    BY <1>4
  <2>2. PICK i \in 1..Len(pending[h][p]) :
              /\ pending[h][p][i] = l
              /\ pending' = [pending EXCEPT ![h][p] = RemoveAt(@, i)]
    BY <2>1
  <2> DEFINE s == pending[h][p]
             r == RemoveAt(s, i)
  <2>3. s \in Seq(Loader) /\ Distinct(s)
    BY DistinctQueues DEF TypeOK
  <2>4. l \in ToSet(s)
    BY <2>2, <2>3, MemberFacts
  <2>5. r \in Seq(Loader) /\ ToSet(r) = ToSet(s) \ {l} /\ Distinct(r)
    BY <2>2, <2>3, RemoveAtFacts
  <2>6. pending' = [pending EXCEPT ![h][p] = r]
    BY <2>2
  <2> HIDE DEF r
  <2>7. /\ pending' \in Queues
        /\ \A k \in Loader, g \in Host, q \in Priority :
              Waits(k, g, q)' <=> Waits(k, g, q) /\ k # l
        /\ \A g \in Host, q \in Priority : Distinct(pending'[g][q])
    BY <2>4, <2>5, <2>6, LeaveFacts
  <2> QED  BY <1>1, <2>7
<1>5. CASE l \in loading[h] /\ pending' = pending
  <2>1. \A q \in Priority : ~Waits(l, h, q)
    BY <1>5 DEF LoaderFindable
  <2> QED  BY <1>3, <1>5, <2>1
<1> QED  BY <1>3, <1>4, <1>5 DEF RemoveFrom

-----------------------------------------------------------------------------
(* Registering and removing a loader: the actions that change places.        *)

\* The types of what a step leaves alone or sets without touching queues.
LEMMA TypeFrame ==
    ASSUME TypeOK, url' \in [Loader -> Stages], pending' \in Queues,
           loading' \in [Host -> SUBSET Loader], hosts' \subseteq Host \ {NonHTTP},
           {timer', suspended', parsing'} \subseteq BOOLEAN,
           serving' \subseteq Host, minimum' \in Priority
    PROVE  TypeOK'
BY DEF TypeOK, Queues

\* hostForURL(url, CreateIfNotFound) and the new URL of a loader
LEMMA RegisterFacts ==
    ASSUME TypeOK, HostOfLoader, NEW l \in Loader, NEW h \in Host,
           url' = [url EXCEPT ![l] = h], hosts' = WithHost(h)
    PROVE  /\ url' \in [Loader -> Stages]
           /\ url'[l] = h
           /\ \A k \in Loader \ {l} : url'[k] = url[k]
           /\ hosts' \subseteq Host \ {NonHTTP}
           /\ HostOfLoader'
<1>1. /\ url' \in [Loader -> Stages] /\ url'[l] = h
      /\ \A k \in Loader \ {l} : url'[k] = url[k]
      /\ hosts' \subseteq Host \ {NonHTTP}
      /\ hosts \subseteq hosts' /\ h \in hosts' \cup {NonHTTP}
  BY DEF TypeOK, Stages, WithHost
<1> QED  BY <1>1 DEF HostOfLoader, Known

LEMMA AddMainResourceLoadStep ==
    ASSUME IInv, NEW l \in Loader, NEW h \in Host, AddMainResourceLoad(l, h)
    PROVE  IInv'
<1> USE DEF IInv
<1>1. /\ url[l] \notin Host
      /\ loading' = [loading EXCEPT ![h] = loading[h] \cup {l}]
      /\ UNCHANGED <<pending, timer, suspended, parsing, serving, minimum>>
  BY HostAssumption DEF AddMainResourceLoad
<1>2. /\ url' \in [Loader -> Stages] /\ url'[l] = h
      /\ \A k \in Loader \ {l} : url'[k] = url[k]
      /\ hosts' \subseteq Host \ {NonHTTP}
      /\ HostOfLoader'
  BY RegisterFacts DEF AddMainResourceLoad
<1>3. /\ loading' \in [Host -> SUBSET Loader]
      /\ loading'[h] = loading[h] \cup {l}
      /\ \A g \in Host : g # h => loading'[g] = loading[g]
  BY <1>1, LoadingFacts DEF TypeOK
<1>4. TypeOK'
  BY <1>1, <1>2, <1>3, TypeFrame DEF TypeOK, Queues
<1>5. LoaderFindable'
  <2>1. \A g \in Host : l \notin loading[g] /\ \A q \in Priority : ~Waits(l, g, q)
    BY <1>1 DEF LoaderFindable, Holds
  <2>2. \A k \in Loader, g \in Host, q \in Priority : Waits(k, g, q)' <=> Waits(k, g, q)
    BY <1>1 DEF Waits
  <2>3. \A g \in Host, q \in Priority : Distinct(pending'[g][q])
    BY <1>1, DistinctQueues
  <2>4. \A g \in Host : Holds(g, l)' <=> url'[l] = g
    BY <1>2, <1>3, <2>1, <2>2 DEF Holds
  <2>5. \A k \in Loader \ {l}, g \in Host : k \in loading'[g] <=> k \in loading[g]
    BY <1>3
  <2> QED  BY <1>2, <2>1, <2>2, <2>3, <2>4, <2>5, FindableFrame
<1>6. WakeUp'
  BY <1>3 DEF WakeUp
<1> QED  BY <1>2, <1>4, <1>5, <1>6

LEMMA ScheduleLoadStep ==
    ASSUME IInv, NEW l \in Loader, NEW h \in Host, NEW p \in Priority,
           ScheduleLoad(l, h, p)
    PROVE  IInv'
<1> USE DEF IInv
<1> DEFINE atOnce == p > Low \/ h = NonHTTP \/ (p = Low /\ ~HasRequests(h))
<1>1. /\ url[l] \notin Host
      /\ serving = {}
      /\ pending' = [pending EXCEPT ![h][p] = Append(@, l)]
      /\ serving' = IF atOnce THEN {h} ELSE {}
      /\ minimum' = IF atOnce THEN p ELSE minimum
      /\ timer' = (timer \/ ~atOnce)
      /\ UNCHANGED <<loading, suspended, parsing>>
  BY HostAssumption DEF ScheduleLoad, Idle
<1> HIDE DEF atOnce
<1>2. /\ url' \in [Loader -> Stages] /\ url'[l] = h
      /\ \A k \in Loader \ {l} : url'[k] = url[k]
      /\ hosts' \subseteq Host \ {NonHTTP}
      /\ HostOfLoader'
  BY RegisterFacts DEF ScheduleLoad
<1>3. /\ pending' \in Queues
      /\ \A k \in Loader, g \in Host, q \in Priority :
            Waits(k, g, q)' <=> Waits(k, g, q) \/ (k = l /\ g = h /\ q = p)
      /\ \A g \in Host, q \in Priority : Distinct(pending'[g][q])
  BY <1>1, EnterFacts
<1>4. TypeOK'
  <2>1. loading' \in [Host -> SUBSET Loader] /\ {suspended', parsing'} \subseteq BOOLEAN
    BY <1>1 DEF TypeOK
  <2>2. timer' \in BOOLEAN
    BY <1>1
  <2>3. serving' \subseteq Host /\ minimum' \in Priority
    BY <1>1 DEF TypeOK
  <2> QED  BY <1>2, <1>3, <2>1, <2>2, <2>3, TypeFrame
<1>5. LoaderFindable'
  <2>1. \A g \in Host : l \notin loading[g] /\ \A q \in Priority : ~Waits(l, g, q)
    BY <1>1 DEF LoaderFindable, Holds
  <2>2. \A g \in Host : Holds(g, l)' <=> url'[l] = g
    BY <1>1, <1>2, <1>3, <2>1 DEF Holds
  <2> QED  BY <1>1, <1>2, <1>3, <2>1, <2>2, FindableFrame
<1>6. WakeUp'
  <2>1. CASE timer \/ suspended \/ ~atOnce \/ \E g \in Host : loading[g] # {}
    BY <2>1, <1>1 DEF WakeUp
  <2>2. CASE ~timer /\ ~suspended /\ atOnce /\ \A g \in Host : loading[g] = {}
    <3>1. \A g \in Host : ~HasPending(g)
      BY <2>2, <1>1 DEF WakeUp, ToBeServed
    <3>2. \A g \in Host, q \in Priority :
             pending'[g][q] # <<>> => g = h /\ q = p
      BY <3>1, <1>1, <1>3, EmptyFacts DEF HasPending, TypeOK, Queues, Waits
    <3>3. p >= p
      BY DEF Priority, VeryLow, High
    <3> QED  BY <2>2, <3>2, <3>3, <1>1 DEF WakeUp, HasPending, ToBeServed
  <2> QED  BY <2>1, <2>2
<1> QED  BY <1>2, <1>4, <1>5, <1>6

LEMMA CrossOriginRedirectStep ==
    ASSUME IInv, NEW l \in Loader, NEW h \in Host, CrossOriginRedirect(l, h)
    PROVE  IInv'
<1> USE DEF IInv
<1> DEFINE old == url[l]
           sets == [loading EXCEPT ![h] = loading[h] \cup {l}]
<1>1. /\ old \in Host /\ old # h /\ l \in loading[old]
      /\ RemoveFrom(l, old, sets)
      /\ UNCHANGED <<timer, suspended, parsing, serving, minimum>>
  BY DEF CrossOriginRedirect
<1>2. /\ url' \in [Loader -> Stages] /\ url'[l] = h
      /\ \A k \in Loader \ {l} : url'[k] = url[k]
      /\ hosts' \subseteq Host \ {NonHTTP}
      /\ HostOfLoader'
  BY RegisterFacts DEF CrossOriginRedirect
<1>3. /\ sets \in [Host -> SUBSET Loader]
      /\ sets[h] = loading[h] \cup {l}
      /\ \A g \in Host : g # h => sets[g] = loading[g]
  BY LoadingFacts DEF TypeOK
<1>4. url[l] = old
  OBVIOUS
<1> HIDE DEF sets, old
<1>5. /\ pending' \in Queues
      /\ loading' \in [Host -> SUBSET Loader]
      /\ loading'[old] = loading[old] \ {l}
      /\ \A g \in Host : g # old => loading'[g] = sets[g]
      /\ \A k \in Loader, g \in Host, q \in Priority :
            Waits(k, g, q)' <=> Waits(k, g, q) /\ k # l
      /\ \A g \in Host, q \in Priority : Distinct(pending'[g][q])
  BY <1>1, <1>3, <1>4, RemoveFacts
<1>6. TypeOK'
  BY <1>1, <1>2, <1>5, TypeFrame DEF TypeOK
<1>7. LoaderFindable'
  <2>1. \A g \in Host : g # old => l \notin loading[g]
    BY <1>4 DEF LoaderFindable, Holds
  <2>2. \A g \in Host : l \in loading'[g] <=> g = h
    BY <1>1, <1>3, <1>5, <2>1
  <2>3. \A k \in Loader \ {l}, g \in Host : k \in loading'[g] <=> k \in loading[g]
    BY <1>3, <1>5
  <2>4. \A g \in Host, q \in Priority : ~Waits(l, g, q)'
    BY <1>5
  <2>5. \A g \in Host : Holds(g, l)' <=> url'[l] = g
    BY <1>2, <2>2, <2>4 DEF Holds
  <2> QED  BY <1>2, <1>5, <2>3, <2>4, <2>5, FindableFrame
<1>8. WakeUp'
  BY <1>1, <1>3, <1>5 DEF WakeUp
<1> QED  BY <1>2, <1>6, <1>7, <1>8

\* remove(): the end or the cancellation of a load
LEMMA LoadRemovedStep ==
    ASSUME IInv, NEW l \in Loader, LoadRemoved(l)
    PROVE  IInv'
<1> USE DEF IInv
<1> DEFINE old == url[l]
<1>1. /\ old \in Host /\ old \in Known
      /\ url' = [url EXCEPT ![l] = "done"]
      /\ RemoveFrom(l, old, loading)
      /\ timer' = TRUE
      /\ UNCHANGED <<hosts, suspended, parsing, serving, minimum>>
  BY DEF LoadRemoved, HostOfLoader
<1>2. /\ url' \in [Loader -> Stages] /\ url'[l] = "done"
      /\ \A k \in Loader \ {l} : url'[k] = url[k]
  BY <1>1 DEF TypeOK, Stages
<1>3. url[l] = old /\ loading \in [Host -> SUBSET Loader]
  BY DEF TypeOK
<1> HIDE DEF old
<1>4. /\ pending' \in Queues
      /\ loading' \in [Host -> SUBSET Loader]
      /\ loading'[old] = loading[old] \ {l}
      /\ \A g \in Host : g # old => loading'[g] = loading[g]
      /\ \A k \in Loader, g \in Host, q \in Priority :
            Waits(k, g, q)' <=> Waits(k, g, q) /\ k # l
      /\ \A g \in Host, q \in Priority : Distinct(pending'[g][q])
  BY <1>1, <1>3, RemoveFacts
<1>5. TypeOK'
  <2>1. {timer', suspended', parsing'} \subseteq BOOLEAN
    BY <1>1 DEF TypeOK
  <2>2. hosts' \subseteq Host \ {NonHTTP} /\ serving' \subseteq Host /\ minimum' \in Priority
    BY <1>1 DEF TypeOK
  <2> QED  BY <1>2, <1>4, <2>1, <2>2, TypeFrame
<1>6. LoaderFindable'
  <2>1. \A g \in Host : g # old => l \notin loading[g]
    BY <1>3 DEF LoaderFindable, Holds
  <2>2. \A g \in Host : l \notin loading'[g]
    BY <1>1, <1>4, <2>1
  <2>3. \A k \in Loader \ {l}, g \in Host : k \in loading'[g] <=> k \in loading[g]
    BY <1>4
  <2>4. \A g \in Host, q \in Priority : ~Waits(l, g, q)'
    BY <1>4
  <2>5. \A g \in Host : Holds(g, l)' <=> url'[l] = g
    BY <1>2, <2>2, <2>4, HostAssumption DEF Holds
  <2> QED  BY <1>2, <1>4, <2>3, <2>4, <2>5, FindableFrame
<1>7. HostOfLoader'
  BY <1>1, <1>2, HostAssumption DEF HostOfLoader, Known
<1>8. WakeUp'
  BY <1>1 DEF WakeUp
<1> QED  BY <1>5, <1>6, <1>7, <1>8

LEMMA LoadRefusedStep ==
    ASSUME IInv, NEW l \in Loader, LoadRefused(l)
    PROVE  IInv'
<1> USE DEF IInv
<1>1. /\ url[l] \notin Host
      /\ url' = [url EXCEPT ![l] = "done"]
      /\ timer' = TRUE
      /\ UNCHANGED <<pending, loading, hosts, suspended, parsing, serving, minimum>>
  BY HostAssumption DEF LoadRefused
<1>2. /\ url' \in [Loader -> Stages] /\ url'[l] = "done"
      /\ \A k \in Loader \ {l} : url'[k] = url[k]
  BY <1>1 DEF TypeOK, Stages
<1>3. TypeOK'
  BY <1>1, <1>2 DEF TypeOK
<1>4. LoaderFindable'
  <2>1. \A g \in Host : l \notin loading[g] /\ \A q \in Priority : ~Waits(l, g, q)
    BY <1>1 DEF LoaderFindable, Holds
  <2>2. \A k \in Loader, g \in Host, q \in Priority : Waits(k, g, q)' <=> Waits(k, g, q)
    BY <1>1 DEF Waits
  <2>3. \A g \in Host : Holds(g, l)' <=> url'[l] = g
    BY <1>1, <1>2, <2>1, <2>2, HostAssumption DEF Holds
  <2>4. \A g \in Host, q \in Priority : Distinct(pending'[g][q])
    BY <1>1, DistinctQueues
  <2> QED  BY <1>1, <1>2, <2>1, <2>2, <2>3, <2>4, FindableFrame
<1>5. HostOfLoader'
  BY <1>1, <1>2, HostAssumption DEF HostOfLoader, Known
<1>6. WakeUp'
  BY <1>1 DEF WakeUp
<1> QED  BY <1>3, <1>4, <1>5, <1>6

-----------------------------------------------------------------------------
(* Steps that change no place but by starting what waits.                    *)

\* A step that leaves the loads alone
LEMMA LoadsFrame ==
    ASSUME LoaderFindable, HostOfLoader, UNCHANGED loads
    PROVE  LoaderFindable' /\ HostOfLoader'
BY DEF loads, LoaderFindable, HostOfLoader, Holds, Waits, Known

\* servePendingRequests() leaves nothing that waits without its host served.
LEMMA ServeAllFacts ==
    ASSUME IInv, ServeAll, UNCHANGED <<loads, suspended, parsing>>, timer' \in BOOLEAN
    PROVE  IInv'
<1> USE DEF IInv
<1>1. Known \subseteq Host
  BY HostAssumption DEF TypeOK, Known
<1>2. TypeOK'
  BY <1>1 DEF TypeOK, ServeAll, loads, Priority, VeryLow, High
<1>3. WakeUp'
  <2>1. CASE suspended
    BY <2>1 DEF WakeUp
  <2>2. CASE ~suspended
    <3>1. serving' = Known /\ minimum' = VeryLow /\ pending' = pending
      BY <2>2 DEF ServeAll, loads
    <3>2. \A h \in Host : HasPending(h) => h \in Known
      BY HostsFacts DEF HostsKept, HasRequests
    <3>3. \A p \in Priority : p >= VeryLow
      BY DEF Priority, VeryLow, High
    <3> QED  BY <3>1, <3>2, <3>3 DEF WakeUp, ToBeServed, HasPending
  <2> QED  BY <2>1, <2>2
<1> QED  BY <1>2, <1>3, LoadsFrame

LEMMA ResumeStep ==
    ASSUME IInv, Resume
    PROVE  IInv'
<1> USE DEF IInv
<1>1. /\ timer' = (timer \/ hosts # {} \/ HasRequests(NonHTTP))
      /\ suspended' = FALSE
      /\ UNCHANGED <<loads, parsing, serving, minimum>>
  BY DEF Resume
<1>2. TypeOK'
  <2>1. timer' \in BOOLEAN
    BY <1>1
  <2> QED  BY <1>1, <2>1 DEF TypeOK, loads
<1>3. WakeUp'
  <2>1. CASE timer \/ hosts # {} \/ HasRequests(NonHTTP)
    BY <2>1, <1>1 DEF WakeUp
  <2>2. CASE ~(timer \/ hosts # {} \/ HasRequests(NonHTTP))
    <3>1. \A h \in Host : ~HasPending(h)
      BY <2>2, HostsFacts DEF HostsKept, HasRequests, Known
    <3> QED  BY <3>1, <1>1 DEF WakeUp, HasPending, loads
  <2> QED  BY <2>1, <2>2
<1> QED  BY <1>1, <1>2, <1>3, LoadsFrame

LEMMA StartPendingStep ==
    ASSUME IInv, NEW h \in Host, StartPending(h)
    PROVE  IInv'
<1> USE DEF IInv
<1>1. PICK p \in Priority :
         LET l == Head(pending[h][p]) IN
         /\ Served(h, p)
         /\ ~Limited(h, p)
         /\ pending' = [pending EXCEPT ![h][p] = Tail(@)]
         /\ loading' = [loading EXCEPT ![h] = @ \cup {l}]
  BY DEF StartPending
<1> DEFINE s == pending[h][p]
           r == Tail(s)
<1>2. s \in Seq(Loader) /\ s # <<>> /\ Distinct(s)
  BY <1>1, DistinctQueues DEF TypeOK, Served
<1> PICK l \in Loader : l = Head(s)
  BY <1>2, TailFacts
<1>3. /\ l \in ToSet(s)
      /\ r \in Seq(Loader) /\ ToSet(r) = ToSet(s) \ {l} /\ Distinct(r)
  BY <1>2, TailFacts
<1>4. /\ pending' = [pending EXCEPT ![h][p] = r]
      /\ loading' = [loading EXCEPT ![h] = loading[h] \cup {l}]
      /\ UNCHANGED <<url, hosts, timer, suspended, parsing, serving, minimum>>
  BY <1>1 DEF StartPending
<1> HIDE DEF r
<1>5. /\ pending' \in Queues
      /\ \A k \in Loader, g \in Host, q \in Priority :
            Waits(k, g, q)' <=> Waits(k, g, q) /\ k # l
      /\ \A g \in Host, q \in Priority : Distinct(pending'[g][q])
  BY <1>3, <1>4, LeaveFacts
<1>6. /\ loading' \in [Host -> SUBSET Loader]
      /\ loading'[h] = loading[h] \cup {l}
      /\ \A g \in Host : g # h => loading'[g] = loading[g]
  BY <1>3, <1>4, LoadingFacts DEF TypeOK
<1>7. TypeOK'
  BY <1>4, <1>5, <1>6, TypeFrame DEF TypeOK
<1>8. LoaderFindable'
  <2>1. Waits(l, h, p)
    BY <1>3 DEF Waits
  <2>2. url[l] = h /\ \A g \in Host : g # h => l \notin loading[g]
    BY <1>3, <2>1 DEF LoaderFindable, Holds
  <2>3. \A g \in Host : l \in loading'[g] <=> g = h
    BY <1>6, <2>2
  <2>4. \A k \in Loader \ {l}, g \in Host : k \in loading'[g] <=> k \in loading[g]
    BY <1>6
  <2>5. \A g \in Host, q \in Priority : ~Waits(l, g, q)'
    BY <1>3, <1>5
  <2>6. \A g \in Host : Holds(g, l)' <=> url'[l] = g
    BY <1>4, <2>2, <2>3, <2>5 DEF Holds
  <2> QED  BY <1>3, <1>4, <1>5, <2>4, <2>5, <2>6, FindableFrame
<1>9. HostOfLoader'
  BY <1>4 DEF HostOfLoader, Known
<1>10. WakeUp'
  BY <1>6 DEF WakeUp
<1> QED  BY <1>7, <1>8, <1>9, <1>10

\* Only a load in progress holds back others: every limit is at least one.
LEMMA LimitFacts ==
    ASSUME NEW h \in Host, NEW p \in Priority, Limited(h, p)
    PROVE  loading[h] # {}
<1>1. Cardinality({}) = 0
  BY FS_EmptySet
<1> QED  BY <1>1, LimitAssumption DEF Limited

\* Among what waits there is a highest priority.
LEMMA HighestFacts ==
    ASSUME NEW h \in Host, minimum \in Priority, NEW p \in Priority,
           p >= minimum, pending[h][p] # <<>>
    PROVE  \E q \in Priority : Served(h, q)
<1> DEFINE W(q) == pending[h][q] # <<>>
<1>1. Priority = {0, 1, 2, 3}
  BY DEF Priority, VeryLow, High
<1>2. CASE W(3)
  BY <1>1, <1>2 DEF Served
<1>3. CASE ~W(3) /\ W(2) /\ p # 3
  BY <1>1, <1>3 DEF Served
<1>4. CASE ~W(3) /\ ~W(2) /\ W(1) /\ p \notin {2, 3}
  BY <1>1, <1>4 DEF Served
<1>5. CASE ~W(3) /\ ~W(2) /\ ~W(1) /\ p = 0
  BY <1>1, <1>5 DEF Served
<1> QED  BY <1>1, <1>2, <1>3, <1>4, <1>5

LEMMA HostServedStep ==
    ASSUME IInv, NEW h \in Host, HostServed(h)
    PROVE  IInv'
<1> USE DEF IInv
<1>1. /\ \A p \in Priority : Served(h, p) => Limited(h, p)
      /\ serving' = serving \ {h}
      /\ hosts' = IF HasRequests(h) THEN hosts ELSE hosts \ {h}
      /\ UNCHANGED <<url, pending, loading, timer, suspended, parsing, minimum>>
  BY DEF HostServed
<1>2. TypeOK'
  <2>1. hosts' \subseteq Host \ {NonHTTP}
    BY <1>1 DEF TypeOK
  <2> QED  BY <1>1, <2>1 DEF TypeOK
<1>3. LoaderFindable'
  BY <1>1 DEF LoaderFindable, Holds, Waits
<1>4. HostOfLoader'
  <2>1. CASE HasRequests(h)
    BY <2>1, <1>1 DEF HostOfLoader, Known
  <2>2. CASE ~HasRequests(h)
    <3>1. \A l \in Loader : url[l] # h
      BY <2>2, RequestsFacts
    <3> QED  BY <2>2, <3>1, <1>1 DEF HostOfLoader, Known
  <2> QED  BY <2>1, <2>2
<1>5. WakeUp'
  <2>1. CASE timer \/ suspended \/ \E g \in Host : loading[g] # {}
    BY <2>1, <1>1 DEF WakeUp
  <2>2. CASE ~timer /\ ~suspended /\ \A g \in Host : loading[g] = {}
    <3>1. \A p \in Priority : ~Served(h, p)
      BY <2>2, <1>1, LimitFacts
    <3>2. ~ToBeServed(h)
      BY <3>1, HighestFacts DEF ToBeServed, TypeOK
    <3>3. \A g \in Host : HasPending(g) => g # h /\ ToBeServed(g)
      BY <2>2, <3>2 DEF WakeUp
    <3> QED  BY <3>3, <1>1 DEF WakeUp, ToBeServed, HasPending
  <2> QED  BY <2>1, <2>2
<1> QED  BY <1>2, <1>3, <1>4, <1>5

-----------------------------------------------------------------------------
(* The invariant and what follows from it.                                   *)

LEMMA InitIInv == Init => IInv
<1> SUFFICES ASSUME Init PROVE IInv
  OBVIOUS
<1>1. \A h \in Host, p \in Priority : pending[h][p] = <<>>
  BY DEF Init
<1>2. \A l \in Loader, h \in Host, p \in Priority : ~Waits(l, h, p)
  <2>1. ToSet(<<>>) = {}
    BY DEF ToSet
  <2> QED  BY <1>1, <2>1 DEF Waits
<1>3. TypeOK
  <2>1. url \in [Loader -> Stages]
    BY DEF Init, Stages
  <2>2. pending \in [Host -> [Priority -> Seq(Loader)]]
    BY DEF Init
  <2>3. loading \in [Host -> SUBSET Loader]
    BY DEF Init
  <2>4. minimum \in Priority
    BY DEF Init, Priority, VeryLow, High
  <2> QED  BY <2>1, <2>2, <2>3, <2>4 DEF Init, TypeOK
<1>4. LoaderFindable
  <2>1. \A l \in Loader, h \in Host : ~Holds(h, l) /\ url[l] # h
    BY <1>2, HostAssumption DEF Init, Holds
  <2>2. \A h \in Host, p \in Priority : Len(pending[h][p]) = 0
    BY <1>1
  <2> QED  BY <1>2, <2>1, <2>2 DEF LoaderFindable
<1>5. HostOfLoader
  BY HostAssumption DEF Init, HostOfLoader
<1>6. WakeUp
  BY <1>1 DEF WakeUp, HasPending
<1> QED  BY <1>3, <1>4, <1>5, <1>6 DEF IInv

LEMMA NextIInv == IInv /\ [Next]_vars => IInv'
<1> SUFFICES ASSUME IInv, [Next]_vars PROVE IInv'
  OBVIOUS
<1>1. ASSUME NEW l \in Loader, NEW h \in Host, AddMainResourceLoad(l, h)
      PROVE  IInv'
  BY <1>1, AddMainResourceLoadStep
<1>2. ASSUME NEW l \in Loader, NEW h \in Host, NEW p \in Priority, ScheduleLoad(l, h, p)
      PROVE  IInv'
  BY <1>2, ScheduleLoadStep
<1>3. ASSUME NEW l \in Loader, NEW h \in Host, CrossOriginRedirect(l, h)
      PROVE  IInv'
  BY <1>3, CrossOriginRedirectStep
<1>4. ASSUME NEW l \in Loader, LoadEnds(l) \/ LoadCancelled(l)
      PROVE  IInv'
  BY <1>4, LoadRemovedStep DEF LoadEnds, LoadCancelled
<1>5. ASSUME NEW l \in Loader, LoadRefused(l)
      PROVE  IInv'
  BY <1>5, LoadRefusedStep
<1>6. CASE RequestTimerFires
  <2>1. ServeAll /\ UNCHANGED <<loads, suspended, parsing>> /\ timer' \in BOOLEAN
    BY <1>6 DEF RequestTimerFires
  <2> QED  BY <2>1, ServeAllFacts
<1>7. CASE PerformPostLoadActions
  <2>1. ServeAll /\ UNCHANGED <<loads, suspended, parsing>> /\ timer' \in BOOLEAN
    BY <1>7 DEF PerformPostLoadActions, IInv, TypeOK
  <2> QED  BY <2>1, ServeAllFacts
<1>8. CASE Suspend
  <2>1. UNCHANGED loads /\ suspended' = TRUE
    BY <1>8 DEF Suspend
  <2>2. TypeOK'
    BY <1>8 DEF Suspend, IInv, TypeOK, loads
  <2>3. WakeUp'
    BY <2>1 DEF WakeUp
  <2> QED  BY <2>1, <2>2, <2>3, LoadsFrame DEF IInv
<1>9. CASE Resume
  BY <1>9, ResumeStep
<1>10. CASE DocumentChanges
  <2>1. /\ UNCHANGED <<loads, timer, suspended, serving, minimum>>
        /\ parsing' = ~parsing
    BY <1>10 DEF DocumentChanges
  <2>2. TypeOK'
    BY <2>1 DEF IInv, TypeOK, loads
  <2>3. WakeUp'
    BY <2>1 DEF IInv, WakeUp, ToBeServed, HasPending, loads
  <2> QED  BY <2>1, <2>2, <2>3, LoadsFrame DEF IInv
<1>11. ASSUME NEW h \in Host, StartPending(h)
       PROVE  IInv'
  BY <1>11, StartPendingStep
<1>12. ASSUME NEW h \in Host, HostServed(h)
       PROVE  IInv'
  BY <1>12, HostServedStep
<1>13. CASE UNCHANGED vars
  <2>1. UNCHANGED <<loads, timer, suspended, parsing, serving, minimum>>
    BY <1>13 DEF vars, loads
  <2>2. TypeOK'
    BY <2>1 DEF IInv, TypeOK, loads
  <2>3. WakeUp'
    BY <2>1 DEF IInv, WakeUp, ToBeServed, HasPending, loads
  <2> QED  BY <2>1, <2>2, <2>3, LoadsFrame DEF IInv
<1> QED
  BY <1>1, <1>2, <1>3, <1>4, <1>5, <1>6, <1>7, <1>8, <1>9, <1>10, <1>11, <1>12, <1>13
     DEF Next

LEMMA Invariance == Spec => []IInv
BY InitIInv, NextIInv, PTL DEF Spec

(***************************************************************************)
(* Whatever the loaders, hosts and limits: the variables keep their types; *)
(* in particular m_hosts never holds the host of other protocols, and the  *)
(* queues hold loaders only.                                               *)
(***************************************************************************)
THEOREM TypeCorrect == Spec => []TypeOK
<1>1. IInv => TypeOK
  BY DEF IInv
<1> QED  BY <1>1, Invariance, PTL

(***************************************************************************)
(* remove() and crossOriginRedirectReceived find every loader that is      *)
(* registered at the host of its current URL, in one place, once.          *)
(***************************************************************************)
THEOREM Findable == Spec => []LoaderFindable
<1>1. IInv => LoaderFindable
  BY DEF IInv
<1> QED  BY <1>1, Invariance, PTL

(***************************************************************************)
(* servePendingRequests() deletes no host that has requests.               *)
(***************************************************************************)
THEOREM Hosts == Spec => []HostsKept
<1>1. IInv => HostsKept
  BY HostsFacts DEF IInv
<1> QED  BY <1>1, Invariance, PTL

(***************************************************************************)
(* Between calls, what waits has a timer, the end of a suspension or the   *)
(* end of a load that will serve it, although a redirect frees a slot of a *)
(* host without setting the timer.                                         *)
(***************************************************************************)
THEOREM WakeUps == Spec => []WakeUpSecured
<1>1. IInv => WakeUpSecured
  BY DEF IInv, WakeUp, WakeUpSecured, ToBeServed, Idle
<1> QED  BY <1>1, Invariance, PTL

=============================================================================
