------------------------ MODULE ResourceLoadScheduler ------------------------
(***************************************************************************)
(* The queues that stand before the network back end: the loads of each    *)
(* host, those in progress and those that wait by priority, and the timer  *)
(* that serves the queues once something has changed.                      *)
(*                                                                         *)
(*   Source/WebCore/loader/ResourceLoadScheduler.cpp                       *)
(*   Source/WebCore/loader/ResourceLoader.cpp, MainResourceLoader.cpp      *)
(*                                                                         *)
(* Starting a load calls nobody back (ResourceHandleManager::add queues    *)
(* it), so that the loops of servePendingRequests are steps here without   *)
(* steps of others between them.  A loader is used once.                   *)
(***************************************************************************)
EXTENDS Integers, Sequences, FiniteSets, SequencesExt

CONSTANTS
    Loader,
    Host,          \* the host names, and NonHTTP
    NonHTTP,       \* m_nonHTTPProtocolHost
    InFlight,      \* maxRequestsInFlightPerHost
    InFlightNonHTTP  \* maxRequestsInFlightForNonHTTPProtocols

ASSUME HostAssumption == NonHTTP \in Host /\ Host \cap {"new", "done"} = {}
ASSUME LimitAssumption == {InFlight, InFlightNonHTTP} \subseteq Nat \ {0}

VeryLow == 0
Low == 1
High == 3
Priority == VeryLow..High

VARIABLES
    url,        \* the host in ResourceLoader::url(); see Stages
    pending,    \* m_requestsPending of each host and priority
    loading,    \* m_requestsLoading of each host
    hosts,      \* the keys of m_hosts
    timer,      \* m_requestTimer.isActive()
    suspended,  \* m_isSuspendingPendingRequests
    parsing,    \* the document is parsing or has no stylesheets yet
    serving,    \* hosts that servePendingRequests has still to serve
    minimum     \* its minimumPriority

loads == <<url, pending, loading, hosts>>
vars == <<url, pending, loading, hosts, timer, suspended, parsing, serving, minimum>>

Stages == Host \cup {"new", "done"}  \* of a loader that has a host or has none

TypeOK ==
    /\ url \in [Loader -> Stages]
    /\ pending \in [Host -> [Priority -> Seq(Loader)]]
    /\ loading \in [Host -> SUBSET Loader]
    /\ hosts \subseteq Host \ {NonHTTP}
    /\ timer \in BOOLEAN
    /\ suspended \in BOOLEAN
    /\ parsing \in BOOLEAN
    /\ serving \subseteq Host
    /\ minimum \in Priority

Init ==
    /\ url = [l \in Loader |-> "new"]
    /\ pending = [h \in Host |-> [p \in Priority |-> <<>>]]
    /\ loading = [h \in Host |-> {}]
    /\ hosts = {}
    /\ timer = FALSE
    /\ suspended = FALSE
    /\ parsing = TRUE
    /\ serving = {}
    /\ minimum = VeryLow

-----------------------------------------------------------------------------
(* HostInformation.                                                          *)

\* Mutant: other protocols get a host of their own name too.
WithHostAlways(h) == hosts \cup {h}

\* hostForURL: the host of a URL is found, or made with CreateIfNotFound.
Known == hosts \cup {NonHTTP}
WithHost(h) == hosts \cup ({h} \ {NonHTTP})

Waits(l, h, p) == l \in ToSet(pending[h][p])
HasPending(h) == \E p \in Priority : pending[h][p] # <<>>
HasRequests(h) == loading[h] # {} \/ HasPending(h)

\* shouldLimitRequests and limitRequests
Limited(h, p) ==
    /\ h # NonHTTP \/ parsing
    /\ \/ p = VeryLow /\ loading[h] # {}
       \/ Cardinality(loading[h]) >= IF h = NonHTTP THEN InFlightNonHTTP ELSE InFlight

\* HostInformation::remove: the loads in progress, sets, are looked at first.
RemoveFrom(l, h, sets) ==
    /\ loading' = [sets EXCEPT ![h] = @ \ {l}]
    /\ \/ l \in sets[h] /\ UNCHANGED pending
       \/ /\ l \notin sets[h]
          /\ ~\E p \in Priority : Waits(l, h, p)
          /\ UNCHANGED pending
       \/ /\ l \notin sets[h]
          /\ \E p \in Priority : \E i \in 1..Len(pending[h][p]) :
                /\ pending[h][p][i] = l
                /\ pending' = [pending EXCEPT ![h][p] = RemoveAt(@, i)]

-----------------------------------------------------------------------------
(* What resource loaders, documents and timers call.  None of it happens     *)
(* while servePendingRequests runs.                                          *)

Idle == serving = {}

\* addMainResourceLoad: the limit is not asked
AddMainResourceLoad(l, h) ==
    /\ Idle
    /\ url[l] = "new"
    /\ url' = [url EXCEPT ![l] = h]
    /\ hosts' = WithHost(h)
    /\ loading' = [loading EXCEPT ![h] = @ \cup {l}]
    /\ UNCHANGED <<pending, timer, suspended, parsing, serving, minimum>>

\* scheduleLoad: what is important, not HTTP, or the first of its host is
\* served at once, also while requests are suspended.
ScheduleLoad(l, h, p) ==
    LET atOnce == p > Low \/ h = NonHTTP \/ (p = Low /\ ~HasRequests(h)) IN
    /\ Idle
    /\ url[l] = "new"
    /\ url' = [url EXCEPT ![l] = h]
    /\ hosts' = WithHost(h)
    /\ pending' = [pending EXCEPT ![h][p] = Append(@, l)]
    /\ serving' = IF atOnce THEN {h} ELSE {}
    /\ minimum' = IF atOnce THEN p ELSE minimum
    /\ timer' = (timer \/ ~atOnce)
    /\ UNCHANGED <<loading, suspended, parsing>>

\* Mutant: the loader is looked for under the host it is redirected to.
RedirectRemovesNew(l, h) ==
    /\ Idle
    /\ url[l] \in Host \ {h}
    /\ l \in loading[url[l]]
    /\ url' = [url EXCEPT ![l] = h]
    /\ hosts' = WithHost(h)
    /\ RemoveFrom(l, h, [loading EXCEPT ![h] = @ \cup {l}])
    /\ UNCHANGED <<timer, suspended, parsing, serving, minimum>>

\* crossOriginRedirectReceived, and m_request = request: the load moves to the
\* new host whatever its limit, and no timer serves the old one.
CrossOriginRedirect(l, h) ==
    /\ Idle
    /\ url[l] \in Host \ {h}
    /\ l \in loading[url[l]]
    /\ url' = [url EXCEPT ![l] = h]
    /\ hosts' = WithHost(h)
    /\ RemoveFrom(l, url[l], [loading EXCEPT ![h] = @ \cup {l}])
    /\ UNCHANGED <<timer, suspended, parsing, serving, minimum>>

\* Mutant: the queues are not served after the end of a load.
LoadRemovedQuietly(l) ==
    /\ Idle
    /\ url[l] \in Host
    /\ url' = [url EXCEPT ![l] = "done"]
    /\ IF url[l] \in Known
       THEN RemoveFrom(l, url[l], loading)
       ELSE UNCHANGED <<pending, loading>>
    /\ UNCHANGED <<hosts, timer, suspended, parsing, serving, minimum>>

\* remove(), by releaseResources at the end of a load
LoadRemoved(l) ==
    /\ Idle
    /\ url[l] \in Host
    /\ url' = [url EXCEPT ![l] = "done"]
    /\ IF url[l] \in Known
       THEN RemoveFrom(l, url[l], loading)
       ELSE UNCHANGED <<pending, loading>>
    /\ timer' = TRUE
    /\ UNCHANGED <<hosts, suspended, parsing, serving, minimum>>

\* A load in progress ends: it finishes, fails or is cancelled.
LoadEnds(l) == url[l] \in Host /\ l \in loading[url[l]] /\ LoadRemoved(l)

\* A load that waits is cancelled.
LoadCancelled(l) == url[l] \in Host /\ l \notin loading[url[l]] /\ LoadRemoved(l)

\* A loader that init() refuses calls remove() without ever being scheduled.
LoadRefused(l) ==
    /\ Idle
    /\ url[l] = "new"
    /\ url' = [url EXCEPT ![l] = "done"]
    /\ timer' = TRUE
    /\ UNCHANGED <<pending, loading, hosts, suspended, parsing, serving, minimum>>

\* servePendingRequests(): all hosts, unless requests are suspended
ServeAll ==
    /\ serving' = IF suspended THEN {} ELSE Known
    /\ minimum' = IF suspended THEN minimum ELSE VeryLow

RequestTimerFires ==
    /\ Idle
    /\ timer
    /\ timer' = FALSE
    /\ ServeAll
    /\ UNCHANGED <<loads, suspended, parsing>>

\* CachedResourceLoader::performPostLoadActions
PerformPostLoadActions ==
    /\ Idle
    /\ timer' = (timer /\ suspended)
    /\ ServeAll
    /\ UNCHANGED <<loads, suspended, parsing>>

Suspend ==
    /\ Idle
    /\ ~suspended
    /\ suspended' = TRUE
    /\ UNCHANGED <<loads, timer, parsing, serving, minimum>>

\* Mutant: what waits is not served after the suspension.
ResumeWithoutTimer ==
    /\ Idle
    /\ suspended
    /\ suspended' = FALSE
    /\ UNCHANGED <<loads, timer, parsing, serving, minimum>>

Resume ==
    /\ Idle
    /\ suspended
    /\ suspended' = FALSE
    /\ timer' = (timer \/ hosts # {} \/ HasRequests(NonHTTP))
    /\ UNCHANGED <<loads, parsing, serving, minimum>>

\* The document begins or ends parsing, or its stylesheets arrive.
DocumentChanges ==
    /\ Idle
    /\ parsing' = ~parsing
    /\ UNCHANGED <<loads, timer, suspended, serving, minimum>>

-----------------------------------------------------------------------------
(* servePendingRequests(host, minimumPriority).  Hosts share nothing but the *)
(* table, so that the order in which they are served does not matter.        *)

\* The highest priority that is served and has loads that wait.
Served(h, p) ==
    /\ p >= minimum
    /\ pending[h][p] # <<>>
    /\ \A q \in Priority : q > p => pending[h][q] = <<>>

StartPending(h) ==
    /\ h \in serving
    /\ \E p \in Priority :
          LET l == Head(pending[h][p]) IN
          /\ Served(h, p)
          /\ ~Limited(h, p)
          /\ pending' = [pending EXCEPT ![h][p] = Tail(@)]
          /\ loading' = [loading EXCEPT ![h] = @ \cup {l}]
    /\ UNCHANGED <<url, hosts, timer, suspended, parsing, serving, minimum>>

\* Mutant: a host is deleted when nothing waits, also while it has loads.
HostServedDeletesLoading(h) ==
    /\ h \in serving
    /\ \A p \in Priority : Served(h, p) => Limited(h, p)
    /\ serving' = serving \ {h}
    /\ hosts' = IF HasPending(h) THEN hosts ELSE hosts \ {h}
    /\ UNCHANGED <<url, pending, loading, timer, suspended, parsing, minimum>>

\* The host is served as far as it can be; one without requests is deleted.
HostServed(h) ==
    /\ h \in serving
    /\ \A p \in Priority : Served(h, p) => Limited(h, p)
    /\ serving' = serving \ {h}
    /\ hosts' = IF HasRequests(h) THEN hosts ELSE hosts \ {h}
    /\ UNCHANGED <<url, pending, loading, timer, suspended, parsing, minimum>>

-----------------------------------------------------------------------------
Next ==
    \/ \E l \in Loader :
          \/ \E h \in Host :
                \/ AddMainResourceLoad(l, h)
                \/ \E p \in Priority : ScheduleLoad(l, h, p)
                \/ CrossOriginRedirect(l, h)
          \/ LoadEnds(l) \/ LoadCancelled(l) \/ LoadRefused(l)
    \/ RequestTimerFires \/ PerformPostLoadActions
    \/ Suspend \/ Resume \/ DocumentChanges
    \/ \E h \in Host : StartPending(h) \/ HostServed(h)

Spec == Init /\ [][Next]_vars

(***************************************************************************)
(* Fairness: the code runs, a suspension (the attachment of a subtree)     *)
(* ends, the timer fires outside suspensions, which last only as long as   *)
(* one call of the event loop, and a load in progress ends: see Answered   *)
(* of ResourceHandleManager.                                               *)
(***************************************************************************)
Fairness ==
    /\ \A h \in Host : WF_vars(StartPending(h)) /\ WF_vars(HostServed(h))
    /\ SF_vars(~suspended /\ RequestTimerFires)
    /\ SF_vars(Resume)
    /\ \A l \in Loader : SF_vars(LoadEnds(l))

FairSpec == Spec /\ Fairness

-----------------------------------------------------------------------------
(***************************************************************************)
(* A loader is found where remove() and redirects look for it: in one      *)
(* place, once, at the host of its current URL, whatever redirects it went *)
(* through.  One that is gone is nowhere: it would hold a slot for ever.   *)
(***************************************************************************)
Holds(h, l) == l \in loading[h] \/ \E p \in Priority : Waits(l, h, p)

LoaderFindable ==
    /\ \A l \in Loader, h \in Host : Holds(h, l) <=> url[l] = h
    /\ \A l \in Loader, h \in Host, p \in Priority :
          Waits(l, h, p) => /\ l \notin loading[h]
                            /\ \A q \in Priority : Waits(l, h, q) => q = p
    /\ \A h \in Host, p \in Priority : \A i, k \in 1..Len(pending[h][p]) :
          pending[h][p][i] = pending[h][p][k] => i = k

(***************************************************************************)
(* A host is deleted only when it has no requests: m_hosts keeps the host  *)
(* of each load, which crossOriginRedirectReceived dereferences, and       *)
(* ~HostInformation asserts that it is empty.                              *)
(***************************************************************************)
HostsKept == \A h \in Host : HasRequests(h) => h \in Known

(***************************************************************************)
(* A load that waits has something that will serve its host: the timer,    *)
(* the end of a suspension, or the end of a load, of its own host or after *)
(* a redirect of another.                                                  *)
(***************************************************************************)
WakeUpSecured ==
    Idle /\ (\E h \in Host : HasPending(h)) =>
        timer \/ suspended \/ \E h \in Host : loading[h] # {}

(***************************************************************************)
(* No load is forgotten: what waits is started or cancelled.               *)
(***************************************************************************)
Waiting(l) == \E h \in Host, p \in Priority : Waits(l, h, p)

LoadStarts(l) == Waiting(l) ~> ~Waiting(l)

=============================================================================
