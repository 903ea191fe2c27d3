--------------------------- MODULE SubresourceLoader ---------------------------
(***************************************************************************)
(* The loads of a document's subresources: from the answers of a           *)
(* ResourceHandle through the SubresourceLoader and its client, the        *)
(* CachedResourceRequest, to the CachedResource, and the cancellation that *)
(* may come in the middle of any of it.                                    *)
(*                                                                         *)
(*   Source/WebCore/loader/ResourceLoader.cpp, SubresourceLoader.cpp,      *)
(*   DocumentLoader.cpp, cache/CachedResourceRequest.cpp, CachedResource.cpp *)
(*                                                                         *)
(* Everything runs on the main thread.  What makes it hard is that a call  *)
(* to an observer, a script or the host may call back, so the calls that   *)
(* have not returned are kept on a stack; a frame says where its call goes *)
(* on.  Events find the stack empty: the event loop of a dialogue that is  *)
(* opened inside one of these calls is left out.                           *)
(*                                                                         *)
(* The bytes, caching, priorities (ResourceLoadScheduler), progress, the   *)
(* inspector and the parts of a multipart answer are left out: libcurl     *)
(* does not separate the parts.                                            *)
(***************************************************************************)
EXTENDS Naturals, Sequences, FiniteSets, SequencesExt

CONSTANT Load

VARIABLES
    (* ResourceLoader and SubresourceLoader *)
    created,
    reachedTerminalState,
    calledWillCancel,
    cancelled,
    client,         \* those whose m_client is set
    handle,         \* m_handle: "none", "live", or "cancelled" behind the
                    \* loader's back
    deferred,       \* those whose m_deferredRequest is set
    multipart,      \* those with m_loadingMultipartContent, and m_multipart
    (* the lists they are on *)
    scheduled,      \* ResourceLoadScheduler: "no", "pending", "loading"
    subresourceLoaders,  \* DocumentLoader's m_subresourceLoaders
    (* CachedResourceRequest and CachedResource *)
    request,        \* those whose CachedResource has its m_request
    finishing,      \* m_finishing
    validator,      \* the resource revalidates another
    loading,        \* m_loading
    errorOccurred,
    requestCount,   \* CachedResourceLoader's m_requestCount
    (* the page and the thread *)
    defers,         \* m_defersLoading of the page and of its loaders
    responded,      \* the handle has given its response
    stack           \* the calls that have not returned, innermost last

loader == <<created, reachedTerminalState, calledWillCancel, cancelled, client, multipart>>
net == <<handle, deferred, responded>>
lists == <<scheduled, subresourceLoaders>>
cache == <<request, finishing, validator, loading, errorOccurred, requestCount>>
vars == <<loader, net, lists, cache, defers, stack>>

\* Where a call goes on.  In those of Open observers, scripts or the host may
\* still be running, and may do what they like.
Open == {"data", "end", "stop", "notified", "finish.removed", "fail.removed",
         "cancel.removed"}
Place == Open \cup {"response", "notify", "finish", "fail", "cancel", "cancelAll"}

Frame == [at : Place, loads : SUBSET Load]

At(place, l) == [at |-> place, loads |-> {l}]
Top(place, l) == stack # <<>> /\ Last(stack) = At(place, l)
Return == stack' = Front(stack)
GoOnAt(place, l) == stack' = Append(Front(stack), At(place, l))
Call(frames) == stack' = stack \o frames

\* Scripts and the host run, called from here or from the event loop.
Running == IF stack = <<>> THEN TRUE ELSE Last(stack).at \in Open

TypeOK ==
    /\ \A flags \in {created, reachedTerminalState, calledWillCancel, cancelled, client,
                     deferred, multipart, subresourceLoaders, request, finishing, validator,
                     loading, errorOccurred, responded} : flags \subseteq Load
    /\ handle \in [Load -> {"none", "live", "cancelled"}]
    /\ scheduled \in [Load -> {"no", "pending", "loading"}]
    /\ requestCount \in Nat
    /\ defers \in BOOLEAN
    /\ stack \in Seq(Frame)

Init ==
    /\ created = {} /\ reachedTerminalState = {} /\ calledWillCancel = {} /\ cancelled = {}
    /\ client = {} /\ deferred = {} /\ multipart = {} /\ subresourceLoaders = {}
    /\ request = {} /\ finishing = {} /\ validator = {} /\ loading = {}
    /\ errorOccurred = {} /\ responded = {}
    /\ handle = [l \in Load |-> "none"]
    /\ scheduled = [l \in Load |-> "no"]
    /\ requestCount = 0
    /\ defers \in BOOLEAN
    /\ stack = <<>>

-----------------------------------------------------------------------------
(* A load is made, and started when the scheduler gives it a slot.          *)

CachedResourceLoad(l) ==
    /\ Running
    /\ l \notin created
    /\ created' = created \cup {l}
    /\ client' = client \cup {l}
    /\ subresourceLoaders' = subresourceLoaders \cup {l}
    /\ scheduled' = [scheduled EXCEPT ![l] = "pending"]
    /\ request' = request \cup {l}
    /\ loading' = loading \cup {l}
    /\ validator' \in {validator, validator \cup {l}}
    /\ requestCount' = requestCount + 1
    /\ UNCHANGED <<reachedTerminalState, calledWillCancel, cancelled, multipart, net,
                   finishing, errorOccurred, defers, stack>>

Start(l) ==
    /\ Running
    /\ scheduled[l] = "pending"
    /\ scheduled' = [scheduled EXCEPT ![l] = "loading"]
    /\ IF defers
       THEN deferred' = deferred \cup {l} /\ UNCHANGED handle
       ELSE handle' = [handle EXCEPT ![l] = "live"] /\ UNCHANGED deferred
    /\ UNCHANGED <<loader, responded, subresourceLoaders, cache, defers, stack>>

\* Mutant: a deferred request is forgotten.
SetDefersLoadingForgets ==
    /\ Running
    /\ defers' = ~defers
    /\ deferred' = IF defers THEN deferred \ subresourceLoaders ELSE deferred
    /\ UNCHANGED <<loader, handle, responded, lists, cache, stack>>

\* Page::setDefersLoading reaches the loaders through the DocumentLoader.
SetDefersLoading ==
    /\ Running
    /\ defers' = ~defers
    /\ LET restarted == IF defers THEN deferred \cap subresourceLoaders ELSE {}
       IN  /\ deferred' = deferred \ restarted
           /\ handle' = [l \in Load |-> IF l \in restarted THEN "live" ELSE handle[l]]
    /\ UNCHANGED <<loader, responded, lists, cache, stack>>

-----------------------------------------------------------------------------
(* Pieces of several calls.                                                 *)

\* Mutant: a multipart answer is counted down a second time.
UncountAlways(l) == requestCount' = requestCount - 1

Uncount(l) ==
    requestCount' = IF l \in multipart THEN requestCount ELSE requestCount - 1

\* Mutant: a request that is ending takes a second end.
TakesAnyEnd(l) == l \in client

\* A client that has not begun to end, to which its loader's end is news.
TakesEnd(l) == l \in client \ finishing

\* Mutant: the scheduler is not told.
ReleaseKeepsSlot(l) ==
    /\ reachedTerminalState' = reachedTerminalState \cup {l}
    /\ handle' = [handle EXCEPT ![l] = "none"]
    /\ deferred' = deferred \ {l}
    /\ UNCHANGED scheduled

\* releaseResources
Release(l) ==
    /\ reachedTerminalState' = reachedTerminalState \cup {l}
    /\ scheduled' = [scheduled EXCEPT ![l] = "no"]
    /\ handle' = [handle EXCEPT ![l] = "none"]
    /\ deferred' = deferred \ {l}

\* DocumentLoader::removeSubresourceLoader, which may end the load of the
\* document and tell the host so.
RemoveLoader(l) == subresourceLoaders' = subresourceLoaders \ {l}

\* cancel(), up to the return of willCancel: a client that has not finished is
\* told of the failure, and ends the request.  calls are those that wait for it.
Cancel(l, calls) ==
    LET ends == l \notin calledWillCancel /\ TakesEnd(l)
    IN  /\ l \notin reachedTerminalState
        /\ calledWillCancel' = calledWillCancel \cup {l}
        /\ IF ends
           THEN /\ Uncount(l)
                /\ finishing' = finishing \cup {l}
                /\ client' = client \ {l}
                /\ validator' = validator \ {l}
                /\ stack' = calls \o <<At("cancel", l), At("end", l)>>
           ELSE /\ stack' = Append(calls, At("cancel", l))
                /\ UNCHANGED <<requestCount, finishing, client, validator>>
        /\ UNCHANGED <<created, reachedTerminalState, cancelled, multipart, net, lists,
                       request, loading, errorOccurred, defers>>

-----------------------------------------------------------------------------
(* What the handle answers.                                                 *)

\* While the page defers its loads they are paused, but libcurl may have dropped
\* the pause (OnlyDroppedPauses of ResourceHandleManager).
Answers(l) == stack = <<>> /\ handle[l] = "live"

\* A redirection the page may not follow is cancelled by the client.
RefuseRedirect(l) ==
    /\ Answers(l) /\ l \notin responded /\ l \in client
    /\ Cancel(l, stack)

Response(l) ==
    /\ Answers(l) /\ l \notin responded
    /\ responded' = responded \cup {l}
    /\ UNCHANGED <<created, reachedTerminalState, calledWillCancel, cancelled, deferred,
                   lists, request, loading, errorOccurred, defers>>
    /\ \/ /\ validator' = validator \ {l}
          /\ Call(<<At("response", l)>>)
          /\ UNCHANGED <<client, multipart, handle, finishing, requestCount>>
       \* 304: the request ends here, the loader goes on without a client.
       \/ /\ l \in client \cap validator
          /\ validator' = validator \ {l}
          /\ client' = client \ {l}
          /\ Uncount(l)
          /\ finishing' = finishing \cup {l}
          /\ Call(<<At("response", l), At("end", l)>>)
          /\ UNCHANGED <<multipart, handle>>
       \* multipart: not counted any more; for all but images it is the handle
       \* that is cancelled, and not the loader.
       \/ /\ l \in client
          /\ validator' = validator \ {l}
          /\ multipart' = multipart \cup {l}
          /\ Uncount(l)
          /\ handle' \in {handle, [handle EXCEPT ![l] = "cancelled"]}
          /\ Call(<<At("response", l)>>)
          /\ UNCHANGED <<client, finishing>>

\* Mutant: the client may not have ended the load.
ResponseNotifyAlways(l) ==
    /\ Top("response", l)
    /\ GoOnAt("notify", l)
    /\ UNCHANGED <<loader, net, lists, cache, defers>>

\* didReceiveResponse, after the client: the notifier is given documentLoader().
ResponseNotify(l) ==
    /\ Top("response", l)
    /\ IF l \in reachedTerminalState THEN Return ELSE GoOnAt("notify", l)
    /\ UNCHANGED <<loader, net, lists, cache, defers>>

\* Data of an answer of 400 or more is an error, which the observers see; data
\* of a multipart answer is kept for the end.
DataOfError(l) ==
    /\ Answers(l) /\ l \in responded
    /\ l \in client \ (multipart \cup errorOccurred)
    /\ errorOccurred' = errorOccurred \cup {l}
    /\ loading' = loading \ {l}
    /\ Call(<<At("data", l)>>)
    /\ UNCHANGED <<loader, net, lists, request, finishing, validator, requestCount, defers>>

\* The client finishes the resource, unless an error has: its observers are
\* notified, and then the request ends.
Finish(l) ==
    /\ Answers(l) /\ l \in responded
    /\ IF TakesEnd(l)
       THEN /\ Uncount(l)
            /\ finishing' = finishing \cup {l}
            /\ loading' = loading \ {l}
            /\ Call(<<At("finish", l), At("end", l)>>)
       ELSE /\ Call(<<At("finish", l)>>)
            /\ UNCHANGED <<requestCount, finishing, loading>>
    /\ UNCHANGED <<loader, net, lists, request, validator, errorOccurred, defers>>

Fail(l) ==
    /\ Answers(l)
    /\ IF TakesEnd(l)
       THEN /\ Uncount(l)
            /\ finishing' = finishing \cup {l}
            /\ client' = client \ {l}
            /\ validator' = validator \ {l}
            /\ errorOccurred' = errorOccurred \cup {l}
            /\ loading' = loading \ {l}
            /\ Call(<<At("fail", l), At("end", l)>>)
       ELSE /\ Call(<<At("fail", l)>>)
            /\ UNCHANGED <<requestCount, finishing, client, validator, errorOccurred, loading>>
    /\ UNCHANGED <<created, reachedTerminalState, calledWillCancel, cancelled, multipart, net,
                   lists, request, defers>>

-----------------------------------------------------------------------------
(* Where calls go on.                                                       *)

\* end(): loadDone() may complete the document.
LoadDone(l) ==
    /\ Top("end", l)
    /\ GoOnAt("stop", l)
    /\ UNCHANGED <<loader, net, lists, cache, defers>>

\* stopLoading() deletes the request, and tells the observers of a resource
\* that was cancelled.
StopLoading(l) ==
    /\ Top("stop", l)
    /\ request' = request \ {l}
    /\ loading' = loading \ {l}
    /\ IF l \in loading THEN GoOnAt("notified", l) ELSE Return
    /\ UNCHANGED <<loader, net, lists, finishing, validator, errorOccurred, requestCount,
                   defers>>

Done(l) ==
    /\ \E place \in {"data", "notify", "notified"} : Top(place, l)
    /\ Return
    /\ UNCHANGED <<loader, net, lists, cache, defers>>

\* SubresourceLoader's didFinishLoading and didFail, after the client.
RemoveEnded(l) ==
    \E place \in {"finish", "fail"} :
      /\ Top(place, l)
      /\ handle' = [handle EXCEPT ![l] = "none"]
      /\ IF l \in cancelled
         THEN Return /\ UNCHANGED subresourceLoaders
         ELSE /\ RemoveLoader(l)
              /\ GoOnAt(IF place = "finish" THEN "finish.removed" ELSE "fail.removed", l)
      /\ UNCHANGED <<loader, deferred, responded, scheduled, cache, defers>>

\* ResourceLoader's.
ReleaseEnded(l) ==
    /\ Top("finish.removed", l) \/ Top("fail.removed", l)
    /\ Return
    /\ IF l \in cancelled
       THEN UNCHANGED <<reachedTerminalState, scheduled, handle, deferred>>
       ELSE Release(l)
    /\ UNCHANGED <<created, calledWillCancel, cancelled, client, multipart, responded,
                   subresourceLoaders, cache, defers>>

\* cancel(), after willCancel: picked up where a call inside it has left off.
CancelHandle(l) ==
    /\ Top("cancel", l)
    /\ cancelled' = cancelled \cup {l}
    /\ handle' = IF l \in cancelled THEN handle ELSE [handle EXCEPT ![l] = "none"]
    /\ IF l \in reachedTerminalState
       THEN Return /\ UNCHANGED subresourceLoaders
       ELSE RemoveLoader(l) /\ GoOnAt("cancel.removed", l)
    /\ UNCHANGED <<created, reachedTerminalState, calledWillCancel, client, multipart,
                   deferred, responded, scheduled, cache, defers>>

ReleaseCancelled(l) ==
    /\ Top("cancel.removed", l)
    /\ Return
    /\ Release(l)
    /\ UNCHANGED <<created, calledWillCancel, cancelled, client, multipart, responded,
                   subresourceLoaders, cache, defers>>

\* cancelAll goes through a copy of the set; some of it may have ended since.
CancelNext ==
    /\ stack # <<>> /\ Last(stack).at = "cancelAll"
    /\ LET rest == Last(stack).loads
           back(l) == Append(Front(stack), [at |-> "cancelAll", loads |-> rest \ {l}])
       IN  \/ rest = {} /\ Return
              /\ UNCHANGED <<loader, net, lists, cache, defers>>
           \/ \E l \in rest \cap reachedTerminalState :
                stack' = back(l) /\ UNCHANGED <<loader, net, lists, cache, defers>>
           \/ \E l \in rest : Cancel(l, back(l))

-----------------------------------------------------------------------------
(* What scripts and the host may do while they run.                         *)

\* The last observer of a raw resource goes: CachedResourceRequest::cancel.
CancelRequest(l) ==
    /\ Running
    /\ l \in request \ finishing
    /\ Cancel(l, stack)

\* stopLoadingSubresources, when the page is left or the host stops it.
StopLoadingSubresources ==
    /\ Running
    /\ subresourceLoaders # {}
    /\ Call(<<[at |-> "cancelAll", loads |-> subresourceLoaders]>>)
    /\ UNCHANGED <<loader, net, lists, cache, defers>>

-----------------------------------------------------------------------------
Environment ==
    \/ SetDefersLoading \/ StopLoadingSubresources
    \/ \E l \in Load : CachedResourceLoad(l) \/ CancelRequest(l)

Event(l) == RefuseRedirect(l) \/ Response(l) \/ DataOfError(l) \/ Finish(l) \/ Fail(l)

GoesOn ==
    \/ \E l \in Load :
          \/ ResponseNotify(l) \/ LoadDone(l) \/ StopLoading(l) \/ Done(l)
          \/ RemoveEnded(l) \/ ReleaseEnded(l) \/ CancelHandle(l) \/ ReleaseCancelled(l)
    \/ CancelNext

Next == Environment \/ GoesOn \/ \E l \in Load : Start(l) \/ Event(l)

Spec == Init /\ [][Next]_vars

\* Calls return, the scheduler gets to every load, and the back end answers it
\* in the end, unless it stays deferred (Answered of ResourceHandleManager).
Fairness ==
    /\ WF_vars(GoesOn)
    /\ \A l \in Load :
          /\ WF_vars(Start(l))
          /\ WF_vars(~defers /\ Response(l))
          /\ WF_vars(~defers /\ (Finish(l) \/ Fail(l)))

FairSpec == Spec /\ Fairness

-----------------------------------------------------------------------------
Calls(places, l) ==
    Cardinality({i \in 1..Len(stack) : stack[i].at \in places /\ stack[i].loads = {l}})

\* A request is deleted by its own end(), which a call inside it cannot run a
\* second time, and after that no loader calls it as its client: only one that
\* is ending, whose call to the client is over.
RequestOutlivesCalls == \A l \in Load :
    /\ Calls({"end", "stop"}, l) = IF l \in finishing \cap request THEN 1 ELSE 0
    /\ l \in client \ request =>
          \/ l \in reachedTerminalState
          \/ Calls({"finish", "finish.removed"}, l) = 1 /\ l \notin subresourceLoaders
          \/ Top("finish", l)

Releasing == {"finish.removed", "fail.removed", "cancel.removed"}

\* No call uses the frame or the document loader of a load after it was
\* released, and none releases it again, however often cancel() is entered.
ReleasedOnce == \A l \in Load :
    /\ l \in reachedTerminalState => Calls({"notify"} \cup Releasing, l) = 0
    /\ Calls(Releasing, l) <= 1
    /\ Calls({"cancel"}, l) > 0 /\ l \in reachedTerminalState => l \in cancelled

\* The count that holds back the load event is that of the requests that have
\* not ended, multipart ones apart.
CountIsOutstanding ==
    requestCount = Cardinality(request \ (finishing \cup multipart))

\* Between events every load is either on the lists, where the document's
\* loader can stop it, or over: then nothing of it is left on any list, and no
\* resource is left that seems to load for ever.
AllOrNothing ==
    stack = <<>> => \A l \in created :
        IF l \in reachedTerminalState
        THEN /\ l \notin request \cup loading \cup subresourceLoaders \cup deferred
             /\ scheduled[l] = "no" /\ handle[l] = "none"
        ELSE l \in subresourceLoaders /\ scheduled[l] # "no"

\* Every load ends, if loads do not stay deferred, but one whose handle the
\* client has cancelled behind the loader's back.
EveryLoadEnds == \A l \in Load :
    []<>defers \/ (l \in created ~> l \in reachedTerminalState \/ handle[l] = "cancelled")

=============================================================================
