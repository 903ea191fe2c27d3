------------------------ MODULE ResourceHandleManager ------------------------
(***************************************************************************)
(* The curl network back end: the queue of jobs, the slots of running      *)
(* transfers, the one-shot download timer that polls libcurl, and the      *)
(* ResourceHandle objects the jobs are.                                    *)
(*                                                                         *)
(*   Source/WebCore/platform/network/curl/ResourceHandleManager.cpp        *)
(*   Source/WebCore/platform/network/curl/ResourceHandleCurl.cpp           *)
(*   Source/WebCore/platform/network/ResourceHandle.cpp, DataURL.cpp       *)
(*                                                                         *)
(* Everything runs on the main thread.  What makes it hard is re-entrancy: *)
(* libcurl and the manager call the owner of a job (a ResourceLoader or a  *)
(* PingLoader) in the middle of downloadTimerCallback(), and the owner may *)
(* cancel, defer or create any job before it returns.  pc says where the   *)
(* thread is; pc = "client" is the inside of such a call.                  *)
(*                                                                         *)
(* Of libcurl (3rd_src/libcurl) the module has what the manager depends    *)
(* on: when it runs the callbacks, when a transfer ends or starts over,    *)
(* and what becomes of a pause.                                            *)
(***************************************************************************)
EXTENDS Integers, Sequences, FiniteSets, SequencesExt

CONSTANTS
    Job,            \* the ResourceHandle objects (memory is reused: ref = 0)
    DataJob,        \* those whose URL is a data: URL
    BlockedJob,     \* those that fail by m_failureTimer (bad URL, bad port)
    DeferJob,       \* those whose owners may defer loading (modal dialogs)
    MaxRunningJobs, \* maxRunningJobs
    Faults          \* which calls into the system may fail, see FaultKinds

\* curl_easy_pause() cannot fail to pause; to resume it may, when it hands on
\* what it has kept meanwhile.
FaultKinds == {"select", "add", "resume", "upload"}

ASSUME JobAssumption == /\ DataJob \subseteq Job
                        /\ BlockedJob \subseteq Job
                        /\ DataJob \cap BlockedJob = {}
                        /\ DeferJob \subseteq Job
                        /\ IsFiniteSet(Job)
ASSUME SlotAssumption == MaxRunningJobs \in Nat \ {0}
ASSUME FaultAssumption == Faults \subseteq FaultKinds

NetJob == Job \ (DataJob \cup BlockedJob)

VARIABLES
    d,            \* per job: ResourceHandle and its ResourceHandleInternal
    curl,         \* per job: its transfer in the curl multi handle
    list,         \* m_resourceHandleList
    runningJobs,  \* m_runningJobs
    timer,        \* m_downloadTimer.isActive()
    pc,           \* where the main thread is
    call,         \* the call in progress (or the last one) to a job's owner
    pass,         \* which startScheduledJobs() of downloadTimerCallback(): 1, 2
    started,      \* what that startScheduledJobs() is about to return
    busy          \* runningHandles > 0, as curl_multi_perform() reported it

vars == <<d, curl, list, runningJobs, timer, pc, call, pass, started, busy>>

control == <<pass, started, busy>>

Terminal == {"finish", "fail", "blocked", "cannotShow"}
Events == Terminal \cup {"willSend", "response", "data"}
Labels == {"idle", "start", "select", "perform", "read", "client",
           "localData", "localFinish", "remove", "dataBody", "dataEnd"}

Handle == [ref : Nat,            \* the reference count; 0 is no object
           held : BOOLEAN,       \* the owner's RefPtr (m_handle) points here
           client : BOOLEAN,     \* d->m_client is not null
           cancelled : BOOLEAN,  \* d->m_cancelled
           defers : BOOLEAN,     \* d->m_defersLoading
           easy : BOOLEAN,       \* d->m_handle is not null
           paused : BOOLEAN,     \* of it, data->req.keepon: the transfer is paused
           begun : BOOLEAN,      \* of it, the state: the request is being done
           dropped : BOOLEAN,    \* history: libcurl has dropped the pause
           fired : BOOLEAN,      \* d->m_response.responseFired()
           failure : BOOLEAN]    \* d->m_failureTimer.isActive()

NewHandle == [ref |-> 1, held |-> TRUE, client |-> TRUE, cancelled |-> FALSE,
              defers |-> FALSE, easy |-> FALSE, paused |-> FALSE,
              begun |-> FALSE, dropped |-> FALSE, fired |-> FALSE,
              failure |-> FALSE]

NoHandle == [NewHandle EXCEPT !.ref = 0, !.held = FALSE, !.client = FALSE]

Queued(j) == j \in ToSet(list)

TypeOK ==
    /\ d \in [Job -> Handle]
    /\ curl \in [Job -> {"none", "transfer", "done", "failed"}]
    /\ list \in Seq(Job)
    /\ runningJobs \in Nat
    /\ timer \in BOOLEAN
    /\ pc \in Labels
    /\ call \in [event : Events, job : Job, ret : Labels]
    /\ pass \in {1, 2}
    /\ started \in BOOLEAN
    /\ busy \in BOOLEAN

Init ==
    /\ d = [j \in Job |-> NoHandle]
    /\ curl = [j \in Job |-> "none"]
    /\ list = <<>>
    /\ runningJobs = 0
    /\ timer = FALSE
    /\ pc = "idle"
    /\ call \in [event : {"finish"}, job : Job, ret : {"idle"}]
    /\ pass = 1
    /\ started = FALSE
    /\ busy = FALSE

\* The handle of job j changes to h.
Update(j, h) == d' = [d EXCEPT ![j] = h]

-----------------------------------------------------------------------------
(* Calls to the owner.                                                       *)

\* client()->event(job, ...), after which the code goes on at label r.
Call(e, j, r) ==
    /\ pc' = "client"
    /\ call' = [event |-> e, job |-> j, ret |-> r]

\* if (client()) client()->event(job, ...)
Notify(e, j, r) ==
    IF d[j].client
    THEN Call(e, j, r)
    ELSE pc' = r /\ call' = [call EXCEPT !.job = j]

\* The owner's code runs: from the event loop or inside a call to it.
OwnerRuns == pc \in {"idle", "client"}

\* There is room for a new handle at j: the memory of a deleted one may be
\* used again, but a call that was made for it is still a call for it.
Free(j) == d[j].ref = 0 /\ ~(pc = "client" /\ call.job = j)

-----------------------------------------------------------------------------
(* What owners do: ResourceHandle::create, cancel, setDefersLoading, and     *)
(* dropping the handle.                                                      *)

\* ResourceHandle::create for a good URL: start() and ResourceHandleManager::add
Create(j) ==
    /\ OwnerRuns
    /\ j \notin BlockedJob
    /\ Free(j)
    /\ Update(j, [NewHandle EXCEPT !.ref = 2])
    /\ list' = Append(list, j)
    /\ timer' = TRUE
    /\ UNCHANGED <<curl, runningJobs, pc, call, control>>

\* ResourceHandle::create for a URL the constructor refuses: scheduleFailure
CreateBlocked(j) ==
    /\ OwnerRuns
    /\ j \in BlockedJob
    /\ Free(j)
    /\ Update(j, [NewHandle EXCEPT !.failure = TRUE])
    /\ UNCHANGED <<curl, list, runningJobs, timer, pc, call, control>>

\* The handle is deleted at once, and ~ResourceHandle() calls cancel(), which
\* starts the timer: start() refused the context, or a synchronous load
\* (dispatchSynchronousJob) has run to its end in the caller.
CreateAndDelete ==
    /\ OwnerRuns
    /\ timer' = TRUE
    /\ UNCHANGED <<d, curl, list, runningJobs, pc, call, control>>

\* ResourceLoader::cancel(): cancel() finds the job in the list, and the two
\* references, the list's and the owner's, go.  The last one deletes the
\* handle, and its destructor runs cancel() again.
CancelScheduled(j) ==
    /\ OwnerRuns
    /\ d[j].held
    /\ \E i \in 1..Len(list) :
          /\ list[i] = j
          /\ \A k \in 1..(i - 1) : list[k] # j
          /\ list' = RemoveAt(list, i)
    /\ Update(j, [d[j] EXCEPT !.ref = @ - 2, !.held = FALSE,
                              !.cancelled = @ \/ d[j].ref = 2])
    /\ timer' = (timer \/ d[j].ref = 2)
    /\ UNCHANGED <<curl, runningJobs, pc, call, control>>

\* Mutant: cancel() also gives back the reference that removeFromCurl owns.
CancelStartedDropsBoth(j) ==
    /\ OwnerRuns
    /\ d[j].held
    /\ ~Queued(j)
    /\ Update(j, [d[j] EXCEPT !.ref = @ - 2, !.held = FALSE, !.cancelled = TRUE])
    /\ timer' = TRUE
    /\ UNCHANGED <<curl, list, runningJobs, pc, call, control>>

\* Mutant: cancel() does not look for the job in the list.
CancelIgnoresQueue(j) ==
    /\ OwnerRuns
    /\ d[j].held
    /\ Update(j, [d[j] EXCEPT !.ref = @ - 1, !.held = FALSE, !.cancelled = TRUE])
    /\ timer' = TRUE
    /\ UNCHANGED <<curl, list, runningJobs, pc, call, control>>

\* The same, for a job that is not in the list: m_cancelled tells the callbacks.
CancelStarted(j) ==
    /\ OwnerRuns
    /\ d[j].held
    /\ ~Queued(j)
    /\ Update(j, [d[j] EXCEPT !.ref = @ - 1, !.held = FALSE, !.cancelled = TRUE,
                              !.failure = @ /\ d[j].ref # 1])
    /\ timer' = TRUE
    /\ UNCHANGED <<curl, list, runningJobs, pc, call, control>>

\* ResourceHandle::setDefersLoading(true)
Defer(j) ==
    /\ OwnerRuns
    /\ j \in DeferJob
    /\ d[j].held
    /\ ~d[j].defers
    /\ Update(j, [d[j] EXCEPT !.defers = TRUE, !.failure = FALSE,
                              !.paused = d[j].easy, !.dropped = FALSE])
    /\ UNCHANGED <<curl, list, runningJobs, timer, pc, call, control>>


\* ResourceHandle::setDefersLoading(false)
Resume(j) ==
    /\ OwnerRuns
    /\ d[j].held
    /\ d[j].defers
    /\ Update(j, [d[j] EXCEPT !.defers = FALSE, !.paused = FALSE, !.dropped = FALSE,
                              !.failure = j \in BlockedJob /\ ~(pc = "client" /\ call.job = j)])
    /\ UNCHANGED <<curl, list, runningJobs, timer, pc, call, control>>

\* "Restarting the handle has failed so just cancel it": the owner keeps it, and
\* libcurl has lifted the pause all the same.
ResumeFails(j) ==
    /\ "resume" \in Faults
    /\ OwnerRuns
    /\ d[j].held
    /\ d[j].defers
    /\ d[j].easy
    /\ Update(j, [d[j] EXCEPT !.defers = FALSE, !.paused = FALSE, !.dropped = FALSE,
                              !.cancelled = TRUE])
    /\ timer' = TRUE
    /\ UNCHANGED <<curl, list, runningJobs, pc, call, control>>

\* In a terminal callback the owner lets the handle go, having cleared the
\* client (ResourceLoader::releaseResources) or not (SubresourceLoader).
Release ==
    LET j == call.job IN
    /\ pc = "client"
    /\ call.event \in Terminal
    /\ d[j].held
    /\ \E c \in {FALSE, d[j].client} :
          Update(j, [d[j] EXCEPT !.ref = @ - 1, !.held = FALSE, !.client = c,
                                 !.cancelled = @ \/ d[j].ref = 1])
    /\ timer' = (timer \/ d[j].ref = 1)
    /\ UNCHANGED <<curl, list, runningJobs, pc, call, control>>

\* The owner returns from the callback; from a terminal one only when it has
\* let the handle go.
Return ==
    /\ pc = "client"
    /\ call.event \in Terminal => ~d[call.job].held
    /\ pc' = call.ret
    /\ UNCHANGED <<d, curl, list, runningJobs, timer, call, control>>

\* The same from a callback of libcurl, in which the owner has paused that very
\* transfer: libcurl cannot keep what else it has read ("major internal
\* confusion"), or goes on to a redirection without reading more.
ReturnPaused ==
    LET j == call.job IN
    /\ pc = "client"
    /\ call.ret = "perform"
    /\ d[j].paused
    /\ \/ curl' = [curl EXCEPT ![j] = "failed"] /\ UNCHANGED d
       \/ /\ call.event # "data"
          /\ Update(j, [d[j] EXCEPT !.begun = FALSE])
          /\ UNCHANGED curl
    /\ pc' = "perform"
    /\ UNCHANGED <<list, runningJobs, timer, call, control>>

\* ResourceHandle::fireFailure: wasBlocked() or cannotShowURL()
FireFailure(j) ==
    /\ pc = "idle"
    /\ d[j].failure
    /\ Update(j, [d[j] EXCEPT !.failure = FALSE])
    /\ Notify("blocked", j, "idle")
    /\ UNCHANGED <<curl, list, runningJobs, timer, control>>

-----------------------------------------------------------------------------
(* downloadTimerCallback(), up to curl_multi_perform().                      *)

FireTimer ==
    /\ pc = "idle"
    /\ timer
    /\ timer' = FALSE
    /\ pc' = "start"
    /\ pass' = 1
    /\ started' = FALSE
    /\ UNCHANGED <<d, curl, list, runningJobs, call, busy>>

\* Mutant: one job too many.
CanStartOneMore == list # <<>> /\ runningJobs <= MaxRunningJobs

\* The condition of the loop of startScheduledJobs().
CanStart == list # <<>> /\ runningJobs < MaxRunningJobs

\* Mutant: initializeHandle does not pause the transfer of a deferred job.
StartTransferUnpaused ==
    LET j == Head(list) IN
    /\ pc = "start"
    /\ CanStart
    /\ j \notin DataJob
    /\ list' = Tail(list)
    /\ started' = TRUE
    /\ Update(j, [d[j] EXCEPT !.easy = TRUE])
    /\ curl' = [curl EXCEPT ![j] = "transfer"]
    /\ runningJobs' = runningJobs + 1
    /\ UNCHANGED <<timer, pc, call, pass, busy>>

\* startJob: initializeHandle, then curl_multi_add_handle succeeds
StartTransfer ==
    LET j == Head(list) IN
    /\ pc = "start"
    /\ CanStart
    /\ j \notin DataJob
    /\ list' = Tail(list)
    /\ started' = TRUE
    /\ Update(j, [d[j] EXCEPT !.easy = TRUE, !.paused = d[j].defers])
    /\ curl' = [curl EXCEPT ![j] = "transfer"]
    /\ runningJobs' = runningJobs + 1
    /\ UNCHANGED <<timer, pc, call, pass, busy>>

\* startJob: curl_multi_add_handle fails after the job has been counted, and
\* job->cancel() only sets the flag and starts the timer
StartTransferFails ==
    LET j == Head(list) IN
    /\ "add" \in Faults
    /\ pc = "start"
    /\ CanStart
    /\ j \notin DataJob
    /\ list' = Tail(list)
    /\ started' = TRUE
    /\ Update(j, [d[j] EXCEPT !.easy = TRUE, !.paused = d[j].defers,
                              !.cancelled = TRUE])
    /\ runningJobs' = runningJobs + 1
    /\ timer' = TRUE
    /\ UNCHANGED <<curl, pc, call, pass, busy>>

\* startJob: handleDataURL, with a comma in the URL or without
StartDataURL ==
    LET j == Head(list) IN
    /\ pc = "start"
    /\ CanStart
    /\ j \in DataJob
    /\ list' = Tail(list)
    /\ started' = TRUE
    /\ \/ Call("cannotShow", j, "start")
       \/ Call("response", j, "dataBody")
    /\ UNCHANGED <<d, curl, runningJobs, timer, pass, busy>>

\* handleDataURL: didReceiveData, unless the body is empty
DataURLBody ==
    /\ pc = "dataBody"
    /\ \/ Call("data", call.job, "dataEnd")
       \/ pc' = "dataEnd" /\ UNCHANGED call
    /\ UNCHANGED <<d, curl, list, runningJobs, timer, control>>

\* handleDataURL: didFinishLoading
DataURLEnd ==
    /\ pc = "dataEnd"
    /\ Call("finish", call.job, "start")
    /\ UNCHANGED <<d, curl, list, runningJobs, timer, control>>

\* The first startScheduledJobs() returns.
StartEnds ==
    /\ pc = "start"
    /\ pass = 1
    /\ ~CanStart
    /\ pc' = "select"
    /\ UNCHANGED <<d, curl, list, runningJobs, timer, call, control>>

\* select() answers or times out, or there is nothing to select on
Select ==
    /\ pc = "select"
    /\ pc' = "perform"
    /\ UNCHANGED <<d, curl, list, runningJobs, timer, call, control>>

\* select() fails for another reason than EINTR
SelectFails ==
    /\ "select" \in Faults
    /\ pc = "select"
    /\ pc' = "idle"
    /\ UNCHANGED <<d, curl, list, runningJobs, timer, call, control>>

-----------------------------------------------------------------------------
(* Inside curl_multi_perform(): libcurl takes the transfers on, in any order *)
(* as far as the manager can tell.                                           *)

UnderWay(j) == pc = "perform" /\ curl[j] = "transfer"

\* Nothing is read for a transfer that is paused, and so nothing is called; a
\* proxy's answer to CONNECT is heard before the request is done.
Callback(j) == UnderWay(j) /\ ~d[j].paused

\* The transfer is connected and its request is done: do_init() clears
\* data->req, and with it the pause.
Do(j) ==
    /\ UnderWay(j)
    /\ ~d[j].begun
    /\ Update(j, [d[j] EXCEPT !.begun = TRUE, !.paused = FALSE,
                              !.dropped = @ \/ d[j].paused])
    /\ UNCHANGED <<curl, list, runningJobs, timer, pc, call, control>>

\* A redirection is followed, a request is repeated with credentials, or on a
\* new connection when the old one has died: back to connecting.
StartOver(j) ==
    /\ Callback(j)
    /\ d[j].begun
    /\ Update(j, [d[j] EXCEPT !.begun = FALSE])
    /\ UNCHANGED <<curl, list, runningJobs, timer, pc, call, control>>

\* A transfer ends with its last byte, by an error, or by the time-out for
\* connecting, which a pause does not stop.
TransferEnds(j) ==
    /\ UnderWay(j)
    /\ \/ curl' = [curl EXCEPT ![j] = "done"] /\ d[j].begun /\ ~d[j].paused
       \/ curl' = [curl EXCEPT ![j] = "failed"] /\ ~(d[j].begun /\ d[j].paused)
    /\ UNCHANGED <<d, list, runningJobs, timer, pc, call, control>>

\* headerCallback and writeCallback return 0 for a cancelled job, and libcurl
\* ends the transfer with an error.
CallbackAborts(j) ==
    /\ Callback(j)
    /\ d[j].cancelled
    /\ curl' = [curl EXCEPT ![j] = "failed"]
    /\ UNCHANGED <<d, list, runningJobs, timer, pc, call, control>>

\* headerCallback, at the end of the headers of a redirection
HeaderRedirect(j) ==
    /\ Callback(j)
    /\ ~d[j].cancelled
    /\ Notify("willSend", j, "perform")
    /\ UNCHANGED <<d, curl, list, runningJobs, timer, control>>

\* headerCallback, at the end of the headers of the response
HeaderResponse(j) ==
    /\ Callback(j)
    /\ ~d[j].cancelled
    /\ Update(j, [d[j] EXCEPT !.fired = TRUE])
    /\ Notify("response", j, "perform")
    /\ UNCHANGED <<curl, list, runningJobs, timer, control>>

\* writeCallback
Write(j) ==
    /\ Callback(j)
    /\ d[j].begun
    /\ ~d[j].cancelled
    /\ d[j].fired
    /\ Notify("data", j, "perform")
    /\ UNCHANGED <<d, curl, list, runningJobs, timer, control>>

\* writeCallback for a local file: handleLocalReceiveResponse comes first
WriteLocal(j) ==
    /\ Callback(j)
    /\ d[j].begun
    /\ ~d[j].cancelled
    /\ ~d[j].fired
    /\ Update(j, [d[j] EXCEPT !.fired = TRUE])
    /\ Notify("response", j, "localData")
    /\ UNCHANGED <<curl, list, runningJobs, timer, control>>

\* Mutant: m_cancelled is not read again after didReceiveResponse.
WriteLocalDataUnchecked ==
    /\ pc = "localData"
    /\ Notify("data", call.job, "perform")
    /\ UNCHANGED <<d, curl, list, runningJobs, timer, control>>

\* writeCallback after handleLocalReceiveResponse: the owner may have cancelled
WriteLocalData ==
    LET j == call.job IN
    /\ pc = "localData"
    /\ \/ /\ d[j].cancelled
          /\ curl' = [curl EXCEPT ![j] = "failed"]
          /\ pc' = "perform"
          /\ UNCHANGED call
       \/ /\ ~d[j].cancelled
          /\ Notify("data", j, "perform")
          /\ UNCHANGED curl
    /\ UNCHANGED <<d, list, runningJobs, timer, control>>

\* readCallback: the form data cannot be read, "so cancel the job"
ReadFails(j) ==
    /\ "upload" \in Faults
    /\ Callback(j)
    /\ d[j].begun
    /\ Update(j, [d[j] EXCEPT !.cancelled = TRUE])
    /\ timer' = TRUE
    /\ UNCHANGED <<curl, list, runningJobs, pc, call, control>>

\* curl_multi_perform() returns with runningHandles
PerformEnds ==
    /\ pc = "perform"
    /\ pc' = "read"
    /\ busy' = \E j \in Job : curl[j] = "transfer"
    /\ UNCHANGED <<d, curl, list, runningJobs, timer, call, pass, started>>

-----------------------------------------------------------------------------
(* The loop over curl_multi_info_read(), and the end of the callback.        *)

\* Mutant: the reference of add() is not given back.
RemoveFromCurlKeepsRef(j) ==
    /\ runningJobs' = runningJobs - 1
    /\ curl' = [curl EXCEPT ![j] = "none"]
    /\ Update(j, [d[j] EXCEPT !.easy = FALSE, !.paused = FALSE, !.begun = FALSE,
                              !.dropped = FALSE])
    /\ timer' = timer
    /\ pc' = "read"

\* removeFromCurl: the slot, the easy handle and the manager's reference go
RemoveFromCurl(j) ==
    /\ runningJobs' = runningJobs - 1
    /\ curl' = [curl EXCEPT ![j] = "none"]
    /\ Update(j, [d[j] EXCEPT !.easy = FALSE, !.paused = FALSE, !.begun = FALSE,
                              !.dropped = FALSE, !.ref = @ - 1,
                              !.cancelled = @ \/ d[j].ref = 1])
    /\ timer' = (timer \/ d[j].ref = 1)
    /\ pc' = "read"

\* Mutant: the message of a cancelled job is read and nothing is removed.
ReadCancelledKeepsSlot(j) ==
    /\ pc = "read"
    /\ curl[j] \in {"done", "failed"}
    /\ d[j].cancelled
    /\ curl' = [curl EXCEPT ![j] = "none"]
    /\ UNCHANGED <<d, list, runningJobs, timer, pc, call, control>>

\* The message of a transfer whose job is cancelled: no event
ReadCancelled(j) ==
    /\ pc = "read"
    /\ curl[j] \in {"done", "failed"}
    /\ d[j].cancelled
    /\ RemoveFromCurl(j)
    /\ UNCHANGED <<list, call, control>>

\* CURLE_OK, and headerCallback has fired the response
ReadDone(j) ==
    /\ pc = "read"
    /\ curl[j] = "done"
    /\ ~d[j].cancelled
    /\ d[j].fired
    /\ Notify("finish", j, "remove")
    /\ UNCHANGED <<d, curl, list, runningJobs, timer, control>>

\* CURLE_OK for a local file without data: handleLocalReceiveResponse
ReadDoneLocal(j) ==
    /\ pc = "read"
    /\ curl[j] = "done"
    /\ ~d[j].cancelled
    /\ ~d[j].fired
    /\ Update(j, [d[j] EXCEPT !.fired = TRUE])
    /\ Notify("response", j, "localFinish")
    /\ UNCHANGED <<curl, list, runningJobs, timer, control>>

\* ... and then didFinishLoading, unless the owner has cancelled meanwhile
ReadLocalFinish ==
    LET j == call.job IN
    /\ pc = "localFinish"
    /\ \/ /\ d[j].cancelled
          /\ RemoveFromCurl(j)
          /\ UNCHANGED call
       \/ /\ ~d[j].cancelled
          /\ Notify("finish", j, "remove")
          /\ UNCHANGED <<d, curl, runningJobs, timer>>
    /\ UNCHANGED <<list, control>>

\* Mutant: a failed transfer is removed without didFail().
ReadFailedSilently(j) ==
    /\ pc = "read"
    /\ curl[j] = "failed"
    /\ ~d[j].cancelled
    /\ RemoveFromCurl(j)
    /\ UNCHANGED <<list, call, control>>

\* Any other result: didFail
ReadFailed(j) ==
    /\ pc = "read"
    /\ curl[j] = "failed"
    /\ ~d[j].cancelled
    /\ Notify("fail", j, "remove")
    /\ UNCHANGED <<d, curl, list, runningJobs, timer, control>>

\* The end of the turn of the loop, after the last event of the job.
RemoveJob ==
    /\ pc = "remove"
    /\ RemoveFromCurl(call.job)
    /\ UNCHANGED <<list, call, control>>

\* No message is left: on to the second startScheduledJobs()
ReadEnds ==
    /\ pc = "read"
    /\ \A j \in Job : curl[j] \notin {"done", "failed"}
    /\ pc' = "start"
    /\ pass' = 2
    /\ started' = FALSE
    /\ UNCHANGED <<d, curl, list, runningJobs, timer, call, busy>>

\* Mutant: the timer is set only for the jobs just started.
CallbackEndsIgnoresRunning ==
    /\ pc = "start"
    /\ pass = 2
    /\ ~CanStart
    /\ timer' = (timer \/ started)
    /\ pc' = "idle"
    /\ UNCHANGED <<d, curl, list, runningJobs, call, control>>

\* The second startScheduledJobs() returns, and the timer is set again
CallbackEnds ==
    /\ pc = "start"
    /\ pass = 2
    /\ ~CanStart
    /\ timer' = (timer \/ started \/ busy)
    /\ pc' = "idle"
    /\ UNCHANGED <<d, curl, list, runningJobs, call, control>>

-----------------------------------------------------------------------------
OwnerStep(j) ==
    \/ Create(j) \/ CreateBlocked(j)
    \/ CancelScheduled(j) \/ CancelStarted(j)
    \/ Defer(j) \/ Resume(j) \/ ResumeFails(j)

CurlStep(j) ==
    \/ Do(j) \/ StartOver(j) \/ TransferEnds(j)
    \/ CallbackAborts(j) \/ HeaderRedirect(j) \/ HeaderResponse(j)
    \/ Write(j) \/ WriteLocal(j) \/ ReadFails(j)

ReadStep(j) ==
    ReadCancelled(j) \/ ReadDone(j) \/ ReadDoneLocal(j) \/ ReadFailed(j)

\* The steps the manager takes by itself once its timer has fired.
ManagerStep ==
    \/ StartTransfer \/ StartTransferFails \/ StartDataURL
    \/ DataURLBody \/ DataURLEnd \/ StartEnds \/ Select \/ SelectFails
    \/ WriteLocalData \/ PerformEnds
    \/ ReadLocalFinish \/ RemoveJob \/ ReadEnds \/ CallbackEnds
    \/ \E j \in Job : ReadStep(j)

Next ==
    \/ \E j \in Job : OwnerStep(j) \/ CurlStep(j) \/ FireFailure(j)
    \/ CreateAndDelete
    \/ Release \/ Return \/ ReturnPaused
    \/ FireTimer
    \/ ManagerStep

Spec == Init /\ [][Next]_vars

(***************************************************************************)
(* Fairness.  The WebCore timers fire (the heap orders them by time, so a  *)
(* due timer is not passed over for ever), the code runs, callbacks and    *)
(* curl_multi_perform() return, a server answers or libcurl gives up on    *)
(* every transfer that a pause does not stop, whoever defers a load that   *)
(* is still wanted (a modal dialog) resumes it, and dialogs do not open    *)
(* for ever.                                                               *)
(***************************************************************************)
Fairness ==
    /\ SF_vars(FireTimer)
    /\ WF_vars(ManagerStep \/ Release \/ Return)
    /\ SF_vars(PerformEnds)
    /\ \A j \in NetJob : SF_vars(TransferEnds(j))
    /\ \A j \in BlockedJob : SF_vars(FireFailure(j))
    /\ \A j \in DeferJob : SF_vars(Resume(j)) /\ <>[][~Defer(j)]_vars

FairSpec == Spec /\ Fairness

-----------------------------------------------------------------------------
(* Properties.                                                               *)

\* The jobs that hold one of the maxRunningJobs slots.
Running == {j \in Job : d[j].easy}

(***************************************************************************)
(* The counter m_runningJobs, incremented in startJob and decremented only *)
(* in removeFromCurl, is the number of live easy handles whatever owners   *)
(* do between the two, and it never exceeds maxRunningJobs.                *)
(***************************************************************************)
SlotAccounting ==
    /\ runningJobs = Cardinality(Running)
    /\ runningJobs <= MaxRunningJobs

(***************************************************************************)
(* A handle that the queue, libcurl or a pending step of the callback      *)
(* still uses has not been deleted: the ref() of add() is given back once, *)
(* by removeScheduledJob or by removeFromCurl and never by both, although  *)
(* an owner may drop its own reference at any callback.                    *)
(***************************************************************************)
InUse(j) ==
    \/ Queued(j)
    \/ d[j].easy
    \/ curl[j] # "none"
    \/ pc \in {"localData", "localFinish", "remove", "dataBody", "dataEnd"} /\ call.job = j

AliveWhileUsed == \A j \in Job : InUse(j) => d[j].ref > 0

(***************************************************************************)
(* The references of a job are exactly the owner's, the queue's and the    *)
(* running transfer's, so that a job that is done with is deleted.  A data *)
(* URL is the exception: handleDataURL leaves the reference of add().      *)
(***************************************************************************)
Bit(b) == IF b THEN 1 ELSE 0

RefAccounting ==
    \A j \in Job \ DataJob :
       d[j].ref = Bit(d[j].held) + Bit(Queued(j)) + Bit(d[j].easy)

(***************************************************************************)
(* A job is in one place: it is in the queue once, or in libcurl, and      *)
(* libcurl runs only transfers whose easy handle exists.  The callbacks    *)
(* and removeFromCurl (ASSERT(d->m_handle)) rely on it.                    *)
(***************************************************************************)
OnePlace ==
    /\ \A i, k \in 1..Len(list) : list[i] = list[k] => i = k
    /\ \A j \in Job : /\ Queued(j) => ~d[j].easy /\ ~d[j].cancelled
                      /\ curl[j] # "none" => d[j].easy

(***************************************************************************)
(* "timeout will occur and do curl_multi_perform" (startJob): between two  *)
(* callbacks, as long as a job waits or a transfer runs, the one-shot      *)
(* timer is set, also while the owner of a refused URL is told so.         *)
(* Nothing else would ever poll libcurl.                                   *)
(***************************************************************************)
BetweenCallbacks == pc = "idle" \/ (pc = "client" /\ call.ret = "idle")

PollScheduled ==
    BetweenCallbacks /\ (list # <<>> \/ \E j \in Job : curl[j] # "none") => timer

(***************************************************************************)
(* Only a failed select() loses the timer, or a slot that never comes back *)
(* because libcurl refused its job: every other way through the callback,  *)
(* and every call of an owner at any of its steps, leaves a timer behind   *)
(* as long as a job waits or a transfer runs.                              *)
(***************************************************************************)
SlotLeaked == \E j \in Job : d[j].easy /\ curl[j] = "none"

PollKept ==
    [][PollScheduled /\ ~SlotLeaked => PollScheduled' \/ SelectFails]_vars

(***************************************************************************)
(* An event only reaches an owner that still holds the handle and has not  *)
(* cancelled it, although owners may cancel between the response and the   *)
(* data, or between the response and the end, of one run of the callback,  *)
(* and let go at the first terminal event.  handleDataURL tests neither    *)
(* m_cancelled nor the client, so that data URLs are left out.             *)
(***************************************************************************)
CallsOwner == pc # "client" /\ pc' = "client"

NoEventAfterCancel ==
    [][CallsOwner /\ call'.job \notin DataJob =>
          d[call'.job].held /\ ~d[call'.job].cancelled]_vars

(***************************************************************************)
(* ASSERT(!d->m_defersLoading) of the callbacks: "We should never be       *)
(* called when deferred loading is activated."  A job may be deferred      *)
(* while it waits, while it runs, and by its own or another job's owner.   *)
(***************************************************************************)
NoCallbackWhileDeferred ==
    [][CallsOwner /\ pc = "perform" => ~d[call'.job].defers]_vars

(***************************************************************************)
(* The manager's share of that assertion: m_defersLoading and libcurl's    *)
(* pause go together through the queue, initializeHandle, deferrals at any *)
(* callback and resumptions, so that a callback reaches a job deferred     *)
(* only if libcurl has dropped the pause.  A pause made once the request   *)
(* is being done lasts, unless the request starts over.                    *)
(***************************************************************************)
OnlyDroppedPauses ==
    [][CallsOwner /\ pc = "perform" /\ d[call'.job].defers =>
          d[call'.job].dropped]_vars


(***************************************************************************)
(* The slot of a transfer comes back, also that of a cancelled one, which  *)
(* needs libcurl to call once more or to end the transfer by itself: it    *)
(* does neither for a transfer that was paused while its request was done. *)
(***************************************************************************)
Stopped(j) == d[j].paused /\ d[j].begun

SlotReturned == \A j \in NetJob : d[j].easy /\ ~Stopped(j) ~> ~d[j].easy \/ Stopped(j)

(***************************************************************************)
(* The abstract service (LoadService): owed is who waits for an answer,    *)
(* serving is who occupies the service, a data URL while it is delivered.  *)
(* A job that the code cancels itself, because libcurl or the upload       *)
(* stream refused it, is given up there and then: its owner hears nothing. *)
(***************************************************************************)
ServedInline ==
    IF \/ pc \in {"dataBody", "dataEnd"}
       \/ pc = "client" /\ call.job \in DataJob
    THEN {call.job} ELSE {}

Service == INSTANCE LoadService WITH
    Capacity <- MaxRunningJobs,
    waiting <- list,
    serving <- Running \cup ServedInline,
    owed <- {j \in Job : d[j].held /\ ~d[j].cancelled}

ImplementsService == Service!Spec

=============================================================================
