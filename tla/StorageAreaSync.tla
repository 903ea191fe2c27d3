---------------------------- MODULE StorageAreaSync ----------------------------
(***************************************************************************)
(* One area of local storage: the map the page sees, and the write-behind  *)
(* that carries its changes to a database on a thread of its own.          *)
(*                                                                         *)
(*   Source/WebCore/storage/StorageAreaImpl.cpp, StorageAreaSync.cpp,      *)
(*   StorageSyncManager.cpp, LocalStorageThread.cpp, LocalStorageTask.cpp  *)
(*                                                                         *)
(* A change moves from the map to m_changedItems, from there, on a timer,  *)
(* to m_itemsPendingSync, from there to the items a running task writes,   *)
(* and from there to the database.  Each of the four layers may also hold  *)
(* a clear, which hides all the layers below it.                           *)
(*                                                                         *)
(* Quotas, private browsing, storage events, the count that forbids a      *)
(* sudden termination, and what only the StorageTracker calls              *)
(* (scheduleCloseDatabase, scheduleSync) are left out: wke uses none.      *)
(***************************************************************************)
EXTENDS Naturals, Sequences, FiniteSets

CONSTANTS
    Key,
    Value,
    None,               \* no such key: a null String
    Keep,               \* a layer says nothing of the key
    MaximumItemsToSync,
    Faults              \* what may fail: a subset of {"open", "read", "write"}

ASSUME KeyAssumption == IsFiniteSet(Key)
ASSUME ValueAssumption ==
    /\ None \notin Value
    /\ Keep \notin Value
    /\ None # Keep
ASSUME MaximumAssumption == MaximumItemsToSync \in Nat \ {0}

VARIABLES
    map,            \* m_storageMap
    changed,        \* m_changedItems
    cleared,        \* m_itemsCleared
    timer,          \* m_syncTimer is active
    pending,        \* m_itemsPendingSync
    clearPending,   \* m_clearItemsWhileSyncing
    scheduled,      \* m_syncScheduled
    tasks,          \* the queue of the LocalStorageThread
    thread,         \* what it does: "idle", or where it is in performSync
    items,          \* the items performSync took ...
    clearItems,     \* ... and the clear
    db,             \* the rows of ItemTable
    database,       \* m_database: "closed", "open", "failed"
    imported,       \* m_importComplete
    main,           \* "open" until the area is closed, then "final" after
                    \* scheduleFinalSync, "joining", "closed"
    abandoned       \* history: keys whose last change was given up, on a fault
                    \* or by a partial sync

page == <<map, changed, cleared, timer>>
handedOver == <<pending, clearPending, scheduled>>
task == <<items, clearItems>>
disk == <<db, database>>
vars == <<page, handedOver, tasks, thread, task, disk, imported, main, abandoned>>

Rows == [Key -> Value \cup {None}]
Layer == [Key -> Value \cup {None, Keep}]
Steps == {"open", "clear", "write", "end"}
Task == {"import", "sync", "deleteEmpty", "terminate"}

NoRows == [k \in Key |-> None]
Nothing == [k \in Key |-> Keep]

TypeOK ==
    /\ map \in Rows /\ db \in Rows
    /\ changed \in Layer /\ pending \in Layer /\ items \in Layer
    /\ cleared \in BOOLEAN /\ clearPending \in BOOLEAN /\ clearItems \in BOOLEAN
    /\ timer \in BOOLEAN /\ scheduled \in BOOLEAN /\ imported \in BOOLEAN
    /\ tasks \in Seq(Task)
    /\ thread \in {"idle", "ended"} \cup Steps
    /\ database \in {"closed", "open", "failed"}
    /\ main \in {"open", "final", "joining", "closed"}
    /\ abandoned \subseteq Key

Holds(layer) == {k \in Key : layer[k] # Keep}

\* The rows below seen through a layer.
Over(layer, clear, below) ==
    [k \in Key |-> IF layer[k] # Keep THEN layer[k]
                   ELSE IF clear THEN None
                   ELSE below[k]]

\* m_syncInProgress
SyncInProgress == thread \in Steps

-----------------------------------------------------------------------------
Init ==
    /\ map = NoRows
    /\ changed = Nothing /\ pending = Nothing /\ items = Nothing
    /\ cleared = FALSE /\ clearPending = FALSE /\ clearItems = FALSE
    /\ timer = FALSE /\ scheduled = FALSE /\ imported = FALSE
    /\ tasks = <<"import">>
    /\ thread = "idle"
    /\ db \in Rows
    /\ database = "closed"
    /\ main = "open"
    /\ abandoned = {}

-----------------------------------------------------------------------------
(* The main thread.  A call of the page waits for the import first          *)
(* (blockUntilImportComplete).                                              *)

ScheduleItemForSync(k, v) ==
    /\ changed' = [changed EXCEPT ![k] = v]
    /\ timer' = TRUE
    /\ abandoned' = abandoned \ {k}
    /\ UNCHANGED <<cleared, handedOver, tasks, thread, task, disk, imported, main>>

SetItem(k, v) ==
    /\ main = "open" /\ imported
    /\ map[k] # v
    /\ map' = [map EXCEPT ![k] = v]
    /\ ScheduleItemForSync(k, v)

RemoveItem(k) ==
    /\ main = "open" /\ imported
    /\ map[k] # None
    /\ map' = [map EXCEPT ![k] = None]
    /\ ScheduleItemForSync(k, None)

Clear ==
    /\ main = "open" /\ imported
    /\ map # NoRows
    /\ map' = NoRows
    /\ changed' = Nothing
    /\ cleared' = TRUE
    /\ timer' = TRUE
    /\ abandoned' = {}
    /\ UNCHANGED <<handedOver, tasks, thread, task, disk, imported, main>>

\* Mutant: m_itemsPendingSync is not cleared.
StillPendingAll == pending

\* What was handed over before and is not cleared now.
StillPending == IF cleared THEN Nothing ELSE pending

\* The HashMap is walked in an order of its own: copied is any set of the
\* changed keys of the right size.  The loop that takes what was handed over
\* out of m_changedItems walks all of m_itemsPendingSync, the keys of an
\* earlier sync that has not started included.
HandOver(copied) ==
    LET before == StillPending
        whole == copied = Holds(changed)
    IN  /\ pending' = [k \in Key |-> IF k \in copied THEN changed[k] ELSE before[k]]
        /\ clearPending' = (clearPending \/ cleared)
        /\ cleared' = FALSE
        /\ changed' = [k \in Key |-> IF whole \/ pending'[k] # Keep THEN Keep
                                     ELSE changed[k]]
        /\ scheduled' = TRUE
        /\ timer' = ~whole
        /\ abandoned' = abandoned \cup ((Holds(changed) \cap Holds(before)) \ copied)

\* Mutant: no task while a sync is in progress.
SyncTaskUnlessRunning == IF scheduled \/ SyncInProgress THEN <<>> ELSE <<"sync">>

SyncTask == IF scheduled THEN <<>> ELSE <<"sync">>

SyncTimerFired ==
    /\ main = "open" /\ timer
    /\ ~SyncInProgress  \* or else it starts the timer again
    /\ \E copied \in SUBSET Holds(changed) :
          /\ \/ copied = Holds(changed) /\ Cardinality(copied) <= MaximumItemsToSync
             \/ copied # Holds(changed) /\ Cardinality(copied) = MaximumItemsToSync
          /\ HandOver(copied)
    /\ tasks' = tasks \o SyncTask
    /\ UNCHANGED <<map, thread, task, disk, imported, main>>

\* close(): scheduleFinalSync hands everything over, whatever is in progress.
Close ==
    /\ main = "open" /\ imported
    /\ main' = "final"
    /\ HandOver(Holds(changed))
    /\ tasks' = tasks \o SyncTask \o <<"deleteEmpty">>
    /\ UNCHANGED <<map, thread, task, disk, imported>>

\* StorageSyncManager::close(): terminate() waits for the thread to complete.
Terminate ==
    /\ main = "final"
    /\ main' = "joining"
    /\ tasks' = Append(tasks, "terminate")
    /\ UNCHANGED <<page, handedOver, thread, task, disk, imported, abandoned>>

Joined ==
    /\ main = "joining" /\ thread = "ended"
    /\ main' = "closed"
    /\ UNCHANGED <<page, handedOver, tasks, thread, task, disk, imported, abandoned>>

-----------------------------------------------------------------------------
(* The local storage thread.                                                *)

Take(type) ==
    /\ thread = "idle"
    /\ tasks # <<>> /\ Head(tasks) = type
    /\ tasks' = Tail(tasks)

\* A later change or clear of the key is still on its way to the database.
Superseded(k) ==
    changed[k] # Keep \/ cleared \/ pending[k] # Keep \/ clearPending

GiveUp(keys) ==
    abandoned' = abandoned \cup {k \in keys : ~Superseded(k)}

\* The keys that what performSync took says something of.
Taken == IF clearItems THEN Key ELSE Holds(items)

PerformImport ==
    /\ Take("import")
    /\ imported' = TRUE
    /\ \/ /\ db = NoRows  \* there may be no file yet
          /\ UNCHANGED <<map, database, abandoned>>
       \/ /\ database' = "open"
          /\ map' = db
          /\ UNCHANGED abandoned
       \/ /\ \/ "open" \in Faults /\ database' = "failed"
             \/ "read" \in Faults /\ database' = "open"
          /\ GiveUp({k \in Key : db[k] # None})
          /\ UNCHANGED map
    /\ UNCHANGED <<changed, cleared, timer, handedOver, thread, task, db, main>>

\* Mutant: m_syncScheduled is not reset.
PerformSyncStaysScheduled ==
    /\ Take("sync")
    /\ items' = pending
    /\ clearItems' = clearPending
    /\ pending' = Nothing
    /\ clearPending' = FALSE
    /\ thread' = IF pending = Nothing /\ ~clearPending THEN "end" ELSE "open"
    /\ UNCHANGED <<page, scheduled, disk, imported, main, abandoned>>

\* performSync takes what is pending, under the lock.
PerformSync ==
    /\ Take("sync")
    /\ items' = pending
    /\ clearItems' = clearPending
    /\ pending' = Nothing
    /\ clearPending' = FALSE
    /\ scheduled' = FALSE
    /\ thread' = IF pending = Nothing /\ ~clearPending THEN "end" ELSE "open"
    /\ UNCHANGED <<page, disk, imported, main, abandoned>>

Performs(step, then) ==
    /\ thread = step
    /\ thread' = then
    /\ UNCHANGED <<page, handedOver, tasks, imported, main>>

OpenForSync ==
    \/ /\ database # "failed"
       /\ Performs("open", IF clearItems THEN "clear" ELSE "write")
       /\ database' = "open"
       /\ UNCHANGED <<task, db, abandoned>>
    \/ /\ \/ database = "failed"
          \/ database = "closed" /\ "open" \in Faults
       /\ Performs("open", "end")
       /\ database' = "failed"
       /\ GiveUp(Taken)
       /\ items' = Nothing /\ clearItems' = FALSE
       /\ UNCHANGED db

\* "DELETE FROM ItemTable" runs before the transaction of the rows.
ClearTable ==
    \/ /\ Performs("clear", "write")
       /\ db' = NoRows
       /\ clearItems' = FALSE
       /\ UNCHANGED <<items, database, abandoned>>
    \/ /\ "write" \in Faults
       /\ Performs("clear", "end")
       /\ GiveUp(Taken)
       /\ items' = Nothing /\ clearItems' = FALSE
       /\ UNCHANGED disk

\* A row that fails ends the loop; what was written before it is committed.
WriteItems ==
    /\ Performs("write", "end")
    /\ \E written \in SUBSET Holds(items) :
          /\ "write" \in Faults \/ written = Holds(items)
          /\ db' = [k \in Key |-> IF k \in written THEN items[k] ELSE db[k]]
          /\ GiveUp(Holds(items) \ written)
    /\ items' = Nothing
    /\ UNCHANGED <<clearItems, database>>

EndSync ==
    /\ Performs("end", "idle")
    /\ UNCHANGED <<task, disk, abandoned>>

DeleteEmptyDatabase ==
    /\ Take("deleteEmpty")
    /\ database' = IF database = "open" /\ db = NoRows THEN "closed" ELSE database
    /\ UNCHANGED <<page, handedOver, thread, task, db, imported, main, abandoned>>

\* Mutant: the queue is not killed.
PerformTerminateQuietly ==
    /\ Take("terminate")
    /\ UNCHANGED <<page, handedOver, thread, task, disk, imported, main, abandoned>>

PerformTerminate ==
    /\ Take("terminate")
    /\ thread' = "ended"
    /\ UNCHANGED <<page, handedOver, task, disk, imported, main, abandoned>>

-----------------------------------------------------------------------------
Page ==
    \/ \E k \in Key : RemoveItem(k) \/ \E v \in Value : SetItem(k, v)
    \/ Clear

StorageThread ==
    \/ PerformImport \/ PerformSync \/ OpenForSync \/ ClearTable \/ WriteItems
    \/ EndSync \/ DeleteEmptyDatabase \/ PerformTerminate

Next == Page \/ SyncTimerFired \/ Close \/ Terminate \/ Joined \/ StorageThread

Spec == Init /\ [][Next]_vars

\* The timer fires, the thread runs, and close() gets to its end; the page may
\* do anything, or nothing.
Fairness ==
    /\ WF_vars(SyncTimerFired)
    /\ WF_vars(StorageThread)
    /\ WF_vars(Terminate \/ Joined)

FairSpec == Spec /\ Fairness

-----------------------------------------------------------------------------
\* What the database will hold when all that is on its way has arrived.
Flushed ==
    Over(changed, cleared, Over(pending, clearPending, Over(items, clearItems, db)))

\* Nothing the page has set, removed or cleared is lost between the layers, or
\* overtaken by an older change, whatever the page does while a sync is
\* scheduled or runs; the keys given up on a fault, or by a partial sync, apart.
NothingElseLost ==
    imported => \A k \in Key \ abandoned : Flushed[k] = map[k]

\* The same without the keys a partial sync gives up: "If we didn't finish
\* syncing, then we need to finish the job later." (StorageAreaSync.cpp:216)
NothingLost == imported => Flushed = map

\* When close() has returned the database holds what the page had.
FinalSync ==
    main = "closed" => \A k \in Key \ abandoned : db[k] = map[k]

\* Under the timer's interval: while the page changes nothing, the database
\* catches up with it and stays there.
ChangesReachDatabase ==
    []<><<map' # map>>_vars \/ <>[](\A k \in Key \ abandoned : db[k] = map[k])

\* close() returns: the thread performs the tasks in front of the last.
CloseReturns == (main # "open") ~> (main = "closed")

=============================================================================
