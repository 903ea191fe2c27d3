------------------------- MODULE StorageAreaSyncProofs -------------------------
(***************************************************************************)
(* What holds of StorageAreaSync for any keys, values, batch size and      *)
(* faults: nothing is lost between the layers but what is given up, and    *)
(* close() returns only when all of it is in the database.                 *)
(***************************************************************************)
EXTENDS StorageAreaSync, TLAPS

Has(s, type) == \E i \in 1..Len(s) : s[i] = type
OnlyLast(s, type) == \A i \in 1..Len(s) : s[i] = type => i = Len(s)

\* Until the import there is nothing but the rows of the database ...
BeforeImport ==
    ~imported =>
      /\ tasks = <<"import">> /\ thread = "idle" /\ main = "open"
      /\ map = NoRows /\ changed = Nothing /\ pending = Nothing
      /\ cleared = FALSE /\ clearPending = FALSE /\ timer = FALSE
      /\ abandoned = {}

\* ... and after it no second import.
ImportOnce ==
    imported => ~Has(tasks, "import")

\* What performSync took is held only while it has to be written.
TakenUntilWritten ==
    /\ clearItems => thread \in {"open", "clear"}
    /\ thread = "clear" => clearItems
    /\ items # Nothing => thread \in {"open", "clear", "write"}

\* What is pending has a task that will take it.
PendingScheduled ==
    /\ pending # Nothing \/ clearPending => scheduled
    /\ scheduled => Has(tasks, "sync")

\* A closed area changes nothing any more.
ClosedIsHandedOver ==
    main # "open" => changed = Nothing /\ ~cleared

\* The thread ends at the last task, which nothing can come after.
TerminateLast ==
    /\ Has(tasks, "terminate") => main \in {"joining", "closed"}
    /\ OnlyLast(tasks, "terminate")
    /\ thread = "ended" => tasks = <<>> /\ main \in {"joining", "closed"}
    /\ main = "closed" => thread = "ended"

IInv ==
    /\ TypeOK
    /\ BeforeImport
    /\ ImportOnce
    /\ TakenUntilWritten
    /\ PendingScheduled
    /\ ClosedIsHandedOver
    /\ TerminateLast

-----------------------------------------------------------------------------
LEMMA PutLayer ==
    ASSUME NEW f \in Layer, NEW k \in Key, NEW v \in Value \cup {None, Keep}
    PROVE  [f EXCEPT ![k] = v] \in Layer
BY DEF Layer

LEMMA PutRow ==
    ASSUME NEW f \in Rows, NEW k \in Key, NEW v \in Value \cup {None}
    PROVE  [f EXCEPT ![k] = v] \in Rows
BY DEF Rows

LEMMA Constants ==
    /\ NoRows \in Rows
    /\ Nothing \in Layer
    /\ \A k \in Key : NoRows[k] = None /\ Nothing[k] = Keep
    /\ Keep # None /\ Keep \notin Value /\ None \notin Value
BY ValueAssumption DEF Rows, Layer, NoRows, Nothing

LEMMA TailTasks ==
    ASSUME NEW s \in Seq(Task), s # <<>>
    PROVE  /\ Tail(s) \in Seq(Task)
           /\ \A x \in Task : Has(s, x) <=> Head(s) = x \/ Has(Tail(s), x)
           /\ \A x \in Task : OnlyLast(s, x) =>
                 /\ OnlyLast(Tail(s), x)
                 /\ Head(s) = x => Tail(s) = <<>>
<1> DEFINE t == Tail(s)
<1>1. /\ t \in Seq(Task)
      /\ Len(s) \in Nat \ {0} /\ Len(t) = Len(s) - 1
      /\ Head(s) = s[1]
      /\ \A i \in 1..Len(t) : i + 1 \in 1..Len(s) /\ t[i] = s[i + 1]
      /\ \A i \in 1..Len(s) : i # 1 => i - 1 \in 1..Len(t) /\ t[i - 1] = s[i]
  OBVIOUS
<1> HIDE DEF t
<1>5. Len(t) = 0 => t = <<>>
  BY <1>1
<1>2. \A x \in Task : Has(s, x) <=> Head(s) = x \/ Has(t, x)
  BY <1>1 DEF Has
<1>3. \A x \in Task : OnlyLast(s, x) => OnlyLast(t, x)
  BY <1>1 DEF OnlyLast
<1>4. \A x \in Task : OnlyLast(s, x) /\ Head(s) = x => t = <<>>
  BY <1>1, <1>5 DEF OnlyLast
<1> QED  BY <1>1, <1>2, <1>3, <1>4 DEF t

LEMMA AppendTask ==
    ASSUME NEW s \in Seq(Task), NEW x \in Task
    PROVE  /\ Append(s, x) \in Seq(Task)
           /\ \A y \in Task : Has(Append(s, x), y) <=> Has(s, y) \/ x = y
           /\ \A y \in Task : ~Has(s, y) => OnlyLast(Append(s, x), y)
<1> DEFINE r == Append(s, x)
<1>1. /\ r \in Seq(Task)
      /\ Len(s) \in Nat /\ Len(r) = Len(s) + 1
      /\ r[Len(s) + 1] = x
      /\ \A i \in 1..Len(s) : i \in 1..Len(r) /\ r[i] = s[i]
      /\ \A i \in 1..Len(r) : i \in 1..Len(s) \/ i = Len(s) + 1
      /\ Len(s) + 1 \in 1..Len(r)
  OBVIOUS
<1> HIDE DEF r
<1>2. \A y \in Task : Has(r, y) <=> Has(s, y) \/ x = y
  BY <1>1 DEF Has
<1>3. \A y \in Task : ~Has(s, y) => OnlyLast(r, y)
  BY <1>1 DEF Has, OnlyLast
<1> QED  BY <1>1, <1>2, <1>3 DEF r

\* syncTimerFired appends a task only if none is scheduled.
LEMMA AppendSync ==
    ASSUME NEW s \in Seq(Task)
    PROVE  /\ s \o <<>> = s
           /\ s \o <<"sync">> = Append(s, "sync")
           /\ \A x \in Task : s \o <<x>> = Append(s, x)
           /\ \A x \in Task : s \o <<"sync">> \o <<x>> = Append(Append(s, "sync"), x)
           /\ \A x \in Task : s \o <<>> \o <<x>> = Append(s, x)
BY DEF Task

-----------------------------------------------------------------------------
(* Type correctness.  Boolean flags and functions need different provers.   *)

Layers ==
    /\ map \in Rows /\ db \in Rows
    /\ changed \in Layer /\ pending \in Layer /\ items \in Layer

Flags ==
    /\ cleared \in BOOLEAN /\ clearPending \in BOOLEAN /\ clearItems \in BOOLEAN
    /\ timer \in BOOLEAN /\ scheduled \in BOOLEAN /\ imported \in BOOLEAN

Places ==
    /\ thread \in {"idle", "ended"} \cup Steps
    /\ database \in {"closed", "open", "failed"}
    /\ main \in {"open", "final", "joining", "closed"}
    /\ abandoned \subseteq Key

LEMMA TypeParts == TypeOK <=> Layers /\ Flags /\ Places /\ tasks \in Seq(Task)
BY DEF TypeOK, Layers, Flags, Places

LEMMA HandOverFacts ==
    ASSUME TypeOK, NEW copied \in SUBSET Holds(changed), HandOver(copied)
    PROVE  /\ pending' \in Layer /\ changed' \in Layer
           /\ clearPending' \in BOOLEAN /\ cleared' = FALSE
           /\ scheduled' = TRUE /\ timer' \in BOOLEAN
           /\ abandoned' \subseteq Key
           /\ copied = Holds(changed) => changed' = Nothing
<1> DEFINE before == IF cleared THEN Nothing ELSE pending
<1>1. before \in Layer /\ changed \in Layer /\ abandoned \subseteq Key
  BY Constants DEF TypeOK
<1>2. pending' = [k \in Key |-> IF k \in copied THEN changed[k] ELSE before[k]]
  BY DEF StillPending, HandOver
<1>3. pending' \in Layer
  BY <1>1, <1>2 DEF Layer
<1>4. changed' = [k \in Key |-> IF copied = Holds(changed) \/ pending'[k] # Keep
                                THEN Keep ELSE changed[k]]
  BY DEF StillPending, HandOver
<1>5. changed' \in Layer
  BY <1>1, <1>4 DEF Layer
<1>6. copied = Holds(changed) => changed' = Nothing
  BY <1>4 DEF Nothing
<1>7. clearPending' \in BOOLEAN /\ timer' \in BOOLEAN
  BY DEF StillPending, HandOver, TypeOK
<1>8. /\ cleared' = FALSE
      /\ scheduled' = TRUE
  BY DEF StillPending, HandOver
<1>9. abandoned' \subseteq Key
  BY <1>1 DEF StillPending, HandOver, Holds
<1> QED  BY <1>3, <1>5, <1>6, <1>7, <1>8, <1>9

LEMMA SyncTaskFacts ==
    ASSUME NEW s \in Seq(Task)
    PROVE  s \o SyncTask = IF scheduled THEN s ELSE Append(s, "sync")
BY AppendSync DEF SyncTask

LEMMA InitIInv == Init => IInv
<1> SUFFICES ASSUME Init PROVE IInv
  OBVIOUS
<1>1. Layers
  BY Constants DEF Init, Layers
<1>2. Flags
  BY DEF Init, Flags
<1>3. Places /\ tasks \in Seq(Task)
  BY DEF Init, Places, Task
<1>4. BeforeImport
  BY DEF Init, BeforeImport
<1>5. ImportOnce /\ TakenUntilWritten /\ PendingScheduled
  BY DEF Init, ImportOnce, TakenUntilWritten, PendingScheduled
<1>6. ClosedIsHandedOver /\ TerminateLast
  BY DEF Init, ClosedIsHandedOver, TerminateLast, Has, OnlyLast
<1> QED  BY <1>1, <1>2, <1>3, <1>4, <1>5, <1>6, TypeParts DEF IInv

LEMMA NextLayers == TypeOK /\ [Next]_vars => Layers'
<1> SUFFICES ASSUME TypeOK, [Next]_vars PROVE Layers'
  OBVIOUS
<1> USE DEF page, handedOver, task, disk
<1>0. Layers
  BY TypeParts
<1>1. ASSUME NEW k \in Key, RemoveItem(k) PROVE Layers'
  BY <1>0, <1>1, PutLayer, PutRow DEF RemoveItem, ScheduleItemForSync, Layers
<1>2. ASSUME NEW k \in Key, NEW v \in Value, SetItem(k, v) PROVE Layers'
  BY <1>0, <1>2, PutLayer, PutRow DEF SetItem, ScheduleItemForSync, Layers
<1>3. CASE Clear
  BY <1>0, <1>3, Constants DEF Clear, Layers
<1>4. CASE SyncTimerFired
  <2>1. PICK copied \in SUBSET Holds(changed) : HandOver(copied)
    BY <1>4 DEF SyncTimerFired
  <2>2. pending' \in Layer /\ changed' \in Layer
    BY <2>1, HandOverFacts
  <2> QED  BY <1>0, <1>4, <2>2 DEF SyncTimerFired, Layers
<1>5. CASE Close
  <2>1. pending' \in Layer /\ changed' \in Layer
    BY <1>5, HandOverFacts DEF Close
  <2> QED  BY <1>0, <1>5, <2>1 DEF Close, Layers
<1>6. CASE Terminate \/ Joined
  BY <1>0, <1>6 DEF Terminate, Joined, Layers
<1>7. CASE PerformImport
  BY <1>0, <1>7 DEF PerformImport, Layers
<1>8. CASE PerformSync
  BY <1>0, <1>8, Constants DEF PerformSync, Layers
<1>9. CASE OpenForSync
  BY <1>0, <1>9, Constants DEF OpenForSync, Performs, Layers
<1>10. CASE ClearTable
  BY <1>0, <1>10, Constants DEF ClearTable, Performs, Layers
<1>11. CASE WriteItems
  <2>1. PICK written \in SUBSET Holds(items) :
           db' = [k \in Key |-> IF k \in written THEN items[k] ELSE db[k]]
    BY <1>11 DEF WriteItems
  <2>2. \A k \in written : items[k] \in Value \cup {None}
    BY <1>0 DEF Layers, Layer, Holds
  <2>3. db' \in Rows
    BY <1>0, <2>1, <2>2 DEF Layers, Rows
  <2> QED  BY <1>0, <1>11, <2>3, Constants DEF WriteItems, Performs, Layers
<1>12. CASE EndSync \/ DeleteEmptyDatabase \/ PerformTerminate
  BY <1>0, <1>12 DEF EndSync, DeleteEmptyDatabase, PerformTerminate, Performs, Layers
<1>13. CASE UNCHANGED vars
  BY <1>0, <1>13 DEF vars, Layers
<1> QED  BY <1>1, <1>2, <1>3, <1>4, <1>5, <1>6, <1>7, <1>8, <1>9, <1>10, <1>11, <1>12,
            <1>13 DEF Next, Page, StorageThread

LEMMA NextFlags == TypeOK /\ [Next]_vars => Flags'
<1> SUFFICES ASSUME TypeOK, [Next]_vars PROVE Flags'
  OBVIOUS
<1> USE DEF page, handedOver, task, disk
<1>0. Flags
  BY TypeParts
<1>1. CASE Page
  BY <1>0, <1>1 DEF Page, SetItem, RemoveItem, ScheduleItemForSync, Clear, Flags
<1>2. CASE SyncTimerFired
  <2>1. PICK copied \in SUBSET Holds(changed) : HandOver(copied)
    BY <1>2 DEF SyncTimerFired
  <2>2. /\ clearPending' \in BOOLEAN /\ timer' \in BOOLEAN
        /\ cleared' \in BOOLEAN /\ scheduled' \in BOOLEAN
    BY <2>1, HandOverFacts
  <2> QED  BY <1>0, <1>2, <2>2 DEF SyncTimerFired, Flags
<1>3. CASE Close
  <2>1. /\ clearPending' \in BOOLEAN /\ timer' \in BOOLEAN
        /\ cleared' \in BOOLEAN /\ scheduled' \in BOOLEAN
    BY <1>3, HandOverFacts DEF Close
  <2> QED  BY <1>0, <1>3, <2>1 DEF Close, Flags
<1>4. CASE Terminate \/ Joined
  BY <1>0, <1>4 DEF Terminate, Joined, Flags
<1>5. CASE PerformImport
  BY <1>0, <1>5 DEF PerformImport, Flags
<1>6. CASE PerformSync
  BY <1>0, <1>6 DEF PerformSync, Flags
<1>7. CASE OpenForSync
  BY <1>0, <1>7 DEF OpenForSync, Performs, Flags
<1>8. CASE ClearTable
  BY <1>0, <1>8 DEF ClearTable, Performs, Flags
<1>9. CASE WriteItems
  BY <1>0, <1>9 DEF WriteItems, Performs, Flags
<1>10. CASE EndSync \/ DeleteEmptyDatabase \/ PerformTerminate
  BY <1>0, <1>10 DEF EndSync, DeleteEmptyDatabase, PerformTerminate, Performs, Flags
<1>11. CASE UNCHANGED vars
  BY <1>0, <1>11 DEF vars, Flags
<1> QED  BY <1>1, <1>2, <1>3, <1>4, <1>5, <1>6, <1>7, <1>8, <1>9, <1>10, <1>11
         DEF Next, StorageThread

LEMMA NextPlaces == TypeOK /\ [Next]_vars => Places'
<1> SUFFICES ASSUME TypeOK, [Next]_vars PROVE Places'
  OBVIOUS
<1> USE DEF page, handedOver, task, disk, Steps
<1>0. Places
  BY TypeParts
<1>1. CASE Page
  BY <1>0, <1>1 DEF Page, SetItem, RemoveItem, ScheduleItemForSync, Clear, Places
<1>2. CASE SyncTimerFired
  <2>1. PICK copied \in SUBSET Holds(changed) : HandOver(copied)
    BY <1>2 DEF SyncTimerFired
  <2>2. abandoned' \subseteq Key
    BY <2>1, HandOverFacts
  <2> QED  BY <1>0, <1>2, <2>2 DEF SyncTimerFired, Places
<1>3. CASE Close
  <2>1. abandoned' \subseteq Key
    BY <1>3, HandOverFacts DEF Close
  <2> QED  BY <1>0, <1>3, <2>1 DEF Close, Places
<1>4. CASE Terminate \/ Joined
  BY <1>0, <1>4 DEF Terminate, Joined, Places
<1>5. CASE PerformImport
  BY <1>0, <1>5 DEF PerformImport, GiveUp, Places
<1>6. CASE PerformSync
  BY <1>0, <1>6 DEF PerformSync, Places
<1>7. CASE OpenForSync
  BY <1>0, <1>7 DEF OpenForSync, Performs, GiveUp, Taken, Holds, Places
<1>8. CASE ClearTable
  BY <1>0, <1>8 DEF ClearTable, Performs, GiveUp, Taken, Holds, Places
<1>9. CASE WriteItems
  BY <1>0, <1>9 DEF WriteItems, Performs, GiveUp, Holds, Places
<1>10. CASE EndSync \/ DeleteEmptyDatabase \/ PerformTerminate
  BY <1>0, <1>10 DEF EndSync, DeleteEmptyDatabase, PerformTerminate, Performs, Places
<1>11. CASE UNCHANGED vars
  BY <1>0, <1>11 DEF vars, Places
<1> QED  BY <1>1, <1>2, <1>3, <1>4, <1>5, <1>6, <1>7, <1>8, <1>9, <1>10, <1>11
         DEF Next, StorageThread

-----------------------------------------------------------------------------
(* The queue of the thread.                                                 *)

LEMMA TaskMembers ==
    /\ "import" \in Task /\ "sync" \in Task
    /\ "deleteEmpty" \in Task /\ "terminate" \in Task
BY DEF Task

\* What a step does to the queue.
Queueing ==
    \/ tasks' = tasks
    \/ /\ tasks' = Append(tasks, "sync") /\ main = "open" /\ imported
    \/ /\ tasks' = Append(tasks, "deleteEmpty") /\ main = "open" /\ imported
    \/ /\ tasks' = Append(Append(tasks, "sync"), "deleteEmpty")
       /\ main = "open" /\ imported
    \/ /\ tasks' = Append(tasks, "terminate") /\ main = "final" /\ main' = "joining"
    \/ /\ tasks # <<>> /\ tasks' = Tail(tasks) /\ thread = "idle"

LEMMA NextQueueing ==
    TypeOK /\ BeforeImport /\ [Next]_vars => Queueing
<1> SUFFICES ASSUME TypeOK, BeforeImport, [Next]_vars PROVE Queueing
  OBVIOUS
<1> USE DEF page, handedOver, task, disk
<1>0. tasks \in Seq(Task)
  BY DEF TypeOK
<1>1. CASE Page
  BY <1>1 DEF Page, SetItem, RemoveItem, ScheduleItemForSync, Clear, Queueing
<1>2. CASE SyncTimerFired
  <2>1. tasks' = tasks \o SyncTask /\ main = "open" /\ timer
    BY <1>2 DEF SyncTimerFired
  <2>2. imported
    BY <2>1 DEF BeforeImport
  <2>3. tasks' = tasks \/ tasks' = Append(tasks, "sync")
    BY <1>0, <2>1, SyncTaskFacts
  <2> QED  BY <2>1, <2>2, <2>3 DEF Queueing
<1>3. CASE Close
  <2>1. /\ tasks' = tasks \o SyncTask \o <<"deleteEmpty">>
        /\ main = "open" /\ imported
    BY <1>3 DEF Close
  <2>2. \/ tasks' = Append(tasks, "deleteEmpty")
        \/ tasks' = Append(Append(tasks, "sync"), "deleteEmpty")
    BY <1>0, <2>1, AppendSync, TaskMembers DEF SyncTask
  <2> QED  BY <2>1, <2>2 DEF Queueing
<1>4. CASE Terminate \/ Joined
  BY <1>4 DEF Terminate, Joined, Queueing
<1>5. CASE PerformImport
  BY <1>5 DEF PerformImport, Take, Queueing
<1>6. CASE PerformSync
  BY <1>6 DEF PerformSync, Take, Queueing
<1>7. CASE OpenForSync \/ ClearTable \/ WriteItems \/ EndSync
  BY <1>7 DEF OpenForSync, ClearTable, WriteItems, EndSync, Performs, Queueing
<1>8. CASE DeleteEmptyDatabase \/ PerformTerminate
  BY <1>8 DEF DeleteEmptyDatabase, PerformTerminate, Take, Queueing
<1>9. CASE UNCHANGED vars
  BY <1>9 DEF vars, Queueing
<1> QED  BY <1>1, <1>2, <1>3, <1>4, <1>5, <1>6, <1>7, <1>8, <1>9 DEF Next, StorageThread

LEMMA NextTasks == TypeOK /\ Queueing => tasks' \in Seq(Task)
BY TailTasks, AppendTask, TaskMembers DEF Queueing, TypeOK

\* What was not in the queue, and is not appended, is not in it after a step.
LEMMA QueueingMembers ==
    ASSUME tasks \in Seq(Task), Queueing, NEW x \in Task, ~Has(tasks, x),
           Has(tasks', x)
    PROVE  \/ x = "sync" \/ x = "deleteEmpty"
           \/ x = "terminate" /\ main' = "joining"
<1>1. CASE tasks' = tasks
  BY <1>1
<1>2. ASSUME NEW y \in Task, tasks' = Append(tasks, y)
      PROVE  x = y
  BY <1>2, AppendTask
<1>3. CASE tasks' = Append(Append(tasks, "sync"), "deleteEmpty")
  <2> DEFINE s == Append(tasks, "sync")
  <2>2. s \in Seq(Task) /\ (Has(s, x) <=> x = "sync")
    BY AppendTask, TaskMembers
  <2> HIDE DEF s
  <2>3. Has(Append(s, "deleteEmpty"), x) <=> Has(s, x) \/ x = "deleteEmpty"
    BY <2>2, AppendTask, TaskMembers
  <2> QED  BY <1>3, <2>2, <2>3 DEF s
<1>4. CASE tasks # <<>> /\ tasks' = Tail(tasks)
  BY <1>4, TailTasks
<1> QED  BY <1>1, <1>2, <1>3, <1>4, TaskMembers DEF Queueing

LEMMA NextImport ==
    IInv /\ [Next]_vars => BeforeImport' /\ ImportOnce'
<1> SUFFICES ASSUME IInv, [Next]_vars PROVE BeforeImport' /\ ImportOnce'
  OBVIOUS
<1> USE DEF page, handedOver, task, disk
<1>1. Queueing /\ tasks \in Seq(Task)
  BY NextQueueing DEF IInv, TypeOK
<1>2. CASE imported
  <2>1. imported'
    BY <1>2 DEF Next, Page, SetItem, RemoveItem, ScheduleItemForSync, Clear, SyncTimerFired,
          Close, Terminate, Joined, StorageThread, PerformImport, PerformSync, OpenForSync,
          ClearTable, WriteItems, EndSync, DeleteEmptyDatabase, PerformTerminate, Performs,
          vars
  <2>2. ~Has(tasks, "import")
    BY <1>2 DEF IInv, ImportOnce
  <2>3. ~Has(tasks', "import")
    BY <1>1, <2>2, QueueingMembers, TaskMembers
  <2> QED  BY <2>1, <2>3 DEF BeforeImport, ImportOnce
<1>3. CASE ~imported
  <2>1. /\ tasks = <<"import">> /\ thread = "idle" /\ main = "open" /\ timer = FALSE
    BY <1>3 DEF IInv, BeforeImport
  <2>2. Head(tasks) = "import"
    BY <2>1
  <2>3. PerformImport \/ UNCHANGED vars
    BY <1>3, <2>1, <2>2 DEF Next, Page, SetItem, RemoveItem, Clear, SyncTimerFired,
          Close, Terminate, Joined, StorageThread, PerformSync, OpenForSync,
          ClearTable, WriteItems, EndSync, DeleteEmptyDatabase, PerformTerminate, Performs,
          Take, Steps
  <2>4. CASE PerformImport
    <3>1. imported' /\ tasks' = <<>>
      BY <2>1, <2>4 DEF PerformImport, Take
    <3> QED  BY <3>1 DEF BeforeImport, ImportOnce, Has
  <2>5. CASE UNCHANGED vars
    BY <2>5 DEF vars, IInv, BeforeImport, ImportOnce, Has
  <2> QED  BY <2>3, <2>4, <2>5
<1> QED  BY <1>2, <1>3

LEMMA NextTaken == IInv /\ [Next]_vars => TakenUntilWritten'
<1> SUFFICES ASSUME IInv, [Next]_vars PROVE TakenUntilWritten'
  OBVIOUS
<1> USE DEF page, handedOver, task, disk, TakenUntilWritten
<1>0. TakenUntilWritten /\ clearItems \in BOOLEAN
  BY DEF IInv, TypeOK
<1>1. CASE Page \/ SyncTimerFired \/ Close \/ Terminate \/ Joined
  <2>1. UNCHANGED <<thread, items, clearItems>>
    BY <1>1 DEF Page, SetItem, RemoveItem, ScheduleItemForSync, Clear, SyncTimerFired, Close,
          Terminate, Joined
  <2> QED  BY <1>0, <2>1
<1>2. CASE PerformImport \/ DeleteEmptyDatabase
  BY <1>0, <1>2 DEF PerformImport, DeleteEmptyDatabase
<1>3. CASE PerformSync
  BY <1>0, <1>3 DEF PerformSync
<1>4. CASE OpenForSync
  BY <1>0, <1>4 DEF OpenForSync, Performs
<1>5. CASE ClearTable
  BY <1>0, <1>5 DEF ClearTable, Performs
<1>6. CASE WriteItems
  BY <1>0, <1>6 DEF WriteItems, Performs
<1>7. CASE EndSync
  BY <1>0, <1>7 DEF EndSync, Performs
<1>8. CASE PerformTerminate
  BY <1>0, <1>8 DEF PerformTerminate, Take
<1>9. CASE UNCHANGED vars
  BY <1>0, <1>9 DEF vars
<1> QED  BY <1>1, <1>2, <1>3, <1>4, <1>5, <1>6, <1>7, <1>8, <1>9 DEF Next, StorageThread

LEMMA NextScheduled == IInv /\ [Next]_vars => PendingScheduled'
<1> SUFFICES ASSUME IInv, [Next]_vars PROVE PendingScheduled'
  OBVIOUS
<1> USE DEF page, handedOver, task, disk
<1>0. PendingScheduled /\ tasks \in Seq(Task) /\ scheduled \in BOOLEAN
  BY DEF IInv, TypeOK
<1>1. ASSUME scheduled' = TRUE, tasks' = tasks \o SyncTask
      PROVE  PendingScheduled'
  <2>1. tasks' = IF scheduled THEN tasks ELSE Append(tasks, "sync")
    BY <1>0, <1>1, SyncTaskFacts
  <2>2. Has(tasks', "sync")
    BY <1>0, <2>1, AppendTask, TaskMembers DEF PendingScheduled
  <2> QED  BY <1>1, <2>2 DEF PendingScheduled
<1>2. CASE SyncTimerFired
  BY <1>1, <1>2 DEF SyncTimerFired, HandOver, StillPending
<1>3. CASE Close
  <2>1. tasks' = tasks \o SyncTask \o <<"deleteEmpty">> /\ scheduled' = TRUE
    BY <1>3 DEF Close, HandOver, StillPending
  <2> DEFINE s == tasks \o SyncTask
  <2>2. s = IF scheduled THEN tasks ELSE Append(tasks, "sync")
    BY <1>0, SyncTaskFacts
  <2>3. s \in Seq(Task) /\ Has(s, "sync")
    BY <1>0, <2>2, AppendTask, TaskMembers DEF PendingScheduled
  <2> HIDE DEF s
  <2>4. tasks' = Append(s, "deleteEmpty")
    BY <2>1, <2>3, AppendSync, TaskMembers DEF s
  <2>5. Has(tasks', "sync")
    BY <2>3, <2>4, AppendTask, TaskMembers
  <2> QED  BY <2>1, <2>5 DEF PendingScheduled
<1>4. CASE PerformSync
  BY <1>4 DEF PerformSync, PendingScheduled
<1> DEFINE NoSync == /\ UNCHANGED <<pending, clearPending, scheduled>>
                     /\ \/ tasks' = tasks
                        \/ tasks' = Append(tasks, "terminate")
                        \/ tasks # <<>> /\ Head(tasks) # "sync" /\ tasks' = Tail(tasks)
<1>5. ASSUME NoSync PROVE PendingScheduled'
  <2>1. CASE tasks' = tasks
    BY <1>0, <1>5, <2>1 DEF PendingScheduled
  <2>2. CASE tasks' = Append(tasks, "terminate")
    <3>1. Has(tasks, "sync") => Has(tasks', "sync")
      BY <1>0, <2>2, AppendTask, TaskMembers
    <3> QED  BY <1>0, <1>5, <3>1 DEF PendingScheduled
  <2>3. CASE tasks # <<>> /\ Head(tasks) # "sync" /\ tasks' = Tail(tasks)
    <3>1. Has(tasks, "sync") => Has(tasks', "sync")
      BY <1>0, <2>3, TailTasks, TaskMembers
    <3> QED  BY <1>0, <1>5, <3>1 DEF PendingScheduled
  <2> QED  BY <1>5, <2>1, <2>2, <2>3
<1>6. CASE Page
  BY <1>5, <1>6 DEF Page, SetItem, RemoveItem, ScheduleItemForSync, Clear
<1>7. CASE Terminate \/ Joined
  BY <1>5, <1>7 DEF Terminate, Joined
<1>8. CASE PerformImport \/ DeleteEmptyDatabase \/ PerformTerminate
  BY <1>5, <1>8 DEF PerformImport, DeleteEmptyDatabase, PerformTerminate, Take
<1>9. CASE OpenForSync \/ ClearTable \/ WriteItems \/ EndSync
  BY <1>5, <1>9 DEF OpenForSync, ClearTable, WriteItems, EndSync, Performs
<1>10. CASE UNCHANGED vars
  BY <1>5, <1>10 DEF vars
<1> QED  BY <1>2, <1>3, <1>4, <1>6, <1>7, <1>8, <1>9, <1>10 DEF Next, StorageThread

LEMMA NextClosed == IInv /\ [Next]_vars => ClosedIsHandedOver'
<1> SUFFICES ASSUME IInv, [Next]_vars PROVE ClosedIsHandedOver'
  OBVIOUS
<1> USE DEF page, handedOver, task, disk, ClosedIsHandedOver
<1>0. ClosedIsHandedOver /\ TypeOK
  BY DEF IInv
<1>1. CASE Page
  BY <1>0, <1>1 DEF Page, SetItem, RemoveItem, ScheduleItemForSync, Clear
<1>2. CASE SyncTimerFired
  BY <1>0, <1>2 DEF SyncTimerFired
<1>3. CASE Close
  BY <1>0, <1>3, HandOverFacts DEF Close
<1>4. CASE Terminate \/ Joined
  BY <1>0, <1>4 DEF Terminate, Joined
<1>5. CASE StorageThread \/ UNCHANGED vars
  <2>1. UNCHANGED <<changed, cleared, main>>
    BY <1>5 DEF StorageThread, PerformImport, PerformSync, OpenForSync, ClearTable, WriteItems,
          EndSync, DeleteEmptyDatabase, PerformTerminate, Performs, vars
  <2> QED  BY <1>0, <2>1
<1> QED  BY <1>1, <1>2, <1>3, <1>4, <1>5 DEF Next

LEMMA NextTerminate == IInv /\ [Next]_vars => TerminateLast'
<1> SUFFICES ASSUME IInv, [Next]_vars PROVE TerminateLast'
  OBVIOUS
<1> USE DEF page, handedOver, task, disk
<1>0. /\ TerminateLast /\ TypeOK /\ tasks \in Seq(Task)
      /\ main \in {"open", "final", "joining", "closed"}
  BY DEF IInv, TypeOK
<1>1. Queueing
  BY NextQueueing DEF IInv
<1>2. main \in {"joining", "closed"} =>
        /\ main' \in {"joining", "closed"}
        /\ main' = "closed" => main = "closed" \/ thread = "ended"
  BY DEF Next, Page, SetItem, RemoveItem, ScheduleItemForSync, Clear, SyncTimerFired, Close,
        Terminate, Joined, StorageThread, PerformImport, PerformSync, OpenForSync, ClearTable,
        WriteItems, EndSync, DeleteEmptyDatabase, PerformTerminate, Performs, vars
<1>3. main \notin {"joining", "closed"} => main' # "closed"
  BY <1>0 DEF Next, Page, SetItem, RemoveItem, ScheduleItemForSync, Clear, SyncTimerFired,
        Close, Terminate, Joined, StorageThread, PerformImport, PerformSync, OpenForSync,
        ClearTable, WriteItems, EndSync, DeleteEmptyDatabase, PerformTerminate, Performs, vars
<1>4. Has(tasks', "terminate") => main' \in {"joining", "closed"}
  BY <1>0, <1>1, <1>2, QueueingMembers, TaskMembers DEF TerminateLast
<1>5. OnlyLast(tasks', "terminate")
  <2>1. CASE tasks' = tasks
    BY <1>0, <2>1 DEF TerminateLast
  <2>2. CASE tasks # <<>> /\ tasks' = Tail(tasks)
    BY <1>0, <2>2, TailTasks, TaskMembers DEF TerminateLast
  <2>3. CASE main \in {"open", "final"}
    <3>1. ~Has(tasks, "terminate")
      BY <1>0, <2>3 DEF TerminateLast
    <3>2. \A x \in Task : OnlyLast(Append(tasks, x), "terminate")
      BY <1>0, <3>1, AppendTask, TaskMembers
    <3> DEFINE s == Append(tasks, "sync")
    <3>3. s \in Seq(Task) /\ ~Has(s, "terminate")
      BY <1>0, <3>1, AppendTask, TaskMembers
    <3> HIDE DEF s
    <3>4. OnlyLast(Append(s, "deleteEmpty"), "terminate")
      BY <3>3, AppendTask, TaskMembers
    <3> QED  BY <1>1, <2>1, <2>2, <3>2, <3>4, TaskMembers DEF Queueing, s
  <2> QED  BY <1>0, <1>1, <2>1, <2>2, <2>3 DEF Queueing
<1>6. thread' = "ended" => tasks' = <<>> /\ main' \in {"joining", "closed"}
  <2>1. CASE thread = "ended"
    BY <1>0, <1>1, <1>2, <2>1 DEF TerminateLast, Queueing
  <2>2. CASE PerformTerminate
    <3>1. tasks # <<>> /\ Head(tasks) = "terminate" /\ tasks' = Tail(tasks) /\ main' = main
      BY <2>2 DEF PerformTerminate, Take
    <3>2. tasks' = <<>> /\ Has(tasks, "terminate")
      BY <1>0, <3>1, TailTasks, TaskMembers DEF TerminateLast
    <3> QED  BY <1>0, <3>1, <3>2 DEF TerminateLast
  <2>3. CASE thread # "ended" /\ ~PerformTerminate
    BY <2>3 DEF Next, Page, SetItem, RemoveItem, ScheduleItemForSync, Clear, SyncTimerFired,
        Close, Terminate, Joined, StorageThread, PerformImport, PerformSync, OpenForSync,
        ClearTable, WriteItems, EndSync, DeleteEmptyDatabase, Performs, vars
  <2> QED  BY <2>1, <2>2, <2>3
<1>7. thread = "ended" => thread' = "ended"
  BY DEF Next, Page, SetItem, RemoveItem, ScheduleItemForSync, Clear, SyncTimerFired, Close,
        Terminate, Joined, StorageThread, PerformImport, PerformSync, OpenForSync, ClearTable,
        WriteItems, EndSync, DeleteEmptyDatabase, PerformTerminate, Performs, Take, vars
<1>8. main' = "closed" => thread' = "ended"
  BY <1>0, <1>2, <1>3, <1>7 DEF TerminateLast
<1> QED  BY <1>4, <1>5, <1>6, <1>8 DEF TerminateLast

\* IInv is inductive.
LEMMA NextIInv == IInv /\ [Next]_vars => IInv'
<1> SUFFICES ASSUME IInv, [Next]_vars PROVE IInv'
  OBVIOUS
<1>1. TypeOK /\ BeforeImport
  BY DEF IInv
<1>2. Layers' /\ Flags' /\ Places'
  BY <1>1, NextLayers, NextFlags, NextPlaces
<1>3. tasks' \in Seq(Task)
  BY <1>1, NextQueueing, NextTasks
<1>4. TypeOK'
  BY <1>2, <1>3 DEF TypeOK, Layers, Flags, Places
<1> QED  BY <1>4, NextImport, NextTaken, NextScheduled, NextClosed, NextTerminate DEF IInv

-----------------------------------------------------------------------------
(* No change is lost.                                                       *)

\* Flushed, for one key: the topmost layer that says something of it decides.
FlushedAt(k) ==
    IF changed[k] # Keep THEN changed[k]
    ELSE IF cleared THEN None
    ELSE IF pending[k] # Keep THEN pending[k]
    ELSE IF clearPending THEN None
    ELSE IF items[k] # Keep THEN items[k]
    ELSE IF clearItems THEN None
    ELSE db[k]

LEMMA FlushedFact == \A k \in Key : Flushed[k] = FlushedAt(k)
BY DEF Flushed, FlushedAt, Over

\* A key counts when it is not given up.
Saved == imported => \A k \in Key : k \notin abandoned => FlushedAt(k) = map[k]

LEMMA SavedFact == NothingElseLost <=> Saved
BY FlushedFact DEF NothingElseLost, Saved

LEMMA InitSaved == Init => Saved
BY DEF Init, Saved

\* The import: what is in the database is in the map, or given up.
LEMMA ImportSaved == IInv /\ PerformImport /\ ~imported => Saved'
<1> SUFFICES ASSUME IInv, PerformImport, ~imported, NEW k \in Key, k \notin abandoned'
             PROVE  FlushedAt(k)' = map'[k]
  BY DEF Saved
<1> USE DEF handedOver, task
<1>1. /\ changed = Nothing /\ pending = Nothing /\ items = Nothing
      /\ cleared = FALSE /\ clearPending = FALSE /\ clearItems = FALSE
      /\ map = NoRows /\ abandoned = {}
  BY DEF IInv, BeforeImport, TakenUntilWritten, TypeOK
<1>2. /\ UNCHANGED <<changed, pending, items, cleared, clearPending, clearItems, db>>
      /\ Nothing[k] = Keep /\ NoRows[k] = None
  BY Constants DEF PerformImport
<1>3. FlushedAt(k)' = db[k]
  BY <1>1, <1>2 DEF FlushedAt
<1>4. CASE map' = db
  BY <1>3, <1>4
<1>5. CASE map' = map /\ GiveUp({j \in Key : db[j] # None})
  <2>1. ~Superseded(k)
    BY <1>1, <1>2 DEF Superseded
  <2>2. db[k] = None
    BY <1>2, <1>5, <2>1 DEF GiveUp
  <2> QED  BY <1>1, <1>2, <1>3, <1>5, <2>2
<1>6. CASE map' = map /\ db = NoRows
  BY <1>1, <1>3, <1>6
<1> QED  BY <1>4, <1>5, <1>6 DEF PerformImport

\* The keys that are handed over move down a layer; those that are given up do
\* not count.
LEMMA HandOverSaved ==
    ASSUME IInv, Saved, imported, UNCHANGED <<map, imported, items, clearItems, db>>,
           NEW copied \in SUBSET Holds(changed), HandOver(copied)
    PROVE  Saved'
<1> SUFFICES ASSUME NEW k \in Key, k \notin abandoned'
             PROVE  FlushedAt(k)' = map'[k]
  BY DEF Saved
<1> DEFINE before == IF cleared THEN Nothing ELSE pending
<1>1. /\ pending' = [j \in Key |-> IF j \in copied THEN changed[j] ELSE before[j]]
      /\ changed' = [j \in Key |-> IF copied = Holds(changed) \/ pending'[j] # Keep
                                   THEN Keep ELSE changed[j]]
      /\ clearPending' = (clearPending \/ cleared)
      /\ cleared' = FALSE
      /\ abandoned' = abandoned \cup ((Holds(changed) \cap Holds(before)) \ copied)
  BY DEF StillPending, HandOver
<1>2. Nothing[k] = Keep
  BY Constants
<1>3. k \notin abandoned /\ (k \in copied \/ changed[k] = Keep \/ before[k] = Keep)
  BY <1>1 DEF Holds
<1>4. pending'[k] = IF k \in copied THEN changed[k] ELSE before[k]
  BY <1>1
<1>5. k \in copied => changed[k] # Keep
  BY DEF Holds
<1>6. copied = Holds(changed) /\ k \notin copied => changed[k] = Keep
  BY DEF Holds
<1>7. changed'[k] = IF copied = Holds(changed) \/ pending'[k] # Keep
                    THEN Keep ELSE changed[k]
  BY <1>1
<1>8. FlushedAt(k) = map[k]
  BY <1>3 DEF Saved
<1>9. FlushedAt(k)' = FlushedAt(k)
  <2>1. CASE k \in copied
    BY <2>1, <1>1, <1>4, <1>5, <1>7 DEF FlushedAt
  <2>2. CASE k \notin copied /\ changed[k] = Keep
    BY <2>2, <1>1, <1>2, <1>4, <1>7 DEF FlushedAt, IInv, TypeOK
  <2>3. CASE k \notin copied /\ changed[k] # Keep
    BY <2>3, <1>1, <1>3, <1>4, <1>6, <1>7 DEF FlushedAt
  <2> QED  BY <2>1, <2>2, <2>3
<1> QED  BY <1>8, <1>9

\* What GiveUp does not name has a change above what was taken, or is not in it.
LEMMA GivenUp ==
    ASSUME NEW K, NEW k \in Key, GiveUp(K), k \notin abandoned'
    PROVE  k \notin abandoned /\ (k \notin K \/ Superseded(k))
BY DEF GiveUp

LEMMA NextSaved == IInv /\ Saved /\ [Next]_vars => Saved'
<1> SUFFICES ASSUME IInv, Saved, [Next]_vars PROVE Saved'
  OBVIOUS
<1> USE DEF page, handedOver, task, disk
<1>0. TypeOK /\ BeforeImport /\ ImportOnce /\ TakenUntilWritten
  BY DEF IInv
<1>1. ASSUME NEW k \in Key, NEW v \in Value \cup {None}, imported,
             map' = [map EXCEPT ![k] = v], ScheduleItemForSync(k, v)
      PROVE  Saved'
  <2> SUFFICES ASSUME NEW j \in Key, j \notin abandoned'
               PROVE  FlushedAt(j)' = map'[j]
    BY DEF Saved
  <2>1. /\ changed' = [changed EXCEPT ![k] = v]
        /\ abandoned' = abandoned \ {k}
        /\ UNCHANGED <<cleared, pending, clearPending, items, clearItems, db>>
    BY <1>1 DEF ScheduleItemForSync
  <2>2. DOMAIN map = Key /\ DOMAIN changed = Key
    BY <1>0 DEF TypeOK, Rows, Layer
  <2>3. CASE j = k
    <3>1. changed'[j] = v /\ map'[j] = v /\ v # Keep
      BY <1>1, <2>1, <2>2, <2>3, Constants
    <3> QED  BY <3>1 DEF FlushedAt
  <2>4. CASE j # k
    <3>1. changed'[j] = changed[j] /\ map'[j] = map[j] /\ j \notin abandoned
      BY <1>1, <2>1, <2>2, <2>4
    <3> QED  BY <1>1, <2>1, <3>1 DEF FlushedAt, Saved
  <2> QED  BY <2>3, <2>4
<1>2. ASSUME NEW k \in Key, RemoveItem(k) PROVE Saved'
  BY <1>1, <1>2 DEF RemoveItem
<1>3. ASSUME NEW k \in Key, NEW v \in Value, SetItem(k, v) PROVE Saved'
  BY <1>1, <1>3 DEF SetItem
<1>4. CASE Clear
  BY <1>4, Constants DEF Clear, Saved, FlushedAt
<1>5. CASE SyncTimerFired
  <2>1. imported /\ UNCHANGED <<map, imported, items, clearItems, db>>
    BY <1>0, <1>5 DEF SyncTimerFired, BeforeImport
  <2>2. PICK copied \in SUBSET Holds(changed) : HandOver(copied)
    BY <1>5 DEF SyncTimerFired
  <2> QED  BY <2>1, <2>2, HandOverSaved
<1>6. CASE Close
  BY <1>6, HandOverSaved DEF Close
<1>7. CASE Terminate \/ Joined \/ EndSync \/ DeleteEmptyDatabase \/ PerformTerminate
  <2>1. UNCHANGED <<map, imported, abandoned, changed, cleared, pending, clearPending,
                    items, clearItems, db>>
    BY <1>7 DEF Terminate, Joined, EndSync, DeleteEmptyDatabase, PerformTerminate, Performs
  <2> QED  BY <2>1 DEF Saved, FlushedAt
<1>8. CASE PerformImport
  <2>1. ~imported
    <3>1. tasks \in Seq(Task) /\ tasks # <<>> /\ Head(tasks) = "import"
      BY <1>0, <1>8 DEF PerformImport, Take, TypeOK
    <3>2. Has(tasks, "import")
      BY <3>1, TailTasks, TaskMembers
    <3> QED  BY <1>0, <3>2 DEF ImportOnce
  <2> QED  BY <1>8, <2>1, ImportSaved
<1>9. CASE PerformSync
  <2> SUFFICES ASSUME imported, NEW k \in Key, k \notin abandoned
               PROVE  FlushedAt(k)' = map[k]
    BY <1>9 DEF Saved, PerformSync
  <2>1. items = Nothing /\ clearItems = FALSE
    BY <1>0, <1>9 DEF PerformSync, Take, TakenUntilWritten, TypeOK
  <2>2. FlushedAt(k)' = FlushedAt(k)
    BY <1>9, <2>1, Constants DEF PerformSync, FlushedAt
  <2> QED  BY <2>2 DEF Saved
<1>10. ASSUME UNCHANGED <<map, imported, changed, cleared, pending, clearPending>>,
              NEW k \in Key, k \notin abandoned, imported, Superseded(k)
       PROVE  FlushedAt(k)' = map'[k]
  BY <1>10 DEF Superseded, FlushedAt, Saved
<1>11. ASSUME UNCHANGED <<map, imported, changed, cleared, pending, clearPending, db>>,
              items' = Nothing, clearItems' = FALSE, GiveUp(Taken)
       PROVE  Saved'
  <2> SUFFICES ASSUME imported, NEW k \in Key, k \notin abandoned'
               PROVE  FlushedAt(k)' = map'[k]
    BY <1>11 DEF Saved
  <2>1. k \notin abandoned /\ (k \notin Taken \/ Superseded(k))
    BY <1>11, GivenUp
  <2>2. CASE k \notin Taken
    <3>1. ~clearItems /\ items[k] = Keep
      BY <2>2 DEF Taken, Holds
    <3>2. FlushedAt(k)' = FlushedAt(k)
      BY <1>11, <3>1, Constants DEF FlushedAt
    <3> QED  BY <1>11, <2>1, <3>2 DEF Saved
  <2> QED  BY <1>11, <1>10, <2>1, <2>2
<1>12. CASE OpenForSync
  <2>1. CASE database # "failed" /\ UNCHANGED <<items, clearItems, db, abandoned>>
    <3>1. UNCHANGED <<map, imported, abandoned, changed, cleared, pending, clearPending,
                      items, clearItems, db>>
      BY <1>12, <2>1 DEF OpenForSync, Performs
    <3> QED  BY <3>1 DEF Saved, FlushedAt
  <2> QED  BY <1>11, <1>12, <2>1 DEF OpenForSync, Performs
<1>13. CASE ClearTable
  <2>1. CASE thread' = "end"
    BY <1>11, <1>13, <2>1 DEF ClearTable, Performs
  <2>2. CASE thread' = "write"
    <3>1. /\ UNCHANGED <<map, imported, changed, cleared, pending, clearPending, items,
                         abandoned>>
          /\ db' = NoRows /\ clearItems' = FALSE
      BY <1>13, <2>2 DEF ClearTable, Performs
    <3>2. clearItems
      BY <1>0, <1>13 DEF ClearTable, Performs, TakenUntilWritten
    <3> QED  BY <3>1, <3>2, Constants DEF Saved, FlushedAt
  <2> QED  BY <1>13, <2>1, <2>2 DEF ClearTable, Performs
<1>14. CASE WriteItems
  <2>1. PICK written \in SUBSET Holds(items) :
          /\ db' = [k \in Key |-> IF k \in written THEN items[k] ELSE db[k]]
          /\ GiveUp(Holds(items) \ written)
    BY <1>14 DEF WriteItems
  <2>2. /\ UNCHANGED <<map, imported, changed, cleared, pending, clearPending, clearItems>>
        /\ items' = Nothing /\ clearItems = FALSE
    BY <1>0, <1>14 DEF WriteItems, Performs, TakenUntilWritten, TypeOK
  <2> SUFFICES ASSUME imported, NEW k \in Key, k \notin abandoned'
               PROVE  FlushedAt(k)' = map'[k]
    BY <2>2 DEF Saved
  <2>3. k \notin abandoned /\ (k \notin Holds(items) \ written \/ Superseded(k))
    BY <2>1, GivenUp
  <2>4. db'[k] = IF k \in written THEN items[k] ELSE db[k]
    BY <2>1
  <2>5. CASE k \notin Holds(items) \ written
    <3>1. FlushedAt(k)' = FlushedAt(k)
      BY <2>2, <2>4, <2>5, Constants DEF FlushedAt, Holds
    <3> QED  BY <2>2, <2>3, <3>1 DEF Saved
  <2> QED  BY <1>10, <2>2, <2>3, <2>5
<1>15. CASE UNCHANGED vars
  BY <1>15 DEF vars, Saved, FlushedAt
<1> QED  BY <1>2, <1>3, <1>4, <1>5, <1>6, <1>7, <1>8, <1>9, <1>12, <1>13, <1>14, <1>15
         DEF Next, Page, StorageThread

-----------------------------------------------------------------------------
LEMMA Invariance == Spec => [](IInv /\ Saved)
<1>1. Init => IInv /\ Saved
  BY InitIInv, InitSaved
<1>2. (IInv /\ Saved) /\ [Next]_vars => (IInv /\ Saved)'
  BY NextIInv, NextSaved
<1> QED  BY <1>1, <1>2, PTL DEF Spec

\* Every variable keeps its type.
THEOREM TypeCorrect == Spec => []TypeOK
<1>1. IInv => TypeOK
  BY DEF IInv
<1> QED  BY <1>1, Invariance, PTL

\* Nothing is lost between the map of the page and the database, in every
\* interleaving of the page, the timer and the thread, but what a fault or a
\* partial sync gives up.
THEOREM ChangesSurvive == Spec => []NothingElseLost
<1>1. Saved => NothingElseLost
  BY SavedFact
<1> QED  BY <1>1, Invariance, PTL

\* close() returns with all the changes in the database.
THEOREM ClosedIsSaved == Spec => []FinalSync
<1>1. IInv /\ Saved => FinalSync
  <2> SUFFICES ASSUME IInv, Saved, main = "closed", NEW k \in Key, k \notin abandoned
               PROVE  db[k] = map[k]
    BY DEF FinalSync
  <2>1. thread = "ended" /\ tasks = <<>> /\ changed = Nothing /\ ~cleared
    BY DEF IInv, TerminateLast, ClosedIsHandedOver
  <2>2. imported
    BY DEF IInv, BeforeImport
  <2>3. pending = Nothing /\ ~clearPending
    BY <2>1 DEF IInv, PendingScheduled, Has
  <2>4. items = Nothing /\ ~clearItems
    BY <2>1 DEF IInv, TakenUntilWritten
  <2>5. Nothing[k] = Keep
    BY Constants
  <2>6. FlushedAt(k) = db[k]
    BY <2>1, <2>3, <2>4, <2>5 DEF FlushedAt
  <2> QED  BY <2>2, <2>6 DEF Saved
<1> QED  BY <1>1, Invariance, PTL

=============================================================================
