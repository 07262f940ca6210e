------------------------- MODULE MessageStoreServer -------------------------
(***************************************************************************)
(* The message store server (CMessageStoreServer): when the container      *)
(* store is open, who is told, and what survives its being closed.  Two     *)
(* active objects watch properties other processes set: one PointSec, which *)
(* locks the file system, one backup and restore.  Either locks the server, *)
(* which deletes the container store; when neither does, a new one is made. *)
(* Client sessions observe the store, hold sort row sets in it and may ask  *)
(* for everything to be wiped.                                              *)
(*                                                                          *)
(* The server is one thread.  What a request or an active object does is    *)
(* one action, except where it first reads a property and then subscribes   *)
(* to it (or the other way around): a property can be set in between.       *)
(***************************************************************************)
EXTENDS Integers

CONSTANTS
    Sessions,           \* client sessions
    PointSecStates,     \* the values PointSec's property takes in the instance
    MaxChanges,         \* bound on how often the two properties are set
    MaxCrashes,         \* bound on crashes of the server process
    MaxFailures,        \* bound on failures to wipe or to create the store
    MaxWipes,           \* bound on announced wipes
    MaxSorts            \* bound on the sort ids of one store, and on their repetition

ASSUME PointSecType == PointSecStates \subseteq {"locked", "unlocked", "other", "undefined"}
ASSUME Bounds == /\ MaxChanges \in Nat /\ MaxCrashes \in Nat /\ MaxFailures \in Nat
                 /\ MaxWipes \in Nat /\ MaxSorts \in Nat

VARIABLES
    pointsec,           \* PointSec's property
    backup,             \* the backup property says one is in progress
    changes,            \* how often the properties were set
    pointsecSub,        \* the subscription of CImsPointsecMonitor
    backupSub,          \* the subscription of CBackupRestoreNotifier
    thread,             \* what the server's thread is in the middle of
    serviceAllowed,     \* CImsPointsecMonitor::iServiceAllowed
    inProgress,         \* CBackupRestoreNotifier::iInProgress
    lockedByPointSec,   \* iLockedByPointSec
    lockedByBackup,     \* iLockedByBackupRestore
    wipeAfter,          \* iWipeAfterBackupRestore
    open,               \* iMessageStore is not NULL
    observing,          \* how often a session is among the observers of the store
    sorts,              \* the sort row sets of the store, with the session they are for
    nextSort,           \* iNextSortSessionId of the store
    sessions,           \* connected sessions
    told,               \* the last availability a session was told
    sortIds,            \* how often a sort id is in iSortSessionIds of a session
    iterators,          \* how many iterators with a sort id the client has
    content,            \* the database holds something of a client
    announced,          \* how often clients were told that everything was wiped
    crashes, failures

properties  == <<pointsec, backup, changes>>
subs        == <<pointsecSub, backupSub>>
monitors    == <<serviceAllowed, inProgress>>
locks       == <<lockedByPointSec, lockedByBackup>>
store       == <<open, observing, sorts, nextSort>>
clients     == <<sessions, told, sortIds, iterators>>
history     == <<content, announced, crashes, failures>>
vars == <<properties, subs, thread, monitors, locks, wipeAfter, store, clients, history>>

SortIds == 0..(MaxSorts - 1)
NoIds   == [id \in SortIds |-> 0]

\* The thread waits for the next request or event.
Free == thread = "idle"

Locked == lockedByPointSec \/ lockedByBackup

-----------------------------------------------------------------------------
(* The properties, set by other processes at any time.  A subscription that is *)
(* pending completes; a set nobody subscribed to is not seen.                  *)

Signalled(sub) == IF sub = "pending" THEN "completed" ELSE sub

SetPointSec(status) ==
    /\ changes < MaxChanges
    /\ changes' = changes + 1
    /\ pointsec' = status
    /\ pointsecSub' = Signalled(pointsecSub)
    /\ UNCHANGED <<backup, backupSub, thread, monitors, locks, wipeAfter, store,
                   clients, history>>

SetBackup(inBackup) ==
    /\ changes < MaxChanges
    /\ changes' = changes + 1
    /\ backup' = inBackup
    /\ backupSub' = Signalled(backupSub)
    /\ UNCHANGED <<pointsec, pointsecSub, thread, monitors, locks, wipeAfter, store,
                   clients, history>>

-----------------------------------------------------------------------------
(* Opening and closing the container store.                                   *)

\* The process ends: all that is kept in memory is gone, clients are disconnected.
ProcessEnds ==
    /\ thread' = "down"
    /\ pointsecSub' = "none" /\ backupSub' = "none"
    /\ serviceAllowed' = FALSE /\ inProgress' = FALSE
    /\ lockedByPointSec' = FALSE /\ lockedByBackup' = FALSE
    /\ wipeAfter' = FALSE
    /\ open' = FALSE
    /\ observing' = [s \in Sessions |-> 0]
    /\ sorts' = {} /\ nextSort' = 0
    /\ sessions' = {}
    /\ told' = [s \in Sessions |-> "nothing"]
    /\ sortIds' = [s \in Sessions |-> NoIds]
    /\ iterators' = [s \in Sessions |-> NoIds]

\* A new container store, which every session is made to observe.
NewStore ==
    /\ open' = TRUE
    /\ observing' = [s \in Sessions |-> IF s \in sessions THEN 1 ELSE 0]
    /\ sorts' = {} /\ nextSort' = 0

Tell(what) == told' = [s \in Sessions |-> IF s \in sessions THEN what ELSE told[s]]

\* Mutant of LockSystem: the sessions are not told.
LockSystem_Silent ==
    /\ open' = FALSE
    /\ observing' = [s \in Sessions |-> 0]
    /\ sorts' = {} /\ nextSort' = 0
    /\ UNCHANGED told

\* LockSystem: sessions are told if the store was open; the second lock adds nothing.
LockSystem ==
    IF open
    THEN /\ Tell("Unavailable")
         /\ open' = FALSE
         /\ observing' = [s \in Sessions |-> 0]
         /\ sorts' = {} /\ nextSort' = 0
    ELSE UNCHANGED <<store, told>>

\* WipeEverything deletes the database and the content files.  Its result is
\* overwritten: should it fail, clients are told all the same.
Wiped ==
    /\ announced' = announced + 1
    /\ \/ content' = FALSE /\ UNCHANGED failures
       \/ failures < MaxFailures /\ failures' = failures + 1 /\ UNCHANGED content

\* The container store cannot be created: ShutDownNow.
CreationFails ==
    /\ failures < MaxFailures
    /\ failures' = failures + 1
    /\ ProcessEnds

\* The same when a lock ends, or in the wipe that was put off until then.
UnlockFails ==
    /\ CreationFails
    /\ \/ UNCHANGED <<content, announced>>
       \/ wipeAfter /\ announced' = announced + 1 /\ content' \in {content, FALSE}

\* Mutant of UnlockSystem: a wipe asked for in the meantime is forgotten.
UnlockSystem_NoWipe ==
    /\ NewStore
    /\ Tell("Available")
    /\ UNCHANGED <<wipeAfter, content, announced, failures>>

\* UnlockSystemL once no lock is left, when the store can be created: a wipe asked
\* for in the meantime follows at once (and creates the store once more).
UnlockSystem ==
    /\ NewStore
    /\ Tell("Available")
    /\ wipeAfter' = FALSE
    /\ IF wipeAfter THEN Wiped ELSE UNCHANGED <<content, announced, failures>>

-----------------------------------------------------------------------------
(* Starting.                                                                  *)

Init ==
    /\ pointsec \in PointSecStates /\ backup = FALSE /\ changes = 0
    /\ pointsecSub = "none" /\ backupSub = "none"
    /\ thread = "down"
    /\ serviceAllowed = FALSE /\ inProgress = FALSE
    /\ lockedByPointSec = FALSE /\ lockedByBackup = FALSE
    /\ wipeAfter = FALSE
    /\ open = FALSE
    /\ observing = [s \in Sessions |-> 0]
    /\ sorts = {} /\ nextSort = 0
    /\ sessions = {}
    /\ told = [s \in Sessions |-> "nothing"]
    /\ sortIds = [s \in Sessions |-> NoIds]
    /\ iterators = [s \in Sessions |-> NoIds]
    /\ content = FALSE /\ announced = 0
    /\ crashes = 0 /\ failures = 0

\* UpdateStatus and HandleEvent: a status that is neither leaves the old answer, a
\* property that is not defined means there is no PointSec.
UpdatedStatus ==
    CASE pointsec = "locked"                  -> FALSE
      [] pointsec \in {"unlocked", "undefined"} -> TRUE
      [] OTHER                                -> serviceAllowed

\* ConstructL: the monitor reads its property...
Boot ==
    /\ thread = "down"
    /\ thread' = "booting"
    /\ serviceAllowed' = UpdatedStatus
    /\ UNCHANGED <<properties, subs, inProgress, locks, wipeAfter, store, clients, history>>

\* ...and subscribes; the store is created if PointSec allows it; the notifier
\* subscribes to its property, and goes on to read it.
BootSubscribes ==
    /\ thread = "booting"
    /\ thread' = "backup"
    /\ pointsecSub' = "pending" /\ backupSub' = "pending"
    /\ IF serviceAllowed
       THEN NewStore /\ UNCHANGED lockedByPointSec
       ELSE lockedByPointSec' = TRUE /\ UNCHANGED store
    /\ UNCHANGED <<properties, monitors, lockedByBackup, wipeAfter, clients, history>>

BootFails ==
    /\ thread = "booting"
    /\ serviceAllowed
    /\ CreationFails
    /\ UNCHANGED <<properties, content, announced, crashes>>

-----------------------------------------------------------------------------
(* CImsPointsecMonitor: reads, tells the server, subscribes.                   *)

\* PointSecLockStarted.
PointSecLocks ==
    /\ lockedByPointSec' = TRUE
    /\ IF lockedByPointSec THEN UNCHANGED <<store, told>> ELSE LockSystem
    /\ UNCHANGED <<lockedByBackup, wipeAfter, content, announced, failures>>

\* Mutant of PointSecUnlocks: the other lock is not looked at.
PointSecUnlocks_OneLock ==
    /\ lockedByPointSec' = FALSE
    /\ UnlockSystem
    /\ UNCHANGED lockedByBackup

\* PointSecLockEnded.
PointSecUnlocks ==
    /\ lockedByPointSec' = FALSE
    /\ IF lockedByPointSec /\ ~lockedByBackup
       THEN UnlockSystem
       ELSE UNCHANGED <<store, told, wipeAfter, content, announced, failures>>
    /\ UNCHANGED lockedByBackup

\* RunL up to the subscription.
PointSecRunL ==
    /\ Free /\ pointsecSub = "completed"
    /\ serviceAllowed' = UpdatedStatus
    /\ CASE UpdatedStatus = serviceAllowed ->
                UNCHANGED <<locks, store, told, wipeAfter, content, announced, failures>>
         [] UpdatedStatus /\ ~serviceAllowed -> PointSecUnlocks
         [] OTHER -> PointSecLocks
    /\ pointsecSub' = "none"
    /\ thread' = "pointsec"
    /\ UNCHANGED <<properties, backupSub, inProgress, sessions, sortIds, iterators, crashes>>

PointSecRunLFails ==
    /\ Free /\ pointsecSub = "completed"
    /\ UpdatedStatus /\ lockedByPointSec /\ ~lockedByBackup
    /\ UnlockFails
    /\ UNCHANGED <<properties, crashes>>

PointSecSubscribes ==
    /\ thread = "pointsec"
    /\ pointsecSub' = "pending"
    /\ thread' = "idle"
    /\ UNCHANGED <<properties, backupSub, monitors, locks, wipeAfter, store, clients,
                   history>>

-----------------------------------------------------------------------------
(* CBackupRestoreNotifier: subscribes, reads, tells the server.                *)

\* Mutant of BackupSubscribes: the property is subscribed to only once.
BackupSubscribes_Once ==
    /\ Free /\ backupSub = "completed"
    /\ backupSub' = "none"
    /\ thread' = "backup"
    /\ UNCHANGED <<properties, pointsecSub, monitors, locks, wipeAfter, store, clients,
                   history>>

BackupSubscribes ==
    /\ Free /\ backupSub = "completed"
    /\ backupSub' = "pending"
    /\ thread' = "backup"
    /\ UNCHANGED <<properties, pointsecSub, monitors, locks, wipeAfter, store, clients,
                   history>>

\* BackupOrRestoreInProgress and BackupOrRestoreCompleted.
BackupLocks ==
    /\ lockedByBackup' = TRUE
    /\ IF lockedByBackup THEN UNCHANGED <<store, told>> ELSE LockSystem
    /\ UNCHANGED <<wipeAfter, content, announced, failures>>

BackupUnlocks ==
    /\ lockedByBackup' = FALSE
    /\ IF lockedByBackup /\ ~lockedByPointSec
       THEN UnlockSystem
       ELSE UNCHANGED <<store, told, wipeAfter, content, announced, failures>>

\* The rest of RunL: Get and ProcessEvent.
ProcessEvent ==
    /\ thread = "backup"
    /\ inProgress' = backup
    /\ IF backup THEN BackupLocks
       ELSE IF inProgress THEN BackupUnlocks
       ELSE UNCHANGED <<lockedByBackup, store, told, wipeAfter, content, announced, failures>>
    /\ thread' = "idle"
    /\ UNCHANGED <<properties, subs, serviceAllowed, lockedByPointSec, sessions, sortIds,
                   iterators, crashes>>

ProcessEventFails ==
    /\ thread = "backup"
    /\ ~backup /\ inProgress /\ lockedByBackup /\ ~lockedByPointSec
    /\ UnlockFails
    /\ UNCHANGED <<properties, crashes>>

-----------------------------------------------------------------------------
(* Sessions.                                                                  *)

\* Mutant of AddSession: a session made during a lock is told nothing of it.
AddSession_Available(s) ==
    /\ sessions' = sessions \cup {s}
    /\ told' = [told EXCEPT ![s] = "Available"]
    /\ observing' = [observing EXCEPT ![s] = IF open THEN @ + 1 ELSE @]

\* AddSessionL, and ObserveL of the session's CreateL.
AddSession(s) ==
    /\ sessions' = sessions \cup {s}
    /\ told' = [told EXCEPT ![s] = IF Locked THEN "Unavailable" ELSE "Available"]
    /\ observing' = [observing EXCEPT ![s] = IF open THEN @ + 1 ELSE @]

Connect(s) ==
    /\ Free /\ s \notin sessions
    /\ AddSession(s)
    /\ UNCHANGED <<properties, subs, thread, monitors, locks, wipeAfter, open, sorts,
                   nextSort, sortIds, iterators, history>>

\* Mutant of SortsLeft: the row sets of a session that ends stay.
SortsLeft_Forgotten(s) == sorts

\* The row sets that stay when the session ends all the ids it remembers.
SortsLeft(s) == {r \in sorts : sortIds[s][r.id] = 0}

\* Mutant of Disconnect: an observer is taken out twice, without looking for it.
Disconnect_Twice(s) ==
    /\ Free /\ s \in sessions
    /\ sessions' = sessions \ {s}
    /\ told' = [told EXCEPT ![s] = "nothing"]
    /\ observing' = [observing EXCEPT ![s] = IF open THEN @ - 2 ELSE @]
    /\ sorts' = SortsLeft(s)
    /\ sortIds' = [sortIds EXCEPT ![s] = NoIds]
    /\ iterators' = [iterators EXCEPT ![s] = NoIds]
    /\ UNCHANGED <<properties, subs, thread, monitors, locks, wipeAfter, open, nextSort,
                   history>>

\* The destructor of the session: every call asks for the store anew, and ids of an
\* earlier store are looked up in the present one.
Disconnect(s) ==
    /\ Free /\ s \in sessions
    /\ sessions' = sessions \ {s}
    /\ told' = [told EXCEPT ![s] = "nothing"]
    /\ observing' = [observing EXCEPT ![s] = IF open /\ @ > 0 THEN @ - 1 ELSE @]
    /\ sorts' = SortsLeft(s)
    /\ sortIds' = [sortIds EXCEPT ![s] = NoIds]
    /\ iterators' = [iterators EXCEPT ![s] = NoIds]
    /\ UNCHANGED <<properties, subs, thread, monitors, locks, wipeAfter, open, nextSort,
                   history>>

\* DoStartSortingL: the id is remembered by the session and by the client's iterator.
StartSorting(s) ==
    /\ Free /\ s \in sessions
    /\ open
    /\ nextSort \in SortIds
    /\ iterators[s][nextSort] < MaxSorts
    /\ sorts' = sorts \cup {[id |-> nextSort, owner |-> s]}
    /\ nextSort' = nextSort + 1
    /\ sortIds' = [sortIds EXCEPT ![s][nextSort] = @ + 1]
    /\ iterators' = [iterators EXCEPT ![s][nextSort] = @ + 1]
    /\ UNCHANGED <<properties, subs, thread, monitors, locks, wipeAfter, open, observing,
                   sessions, told, history>>

\* The client deletes an iterator (errors are ignored): DoEndSortingL finds the row
\* set by its id alone, and only then forgets the id.
EndSorting(s, id) ==
    /\ Free /\ s \in sessions
    /\ iterators[s][id] > 0
    /\ iterators' = [iterators EXCEPT ![s][id] = @ - 1]
    /\ sorts' = {r \in sorts : r.id # id}
    /\ sortIds' = IF sorts' # sorts /\ sortIds[s][id] > 0
                  THEN [sortIds EXCEPT ![s][id] = @ - 1]
                  ELSE sortIds
    /\ UNCHANGED <<properties, subs, thread, monitors, locks, wipeAfter, open,
                   observing, nextSort, sessions, told, history>>

\* Any request that stores something; MessageStoreL leaves with KErrInUse if there
\* is no store.
StoreContent(s) ==
    /\ Free /\ s \in sessions
    /\ open
    /\ content' = TRUE
    /\ UNCHANGED <<properties, subs, thread, monitors, locks, wipeAfter, store, clients,
                   announced, crashes, failures>>

\* Mutant of WipeEverything: the sessions do not observe the new store.
WipeEverything_Unobserved(s) ==
    /\ Free /\ s \in sessions
    /\ announced < MaxWipes
    /\ IF open THEN /\ observing' = [x \in Sessions |-> 0]
                    /\ sorts' = {} /\ nextSort' = 0
                    /\ Wiped
                    /\ UNCHANGED <<open, wipeAfter>>
       ELSE wipeAfter' = TRUE /\ UNCHANGED <<store, content, announced, failures>>
    /\ UNCHANGED <<properties, subs, thread, monitors, locks, clients, crashes>>

\* WipeEverythingL: without a store the wipe is put off until there is one.
WipeEverything(s) ==
    /\ Free /\ s \in sessions
    /\ announced < MaxWipes
    /\ IF open
       THEN NewStore /\ Wiped /\ UNCHANGED wipeAfter
       ELSE wipeAfter' = TRUE /\ UNCHANGED <<store, content, announced, failures>>
    /\ UNCHANGED <<properties, subs, thread, monitors, locks, clients, crashes>>

\* The store cannot be created again, after the database was deleted or not.
WipeEverythingFails(s) ==
    /\ Free /\ s \in sessions
    /\ announced < MaxWipes
    /\ open
    /\ announced' = announced + 1
    /\ content' \in {content, FALSE}
    /\ CreationFails
    /\ UNCHANGED <<properties, crashes>>

Crash ==
    /\ thread # "down"
    /\ crashes < MaxCrashes
    /\ crashes' = crashes + 1
    /\ ProcessEnds
    /\ UNCHANGED <<properties, content, announced, failures>>

-----------------------------------------------------------------------------
Next ==
    \/ \E status \in PointSecStates : SetPointSec(status)
    \/ \E b \in BOOLEAN : SetBackup(b)
    \/ Boot \/ BootSubscribes \/ BootFails
    \/ PointSecRunL \/ PointSecRunLFails \/ PointSecSubscribes
    \/ BackupSubscribes \/ ProcessEvent \/ ProcessEventFails
    \/ \E s \in Sessions : \/ Connect(s)
                           \/ Disconnect(s)
                           \/ StartSorting(s)
                           \/ \E id \in SortIds : EndSorting(s, id)
                           \/ StoreContent(s)
                           \/ WipeEverything(s)
                           \/ WipeEverythingFails(s)
    \/ Crash

Spec == Init /\ [][Next]_vars

\* The thread goes on with what it is in the middle of, and an active object that
\* was signalled is run.  Nothing is assumed of properties, clients and failures.
Fairness == /\ WF_vars(BootSubscribes \/ PointSecSubscribes \/ ProcessEvent)
            /\ WF_vars(PointSecRunL)
            /\ WF_vars(BackupSubscribes)

FairSpec == Spec /\ Fairness

-----------------------------------------------------------------------------
(* Properties.                                                              *)

Running == thread \notin {"down", "booting"}

\* Every variable keeps its type.
TypeOK ==
    /\ pointsec \in PointSecStates /\ backup \in BOOLEAN
    /\ pointsecSub \in {"none", "pending", "completed"}
    /\ backupSub \in {"none", "pending", "completed"}
    /\ thread \in {"down", "booting", "idle", "pointsec", "backup"}
    /\ serviceAllowed \in BOOLEAN /\ inProgress \in BOOLEAN
    /\ lockedByPointSec \in BOOLEAN /\ lockedByBackup \in BOOLEAN
    /\ wipeAfter \in BOOLEAN
    /\ open \in BOOLEAN
    /\ observing \in [Sessions -> Nat]
    /\ sorts \subseteq [id : SortIds, owner : Sessions] /\ nextSort \in Nat
    /\ sessions \subseteq Sessions
    /\ told \in [Sessions -> {"nothing", "Available", "Unavailable"}]
    /\ sortIds \in [Sessions -> [SortIds -> Nat]]
    /\ iterators \in [Sessions -> [SortIds -> Nat]]
    /\ content \in BOOLEAN
    /\ changes \in Nat /\ announced \in Nat /\ crashes \in Nat /\ failures \in Nat

\* Once the server runs, its container store is open exactly when neither PointSec
\* nor a backup holds a lock, in whatever order the two begin and end, and also
\* after a wipe.
StoreOpenIffUnlocked == Running => (open <=> ~Locked)

\* Each connected session was last told what is the case, whenever it connected.
AvailabilityTold ==
    \A s \in sessions : told[s] = IF open THEN "Available" ELSE "Unavailable"

\* A store that is open has every connected session among its observers, once: none
\* misses modifications after a lock or a wipe, none is told twice, and no observer
\* is a session that ended.
ObservedOnce ==
    open => \A s \in Sessions : observing[s] = IF s \in sessions THEN 1 ELSE 0

\* No row set is left in the store without a session that will end it.
SortsOwned ==
    \A r \in sorts : r.owner \in sessions /\ sortIds[r.owner][r.id] > 0

\* A backup or restore that stays in progress finds a running server locked, one
\* that stays completed finds it unlocked: no change of the property is missed,
\* whenever it comes, and over restarts and failures.
LockFollowsBackup ==
    \A b \in BOOLEAN : <>[](backup = b) => <>[](Running => lockedByBackup = b)

\* A wipe put off because of a lock is done once no lock is left, however the locks
\* came and went meanwhile, unless the server goes down before that.
WipeNotLost ==
    \A k \in 0..MaxCrashes, n \in 0..MaxFailures :
        []<>(Running /\ ~Locked) =>
            ((wipeAfter /\ content /\ crashes = k /\ failures = n)
                 ~> (~content \/ crashes > k \/ failures > n))

-----------------------------------------------------------------------------
(* What the server promises about its availability.                         *)

Availability == INSTANCE StoreAvailability WITH
    Reasons <- {"pointsec", "backup"},
    serving <- Running,
    held <- (IF lockedByPointSec THEN {"pointsec"} ELSE {}) \cup
            (IF lockedByBackup THEN {"backup"} ELSE {}),
    available <- open,
    told <- told

\* The server implements the abstract specification of availability.
ImplementsAvailability == Availability!Spec
=============================================================================
