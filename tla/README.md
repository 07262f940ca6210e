# A verification of the commonemail message store

TLA+ models of the message store of the commonemail package
(`src/emailservices/emailstore/message_store`) and of the always-online logic of
its IMAP and POP mailboxes (`src/ipsservices/ipssosaoplugin`), the TLC
configurations that check them on small instances, and proofs, checked by TLAPS,
of theorems that hold for every instance. `PROJECT.json` lists the components,
the runs, the source lines each definition translates, the hazards and the
theorems.

Paths below are relative to `src/emailservices/emailstore/message_store` unless
they begin with `src/`.

## The system

Mail protocols (IMAP, POP, ActiveSync) are plug-ins of an email framework. All
of them keep mailboxes, folders, messages and attachments in one **message
store server**, a process with a single thread. It serves client requests one
at a time (`CMessageStoreSession::ServiceL`) and between two requests runs
active objects of lower priority. The store is a relational database plus one
content file per message or part. The clients link a library that turns calls
into requests and delivers events to observers in the client's own thread.

| Component | State it keeps | Operations | Interacts with |
|---|---|---|---|
| **Container store** (`ContainerStore.cpp`, `ContainerStoreContainersTable.cpp`, `...AccountTable.cpp`, `...GeneralTable.cpp`) | rows with a parent column, counts of children, account totals, id counter | create, commit, abandon, delete, move, copy, update, fetch, list | called by sessions; calls sorting table, content manager, delete handler; notifies sessions |
| **Delete handler** (`ContainerStoreDeleteHandler.cpp`) | state and stack of bookmarks | erases one row at a time | active object over the same tables |
| **Sorting table** (`ContainerStoreSortingTable.cpp`, `MsgStore*SortRowSet.cpp`) | one row per message, marked containers, row sets by sort id | add, move, delete, mark, sort | called by the container store in its transactions |
| **Buffered message creator** (`bufferedmessagecreator.cpp`) | a message and parts under creation, their content files | create, store, flush, reset | one per session, shares a directory |
| **Content manager** (`ContainerStoreContentManager.cpp`) | one file per container with content | append, replace, copy, transfer, delete | called by the container store and the creator |
| **Search** (`ContainerStoreSearchHandler.cpp`, `client/src/MsgStoreSearchHandler.cpp`) | a handler per session, matches not sent yet, one table of results for all sessions | search, cancel, repeat, clear | low-priority active object; GetMatches of the client, whose callbacks search again |
| **Encryption** (`ContainerStoreEncryption.cpp`, `ContainerStoreEncryptHandler.cpp`) | flag and state in the general table, a flag in memory, a bookmark | switch on and off, authenticate, convert a row | low-priority active object over all tables; leaves end the server |
| **Compaction**, **MRU addresses** | suspend count and timer; a bounded list | suspend, resume, compact; add | helpers of the store |
| **Server** (`MessageStoreServer.cpp`) | the open store, two locks, the deferred wipe, sessions | lock, unlock, wipe, end | told by both monitors; opens and closes the store |
| **Monitors** (`PointSecMonitor/Src/ImsPointsecMonitor.cpp`, `BackupRestoreObserver.cpp`) | a subscription, the last status | react to a property | properties other processes set |
| **Session** (`MessageStoreSession.cpp`) | event queue, outstanding messages, sort ids, a list being streamed | every request | observer of the store; one per client connection |
| **Observer handler** (`client/src/MsgStoreObserverHandler.cpp`) | two lists of observers, event buffer | add, remove, RunL | asynchronous GetEvents; calls the client's observers |
| **Always-online logic** (`IpsSosAOMboxLogic.cpp`, `IpsSosAOImapAgent.cpp`, `IpsSosAOPopAgent.cpp`) | state, timer and error counter of a mailbox; state and operation of its agent | start, stop, suspend, continue, synchronise, cancel | timer and operations of the message server; commands of the always-online server |
| **Plug-ins, framework, agents, user interfaces** | objects over the store | delayed operations, views | clients of the store |

What is hard in it:

* **Interleaving.** Every request is atomic, but erasing a container, searching
  and converting the encryption are not: they go one row at a time between
  requests that may change the rows. The two locks, wipes, connecting sessions
  and property changes come in any order. Events, matches, answers and the
  client's requests for them cross. Commands of the always-online server land
  between any two operations of an agent.
* **Stale state.** Clients name parents, folders and sort ids they remember; a
  message is created for a folder that may be gone when it is committed; a
  search is repeated with results found before.
* **Partial failure.** Some requests run two database transactions, and the
  second may fail alone; content files are moved after the transaction that
  stores their rows, or replaced while it is open; the delete handler may meet an
  unexpected error; an operation of the message server fails.
* **Crash and restart.** Uncommitted rows, marks, rows to be erased, the state of
  a conversion and uncommitted files survive; stacks, buffers, locks and a
  deferred wipe do not.
* **Counters by delta.** Counts of children and totals of accounts are never
  recomputed.
* **Sharing.** All sessions share the directory of uncommitted files and the
  table of search results.
* **Re-entrancy.** Observers and search clients call back into the handler that
  is notifying them.

Correct means: the tree has no orphans, nothing deleted comes back, everything
deleted is erased in the end, counts, totals and sorting table agree with the
rows; a message comes into the store whole, with its contents and ids nobody
else has; what a row says of its encryption is true, and a conversion reaches
every row; the store is open exactly when nobody locks it and every session
knows; each session observes the open store once; sort row sets live as long as
their iterators; observers get every event in order, or are told of the gap; a
search gives all matches once and ends; a synchronisation ends, and a logic that
waits has a timer.

## Modules

| Module | What it is |
|---|---|
| `ContainerStore` | the rows, counts, totals, sorting rows and the delete handler |
| `MessageCreator` | the buffered creator of each session, its content files and the commit |
| `StoreEncryption` | switching the encryption of the store, and the background conversion |
| `MessageSearch` | the search handler of each session and of its client |
| `MessageStoreServer` | the server, its monitors, the availability of the store, observation and sort ids of sessions |
| `StoreAvailability` | what the server promises about availability: the abstract specification `MessageStoreServer` implements |
| `SessionEvents` | the event queue of a session and the observer handler of its client, two processes |
| `AlwaysOnline` | the always-online logic of a mailbox, its timer and its agent |
| `MC...` | small instances for TLC (`AlwaysOnline` needs none) |
| `..._proofs` | theorems and proofs about the module they are named after |
| `LeastNumbers` | the least element of a set of numbers, cited by proofs about the CHOOSE of a next row |

### ContainerStore

`parent` is the parent column, `None` where there is no row. The special
parents `KUncommittedContainers`, `KToBeDeletedContainers` and
`KToRetryDeleteContainers` are constants of their own, as in the code. `Live(c)`
says that `HierarchyL` succeeds for c; most requests begin with it. `MoveL` is
the move of a row with the counts of both parents, which looks for the row only.
`draft` holds messages under creation in the buffer when encryption is off
(they have no row until `CommitBufferedMessage` writes message and parts in one
transaction); with `Encrypted` they are rows below `Uncommitted` and
`CommitMessage` moves them. Requests that run two transactions have a second
action, `CreateAndCommitFails` and `CopyMessageFails`, in which only the first
took place. `Restart` is `ConstructL` after a stop or crash: uncommitted rows
move to `ToBeDeleted` and the delete handler starts.

The delete handler is `handler` (its state) and `stack`, with one action per
`RunL`: erase one row (`DeleteIndividualContainer`, which looks for a leaf below
the container on the stack, or puts the leaf aside when a client holds its file
open), or go to the next state; `DeleteFails` is the unexpected error.
`DeleteFromSortingTable` empties the sorting table of the folders and mailboxes
in `marked`, a row at a time.

Ids are never reused by the code, so each id is handed out at most once
(`used`). The `Owner` of a folder or message is the mailbox whose object the
client calls.

### MessageCreator

`creator[s]` is `iBufferedMessageCreator` of a session: is a message or a batch
in progress, the buffered containers in order, the ids left of its block.
`files` is the "uncommitted" directory, one for all sessions; `content` are the
content files in their places; a content is the sequence of the pieces clients
wrote. A commit is `Commit` (the transaction of `CommitMessagesImplL`, which may
fail and drops the buffer then), `MoveFile` for each `TransferContentFileL` and
`CommitEnds` with its `ResetL`; only `ServerEnds` comes in between, since the
server has one thread. `AbandonMessage`, `BeginBatchInsert` and `ContentFails`
drop the buffer and empty the whole directory, also of other sessions' files;
`SessionEnds` leaves its files. `DeleteFolder` and `Wipe` are what other requests
do meanwhile. `written`, `swept`, `lost` and `reused` are history: what a client
wrote, whose file another session deleted, whose was not moved, and whether a
wipe started the ids anew under a session that holds some. ContainerStore has the
effect of the same commit on counts, totals and sorting rows.

### StoreEncryption

`rows` are the rows of the four tables in the order of conversion, each with its
flag and the number of times its strings were encrypted; `files` the same number
of each content file. `flag` and `state` are in the general table, `mode` is the
flag in memory that decides how new rows are written: `Toggle` sets it before the
handler is asked, which may refuse. The handler is `handler`; each `RunL` is
`FindFirst` (begin a table, or find the row gone and begin again) or
`ConvertNext` (a row and its content, then look for the next, or the next table)
or `RunLLeaves`, which ends the server, as `RunL` has no `RunError` and the
scheduler is a plain one. `Create`, `ReplaceContent`, `Copy`, `Rename` and
`Delete` are the requests that land in between.

### MessageSearch

`handler[s]` is `iSearchHandler` of a session: criteria, whether its results have
to be found or taken from the table, whether it is active, the messages left of
the folder that was sorted last, the folders left. `matches` are what it found
and the client was not given. `request` and `reply` are the client's GetMatches:
posted, held by the session, completed. `searching`, `told`, `giving` and
`ending` are the client's handler under its mailbox: prepared or running,
whether it still has its client, which matches it hands out in this `RunL`,
whether it is in `SearchCompleted`; the client calls `Search`, `CancelSearch` and
`ClearSearchResultCache` also in these callbacks. `results` is the one table of
results. Each `RunL` of the server looks at one message (`SearchL`,
`DoNextSearch`); `StoreUnavailable` is a lock.

### MessageStoreServer and StoreAvailability

The thread is `thread`: down, booting, idle or in the middle of one of the two
monitors. `ImsPointsecMonitor` reads its property and then subscribes
(`PointSecRunL`, `PointSecSubscribes`); `BackupRestoreObserver` subscribes and
then reads (`BackupSubscribes`, `ProcessEvent`). Other processes set the
properties at any time, in between as well; everything else in the server's
thread is one action. `NewStore`, `LockSystem` and `UnlockSystem` are what opens
and closes the store; failing to create it ends the process
(`CShutdownServer::ShutDownNow`). `observing` counts how often a session is
among the observers of the store, `told` is the last availability event it was
sent, `sortIds` are the ids in `iSortSessionIds`, `sorts` the row sets in the
store. `Availability` is the instance of `StoreAvailability` whose reasons to
lock are PointSec and backup.

### SessionEvents

One session and one client. `queue` is `iEventQueue`; `request` says where the
client's GetEvents message is: posted, held by the server in `iObserverMessage`,
or completed. `buffer` and `length` are the client's descriptor, which the
server writes. `event` and `next` are where RunL is: the event it hands out and
the place in the list it goes to next. The client calls `AddObserver`,
`RemoveObserver` and `CloseStore` between two runs of its scheduler, or in a
notification (`ClientCalls`), in which the lists change under RunL's loop.
`last` is the number of the last event handed out and lets properties speak of
gaps. Closing the store in a notification makes RunL read a deleted object: it
ends as intended, or anything happens (`"undefined"`).

### AlwaysOnline

One thread, so an action is one `RunL`, one timer or one command. `logic` is the
state, timer and error counter of `CIpsSosAOMBoxLogic`, `agent` the active object
of its protocol: its state, whether it is active and signalled, its operation and
how that ended. The operators over an agent (`CancelAllAndDisconnect`,
`StartSync`, `PopulateAll`, `RunError`...) are the agent's functions; `RunL` runs
one of its states. What needs memory, settings or an entry may leave (`Leave`):
`RunL` before it is done, which `RunError` takes up (`RunLeft`); the disconnection
outside of its TRAPD, with the agent cancelled and completed (`Leaves`), and so
also in `RunError`, where that is ignored; `OperationCompletedL`, where it is
ignored, too; and the commands. `left` says that a function left which nobody took
up, and that the agent was not set active since; the code has no such variable.
`OperationEnds` is the message server that completes or fails
an operation, `TimerFired` the logic's timer, `Command` the events the plug-in
passes on, `ConnectionChanges` and `SettingsChange` what others do. Notified mail
(EMN) is a stub in the code, whose state is always off, and IMAP folders are not
supported: what only those reach is left out. A second `SetActive` or signal of
an active object is a panic, after which nothing happens (`panicked`).

## Runs

Each passing run has for each property a deliberate mistake in a modelled
definition (a definition with the suffix of the mistake, marked *Mutant of*)
under which TLC finds the property violated. All bounds are constants in the
guards.

| Run | Configuration | Question |
|---|---|---|
| `store` | `MCContainerStore` | Do the tree, counts, totals, folder listing and sorting rows agree over all requests, with folders moved below each other and back and one restart? |
| `store_delete` | `MCContainerStoreDelete` | With encryption on (messages are rows before they are committed), an open file, one unexpected error and one restart: is everything deleted erased, is the stack sound, are there no orphans? |
| `creator` | `MCMessageCreator` | Two sessions, batches, abandoned messages, deleted folders, a wipe and the end of the process in a commit: are ids unique and do messages come into the store whole? |
| `encryption` | `MCStoreEncryption` | Rows change under the conversion, steps fail, the server ends and starts: can all rows be read, are all converted, does a conversion end? |
| `search` | `MCMessageSearch` | Searches, cancelled, repeated and started in callbacks, while messages change and the store is locked: are all matches given once, is nobody kept waiting, does a search end? |
| `server` | `MCMessageStoreServer` | Is the store open exactly when unlocked, do sessions know, observe it once and own their sorts, does the server implement `StoreAvailability`, does the lock come to follow the backup property, and is a deferred wipe done? |
| `session_events` | `MCSessionEvents` | Are observers never deaf, is no event stuck, lost silently, doubled or late for ever? |
| `always_online` | `MCAlwaysOnline` | Commands, failures and roaming between any two steps of the agent: does a synchronisation end, is a stopped logic quiet, has a waiting one a timer, whatever leaves? |
| `session_panic`, `search_shared_table`, `encryption_copy`, `always_online_suspended` | one each | the disagreements listed below; each violates one property |

Why the bounds are enough:

* The store runs have one mailbox (requests on two mailboxes touch disjoint
  rows but for the shared tables, which have no counters across mailboxes), two
  folders (the system folder and one that is created, moved and deleted, so
  that folders are nested), and two messages (one moves or dies while the other
  stays) in `store`; one message with one part whose file can be open in
  `store_delete`. The deepest tree is mailbox, folder, folder, message or mailbox,
  folder, message, part: three levels for the handler's stack. One restart and
  one failure may come at any place; ids make every behaviour finite, since each
  is used once. What one mailbox and two folders may hide, the theorems cover.
* `creator` has two sessions (one that sweeps the files of the other), blocks of
  two ids and four in all (two messages, or one with more parts than its block,
  or a batch of two), two writes (one file after another, or twice to one) and
  two faults (a wipe or a deleted folder, and the end of the process). Sessions
  are symmetric, and the run has no liveness.
* `encryption` has two containers, an account and a row to sort, so that tables
  are left, empty or skipped, two toggles (on and off again, in the middle) and
  one fault.
* `search` has two folders with a message each, so that a folder is finished and
  the next sorted; two criteria (a search is repeated or a new one); a buffer of
  two; four events (search, cancel, search again, and a lock or a change). Another
  session matters by the shared table only, which is a run of its own with two.
* `server` has two sessions (one connected over an event, one that connects
  after it), all four statuses of PointSec, three changes of the properties
  (begin, end and begin again, or both overlapping), one crash, one failure, one
  announced wipe and one sort.
* `session_events` has a queue of `QueueDepth + 1 = 2` and a buffer of two, so
  that four events overflow the queue, fill the buffer exactly and leave a rest
  behind; two observers in two lists, at most two registrations.
  `session_panic` needs one observer and two events.
* `always_online` has two retries (the code has three; one error that is tried
  again, and one that is the last), three events (a start, a suspension within its
  synchronisation, and a stop) and two functions that leave (`RunL`, and the
  disconnection in `RunError`); operations fail any number of times.
  `always_online_suspended` needs two events, and no function that leaves.

Liveness and symmetry are never used together. `CHECK_DEADLOCK FALSE` is set in
the runs of the store, creator, search, session and always-online logic: there,
once every id or event is used up, nothing is left to do; a client that closed
its store or panicked, or a logic that was stopped, takes no more steps. The
server's and the encryption's runs check for deadlock: sessions can always
connect and clients authenticate, and a server that is down can be started.

### Fairness

* `ContainerStore`: weak fairness of the delete handler, an active object the
  scheduler runs when no request waits, and of closing each content file.
* `StoreEncryption`: weak fairness of the handler's `RunL`, for the same reason.
  `ConversionEnds` assumes of the environment that in the end the server runs and
  somebody is authenticated.
* `MessageSearch`: weak fairness of the handler's `RunL`, of the server taking the
  GetMatches that is posted, and of the client's handler, whose callbacks return.
* `MessageStoreServer`: weak fairness of what the thread is in the middle of,
  and of both signalled active objects. Nothing is assumed of properties,
  clients, crashes or failures.
* `SessionEvents`: weak fairness of the server serving the GetEvents that is
  posted, and of the client's scheduler running the handler and its observers
  returning.
* `AlwaysOnline`: weak fairness of the agent's `RunL`, of the timer and of the end
  of an operation, which the message server completes or fails. Timers are of
  seconds at least, so that what is ready in the thread runs before one fires.
* `MessageCreator` has no liveness property: every step of it is a request.

## Where code and documentation disagree

With a run that shows it:

* `session_panic`: the last observer is removed in a notification, where
  `Cancel` does nothing because the handler is not active; RunL goes on asking
  for events, and the next observer that is added activates an active object.
* `search_shared_table`: rows of the table of results do not say what was
  searched for, and all sessions share it: a repeated search is answered with
  what another session found out about other strings.
* `encryption_copy`: a container that waits for its conversion is copied; the
  content file is copied as it is, while the new row says it is encrypted.
* `always_online_suspended`: a synchronisation becomes due while the logic is
  suspended: its timer was stopped, the event is ignored in that state, and the
  suspension never ends.

Seen while modelling, without a run. Of the store:

* `MoveContainerL` only asks whether the destination exists, so a folder can be
  moved below its own descendant; both vanish from `FoldersL`, and `HierarchyL`
  never ends for them. The runs' `FolderMoves` make no cycle.
* With encryption on, a message committed into a folder that was just deleted is
  counted in the account totals for ever (`TotalsExact` is checked and proved with
  it off).
* `DeleteFolderL` deletes predefined folders although `MsgStoreMailBox.h:154`
  says it leaves (`ContainerStore.cpp:1049`).
* The delete handler goes on after an unexpected error, against the comment in
  `ContainerStoreDeleteHandler.cpp:183`, see lines 200-217.
* `DeleteContainerL` marks only the deleted folder in the sorting table, which
  deletes the rows whose folder column is the mark
  (`ContainerStoreSortingTable.cpp:1282`): rows of messages in folders within it
  stay for ever. `SortingRowsAccounted` leaves those messages out.
* Compaction (not modelled): a transaction that cannot begin after `Suspend`, or a
  `Recover` that fails in a rollback, leaves the suspend count raised, and the
  store is never compacted again (`ContainerStoreUtils.cpp:38-110`).

Of the buffered creator:

* All sessions share the "uncommitted" directory: the `ResetL` of one deletes the
  files of the others (`bufferedmessagecreator.cpp:343`; `swept` in the model).
* The buffered create looks at no folder (`MsgStoreMailBox.h:231`,
  `bufferedmessagecreator.cpp:46`).
* Observers are told of each message of a batch before the batch is committed.
* A wipe keeps the buffers and ids of sessions and the uncommitted files while ids
  begin anew: ids are given twice. `IdsUnique` and `ContentKept` say `~reused`.

Of encryption and search:

* `DisableEncryptionL` that is refused with KErrInUse leaves the flag in memory
  changed (`ContainerStore.cpp:710`; `slipped`), so that what is created next is
  plain in an encrypted store.
* A `RunL` of the conversion that leaves ends the server; started again without a
  client that authenticates it leaves again.
* An account renamed before its turn, and a container whose content was converted
  when the process ended before its row was, are converted once too often or not
  at all (`spoilt`).
* A match that does not fit the client's buffer at all ends the answer with an
  error and stays (`MessageStoreSession.cpp:1162`): the client puts its handler
  aside while the server still searches, and the next search sets an active
  handler active. `ServerRuns` is checked and proved with `Large = {}`.
* A lock deletes the search handler and forgets the GetMatches the session holds
  (`MessageStoreSession.cpp:456`; `Forgotten`).
* A search that the client starts in `SearchCompleted` loses its client when that
  returns (`MsgStoreMailBox.cpp:658`), and is called by a NULL pointer (`crashed`).

Of server and sessions:

* PointSec locks between the read of its property and the subscription
  (`ImsPointsecMonitor.cpp:147`; the backup monitor subscribes first,
  `BackupRestoreObserver.cpp:109`), and the store stays open.
* The result of `WipeEverything` is overwritten (`MessageStoreServer.cpp:855`), so
  everyone is told of a wipe that failed.
* A wipe deferred by a lock is lost in a crash though the client was told it
  was done (`MsgStore.h:252`, `MessageStoreServer.cpp:837`).
* A new store counts sort ids from zero; a session that kept an id of the old one
  ends a row set of another session (`MessageStoreSession.cpp:158`).
* An overflow is announced to the observers of the store only, since observers
  of a mailbox have no such callback, and it drops queued events of
  availability too.

Of the always-online logic (in `src/ipsservices/ipssosaoplugin/src`):

* A start that leaves after the timer was stopped (no settings, agent busy) leaves
  the logic waiting without one, and `Start` is ignored in that state
  (`IpsSosAOMboxLogic.cpp:337`). `WakesUp` excepts it.
* After an operation failed the agent's `RunL` deletes the disconnect operation it
  just started (`IpsSosAOImapAgent.cpp:149`): the mailbox stays connected and every
  later synchronisation is refused as done by others, which even resets the error
  counter; the agent stays active for a round, in which a synchronisation sets it
  active twice.
* `CancelAllAndDisconnect` in the error state sets the timer again, though
  `IpsSosAOMboxLogic.h:125` says that only start is taken there; the end of roaming
  and a new mailbox start the logic though network operations are not allowed.
* `CancelAllAndDisconnectL` may leave with the agent cancelled already
  (`IpsSosAOImapAgent.cpp:376`), also when the logic is stopped
  (`IpsSosAOMboxLogic.cpp:425`), cancelled (line 144) or done with its retries (530),
  and in `RunError`, which ignores it (`IpsSosAOImapAgent.cpp:223`): the agent is not
  active, and the logic not told of the end, against `IpsSosAOBaseAgent.h:150`; and
  the leave of a completion is ignored (`IpsSosAOImapAgent.cpp:201`). The logic
  then stays in `EStateSyncOngoing` and only a command gets it out of there:
  `OngoingIsServed` and `SyncEnds` except it (`left`), and show that there is no
  other way. `MarkIsTakenBack` excepts the mark that stays when both `RunL` and
  `RunError`'s disconnection leave.
* POP's `ClearDoNotDisconnect` also forgets that the start of a synchronisation was
  told (`IpsSosAOPopAgent.cpp:373`; `IpsSosAOBaseAgent.h:182` says that it clears a
  flag), so that its end is not told when it is cancelled or fails.
* A suspension in other states of the agent drops its operation, and a stale error
  of the agent is reported for the next synchronisation.

## What is proved

TLAPS proves these for every value of the constants that the named assumptions
allow (distinct kinds of ids, finitely many of them, natural bounds):

| Theorem | Says | Also checked by |
|---|---|---|
| `ContainerStore_proofs!TypeCorrect` | `Spec => []TypeOK` | `store` |
| `NoOrphans` | `Spec => []ParentsExist` | `store_delete` |
| `DeletedStaysDeleted` | `Spec => NoResurrection` | `store` |
| `StackIsDead` | `Spec => []StackDead` | `store_delete` |
| `CountsAreExact` | `Spec => []FolderCountsExact` | `store` |
| `RowsAreAccounted` | `Spec => SortingRowsAccounted` | `store` |
| `SortingIsExact`, `FoldersAreListed` | `Spec /\ []NoCycle => []SortingExact`, `[]FoldersListed` | `store` |
| `TotalsAreExact` | `~Encrypted` gives `Spec /\ []NoCycle => []TotalsExact` | `store` |
| `MessageCreator_proofs!TypeCorrect` | `Spec => []TypeOK` | `creator` |
| `IdsAreUnique`, `ContentsComeWhole` | `[]IdsUnique`, `[]ContentKept` | `creator` |
| `MessagesComeWhole` | `Spec => []MessagesWhole` | `creator` |
| `StoreEncryption_proofs!TypeCorrect` | `Spec => []TypeOK` | |
| `RowsReadable`, `EveryRowConverted` | `[]Readable`, `[]AllConverted` | `encryption` |
| `MessageSearch_proofs!TypeCorrect` | `Spec => []TypeOK` | `search` |
| `NothingIsHeldBack` | `Spec => []NothingHeldBack` | `search` |
| `ServerKeepsRunning` | `Large = {} => (Spec => []ServerRuns)` | `search` |
| `GivesEachMatch` | if no list of `FolderLists` names a folder twice, `Spec => []GivesMatches` | `search` |
| `MessageStoreServer_proofs!TypeCorrect` | `Spec => []TypeOK` | `server` |
| `OpenIffUnlocked`, `SessionsKnow`, `SessionsObserve` | `[]StoreOpenIffUnlocked`, `[]AvailabilityTold`, `[]ObservedOnce` | `server` |
| `Implementation` | `Spec => ImplementsAvailability` | `server` |
| `RowSetsOwned` | `Spec => []SortsOwned` | `server` |
| `SessionEvents_proofs!TypeCorrect` | `Spec => []TypeOK` | `session_events` |
| `ObserversAreHeard`, `NothingIsStuck` | `[]ObserversHeard`, `[]NothingStuck` | `session_events` |
| `LossIsTold` | `Spec => NoSilentLoss` | `session_events` |
| `AlwaysOnline_proofs!TypeCorrect` | `Spec => []TypeOK` | |
| `StoppedLogicIsQuiet`, `MarksTakenBack`, `OngoingServed` | `[]StoppedIsQuiet`, `[]MarkIsTakenBack`, `[]OngoingIsServed` | `always_online` |
| `LogicWakesUp` | `Spec => WakesUp` | `always_online` |

**Container store.** The inductive invariant is `TypeOK`, `ParentsExist` and
`IdsUsed`; the last is needed because a row created for a parent that was never
handed out could be left behind. Lemma `StepKinds` reduces every action to one
of four kinds (a row moves, a row is erased, rows are added, uncommitted rows
are marked), and each property is then argued once per kind. `Live` is a least
fixed point, written as a union of closed sets, so that no recursion is needed:
`DeletedStaysDeleted` shows that a closed set after the step was one before it.
`StackIsDead` adds that what the handler looks at is a candidate, that a
candidate is dead with its ancestors, and that rows of dead containers only go
by the handler's own step. `CountsAreExact` is about live containers only, and
the handler, which updates no count, is why: the row it erases is dead, so its
parent is (`CandidateDead`, `LiveChild`), and no step makes either live again.
The counts are cardinalities of the sets of children; one lemma each for a set
that stays, grows by one and shrinks by one (`SameChildren`, `OneMoreChild`,
`OneChildLess`) and one for each kind of step: `MoveCounts` for every move, of a
container to where it is, too, `NewRows` for everything that is created, with its
parts, `FlipCounts` for a flag, `EraseCounts`. `CountsInv` adds that what has no row records nothing, as a
buffered message is committed without writing its count, and `UnreadUsed` that
only ids that were handed out are unread, as a copy takes over the flag.

For the sorting table, `TreeInv` says where folders and messages may be: below a
committed folder of their mailbox, or the mailbox itself (`PlacingStep` is what a
step may do to a parent). `SortStep` reduces a step to the five things that may
happen to the table, and `SortInv` says that a live message of an account has its
row under its folder (`StoredLive`), that what is marked is deleted (`MarksGone`)
and stays so, that the rows of a deleted account are marked (`OwnerMarked`), and
that what is not committed has no row (`NotStored`). `RowsAreAccounted` follows
without any assumption. `SortingIsExact` and `FoldersAreListed` assume `NoCycle`,
that no set of folders has all its parents within itself: `MoveContainerL` does
not ask, and folders on a cycle keep their rows but are below no mailbox. The
assumption is needed to go from a folder up to its mailbox (`FolderRooted`), whose
account exists; the `FolderMoves` of the runs keep it.

The totals of an account are sums over its folders that the code never takes:
each operation adds to them or takes away. `TotalsInv` says what they are at any
time, the number of the account's live committed messages (`ShownIn`); that these are the messages below the mailbox
is lemma `VisibleIsShown`, which needs that a live folder leads up to the mailbox
of its account (`Branch`, `MailBoxesAtRoot`). Then there is one lemma per action:
most leave the branch alone (`UntouchedTotals`, `OutsideTotals`), some add one
message to it (`AddedTotals`), a move takes nothing from it (`MoveKeepsLive`), and
a flag changes the unread only. What is taken away on a deletion is a sum of
folder counts, a recursive function of the set of folders below the container.
`DeltaIsGone` shows that it counts the messages that vanish (`Gone`). As
`CountsAreExact` says what each folder counts, the sets of messages are a function
that adds up in the same way, and there is only one (`SumUnique`: of the sets of
folders on which two such functions differ, take a smallest, by `LeastNumber`).
`NoCycle` is needed since a folder below itself would be taken away twice
(`NotBelowItself`), and `~Encrypted` since the message committed into a deleted
folder, above, is counted though it is not live.

**Buffered creator.** For ids, `IdsApart`: the rows, the ids of all sessions and
the next id have nothing in common and no id twice. A step gives an id out, moves
it from a list to a container or to a row, or gives it up; lemmas `ApartShrinks`,
`ApartGrows` and `ApartMoves` say that each keeps them apart. `ContentsKept` adds
that ids that are not given out have no files (`FreshAreEmpty`), that the file of
a buffered container is what was written, or swept (`BufferedWait`), as is the
file of one that is to be moved (`MovingWait`), and that only the committer moves
(`CommitIsOne`). For `MessagesComeWhole`, `PartsTogether` says that the parent of a
buffered part is in the same buffer, so that both reach the store in one
transaction (`CommitRowsTogether`), and that nothing is stored once ids are given
twice, when a part could find its message in another session's. What goes with a
folder (`Below`) is the least set of rows that holds what is below it, an
intersection of closed sets; that what stays has its parent
(`DeleteFolderTogether`) follows from its being closed.

**Encryption.** `AllRight` is `Readable` with the shape of the tables, and
`NoStrays` says that what has no row has no content file. For `AllConverted` the
invariant `Conv` says how far the conversion is: the tables before the handler's
agree with the flag (`Passed`), in its table so do the rows before the bookmark,
and what is created agrees (`Agreed`). The next row is the lowest of those left,
which exists by `LeastNumber`.

**Search.** `Quiet` says that a session that holds a GetMatches has nothing to
send and a handler at work, or was forgotten; `Runs` that an active handler
belongs to a client that still searches, so that a new search, which the client
is refused before, never meets an active one. The second needs that no match
outgrows the buffer, hence `Large = {}`. For `GivesEachMatch`, a match is followed
through the four lists it passes on its way to the client: found by the handler,
about to be given, in the answer that is not read yet, read. `Pipe` is the four in
that order, and the steps that hand over a match or cut a batch leave it as it is
(`AnswerTakes`, `SendTakes`, `FourLists`). `Sound` says that what is in the pipe
matches, is in it once, and is not among the rows and folders that are left;
`Whole`, as long as the client searches, that what matches is in the pipe or left.
`TableFits` carries both over to a search that is repeated with the rows of an
earlier one, provided no other session shares the table (`Trusted`, see
`search_shared_table`). The assumption is what a caller has to keep: the
code takes the folders of the list as they come, and would give the messages of a
folder that is named twice once more.

**Server.** The invariant is the three agreements, with `ConnectedTold` (only
connected sessions were told anything) and `DownIsReset` (a server that is down
has forgotten everything, without which a start could find a lock or observers).
One lemma for opening, locking and ending the store each; the actions cite them.
The refinement maps the locks to `Held`, and each action to a step of
`StoreAvailability` or a stutter, given the invariant before and after.

**Session.** `HandlerShape` ties the handler's activity to its outstanding
request and its observers, and gives the first two theorems. For `LossIsTold`
the invariant is `Whole`: from the last event handed out, over the unread part
of the buffer and the queue, to the last event sent, each event follows the one
before or announces a gap. It holds as long as the handler is `Sound`, i.e. it
never lost its last observer inside RunL, after which (lemma `SoundBefore`) it
is never sound again until the client ends; and an overflow needs `Numbered`,
that nothing is numbered beyond what was sent.

**Always-online.** The operators over the agent are treated once each: what they
make of an agent that is `Good` (an operation has it active, and a mark has it
active or left alone) is `Good` again, in which states they leave it, and that an
agent that was not idle is `Working` afterwards, active or left alone. `Inv` is the
four invariants with `Good` and `Untouched`: before the first event there is neither
timer nor operation, which the logic of a stopped mailbox needs. Lemma `RunLRan`
goes through the states of RunL, `Recovered` through what follows when it leaves,
and `Told` through the ways a completion ends. `WakesUp` is proved in the same cases.

Only model-checked: liveness (`PurgedEventually`, `ConversionEnds`, `SearchEnds`,
`LockFollowsBackup`, `WipeNotLost`, `HandedOutEventually`, `SyncEnds`), since
fairness and `ENABLED` are beyond the provers. Every invariant and every action
property that a passing run checks is stated by a theorem. No module declares a
recursive operator.

## What is not modelled

* The text of properties, their serialization, file formats, ciphers and SQL
  cursors: a transaction is one step that happens or does not.
* Failures inside a transaction, which roll back: they are stuttering steps.
* Which strings match a message: an input of `MessageSearch`.
* The drive monitor, which nothing starts, and the shutdown timer, whose start
  is commented out.
* In `SessionEvents`, the end of the server under an outstanding GetEvents, and
  clients with several mailboxes.
* In `MessageCreator`, a `ResetL` that cannot read the directory at the end of a
  commit (`bufferedmessagecreator.cpp:342`), after which files of other sessions
  stay; elsewhere it does what the end of a client does (`SessionEnds`). In
  `ContainerStore`, which rows are encrypted, whose content files are not opened
  (`ContainerStoreContentManager.cpp:947`).
* In `StoreEncryption`, passwords and keys; the store without a password converts
  nothing.
* In `AlwaysOnline`, the list of mailboxes, commands that come before the message
  server is ready, and how long the timers are.
* The components `PROJECT.json` lists as not modelled, with the reason. User
  interface, serializers and wrappers, which are most of the source, are views and
  layout without a state that a model checker would say something new about.

## Plan

Done: `ContainerStore`, `MessageStoreServer` with `StoreAvailability`,
`SessionEvents`, `MessageCreator`, `MessageSearch`, `StoreEncryption` and
`AlwaysOnline`, each with proofs of its safety properties under the assumptions told
above. Left, by importance for the data a user would lose:

1. Streaming of property lists: two requests over ids a change empties; what the
   client ends with is what a single query at some point would give.
2. The compaction handler: suspend counts, its timer, steps, cancellation; an
   abstract "compacts when needed and not suspended".
3. `SessionEvents`: the server's end and reconnection; a record per observer of
   what it heard, for observers that remove themselves in the loop; an abstract
   channel (a sequence of events with announced gaps) that session and handler
   implement.
4. The encrypted append of the content manager, as a function over blocks
   against plain concatenation; 16-bit counts; the MRU table.
5. Outside of the store: delayed operations of the base plug-in, the operations
   of the IPS plug-in, the mailbox state of the nmail agent.
