--------------------------- MODULE SessionEvents ---------------------------
(***************************************************************************)
(* How a client hears of what happens in the message store: the event      *)
(* queue of its session in the server (CMessageStoreSession), and the       *)
(* active object of the client library that asks for events and hands them  *)
(* to the client's observers (CMsgStoreObserverHandler).  The two are       *)
(* processes of their own.  The client asks with an asynchronous GetEvents; *)
(* the server answers with what is queued, or keeps the message until there *)
(* is something.  The observers may add and remove observers, and close the *)
(* store, while they are being notified.                                    *)
(*                                                                          *)
(* One session of one client is modelled.  Events are numbered in the order *)
(* the server sends them to this session; of their contents only the kind   *)
(* is kept, which says whether the session has to observe to be sent it,    *)
(* and which observers are notified.  A client observes one mailbox.        *)
(***************************************************************************)
EXTENDS Integers, Sequences

CONSTANTS
    Observers,          \* objects of the client that can be registered
    QueueDepth,         \* KMsgStoreMaximumEventQueueDepth
    BufferLength,       \* KEventBufferLength
    MaxEvents,          \* bound on the events sent to the session
    MaxRegistered       \* bound on registrations at a time

ASSUME SizesType == QueueDepth \in Nat /\ BufferLength \in Nat \ {0}
ASSUME BoundsType == MaxEvents \in Nat /\ MaxRegistered \in Nat

VARIABLES
    available,          \* the container store is open
    isObserving,        \* iIsObserving of the session
    queue,              \* iEventQueue of the session
    sent,               \* number of the last event sent to the session
    request,            \* where the client's GetEvents message is
    buffer,             \* the memory of iEventBuffer
    length,             \* iEventBuffer.Length(), in events
    client,             \* the client process
    registered,         \* iObservers and iMailBoxObservers
    active,             \* iActive of the handler
    eventCount,         \* of RunL: events it hands out
    event,              \* of RunL: the event being handed out, 0 outside RunL
    next,               \* of RunL: the next observer to be notified of it
    last                \* number of the last event handed out, or dropped with
                        \* the last observer

server  == <<isObserving, queue>>
message == <<request, buffer, length>>
runL    == <<eventCount, event, next, last>>
vars    == <<available, server, sent, message, client, registered, active, runL>>

Lists == {"system", "mailbox"}

\* ContainerModified, and AccountModified or AuthenticationChanged, concern a session
\* only while it observes.  The others are sent to every session.
WhenObserving == {"modification", "account"}
Kinds == WhenObserving \cup {"available", "unavailable", "wiped", "overflow"}
Events == [n : Nat, kind : Kinds]

\* The list RunL looks at for an event.
Audience(e) == IF e.kind = "modification" THEN "mailbox" ELSE "system"

Registrations == Len(registered["system"]) + Len(registered["mailbox"])

-----------------------------------------------------------------------------
(* The session in the server.                                                 *)

\* The answer to GetEvents: the descriptor gets the length of what is written, the
\* memory beyond it stays (and matters only while RunL still reads the memory).
Answer(batch) ==
    /\ request' = "completed"
    /\ length' = Len(batch)
    /\ buffer' = IF event = 0 THEN batch
                 ELSE batch \o SubSeq(buffer, Len(batch) + 1, Len(buffer))

\* Mutant of SendEventToObserver: the depth of the queue is not looked at.
SendEventToObserver_Unbounded(kind) ==
    LET e == [n |-> sent + 1, kind |-> kind]
    IN /\ sent < MaxEvents
       /\ sent' = sent + 1
       /\ \/ request = "held" /\ Answer(<<e>>) /\ UNCHANGED queue
          \/ request # "held" /\ queue' = Append(queue, e) /\ UNCHANGED message

\* Mutant of SendEventToObserver: an overflow drops the queue and tells nobody.
SendEventToObserver_Silent(kind) ==
    LET e == [n |-> sent + 1, kind |-> kind]
    IN /\ sent < MaxEvents
       /\ sent' = sent + 1
       /\ \/ request = "held" /\ Answer(<<e>>) /\ UNCHANGED queue
          \/ /\ request # "held"
             /\ queue' = IF Len(queue) > QueueDepth THEN <<e>> ELSE Append(queue, e)
             /\ UNCHANGED message

SendEventToObserver(kind) ==
    LET e == [n |-> sent + 1, kind |-> kind]
        overflow == [n |-> sent + 1, kind |-> "overflow"]
    IN /\ sent < MaxEvents
       /\ sent' = sent + 1
       /\ \/ request = "held" /\ Answer(<<e>>) /\ UNCHANGED queue
          \/ /\ request # "held" /\ Len(queue) > QueueDepth
             /\ queue' = <<overflow>>
             /\ UNCHANGED message
          \/ /\ request # "held" /\ Len(queue) <= QueueDepth
             /\ queue' = Append(queue, e)
             /\ UNCHANGED message

\* Another session changes a container or an account of the open store.
StoreModified(kind) ==
    /\ client = "running"
    /\ available /\ isObserving
    /\ SendEventToObserver(kind)
    /\ UNCHANGED <<available, isObserving, client, registered, active, runL>>

\* The first lock closes the store, the end of the last one opens it.
AvailabilityChanges ==
    /\ client = "running"
    /\ available' = ~available
    /\ SendEventToObserver(IF available THEN "unavailable" ELSE "available")
    /\ UNCHANGED <<isObserving, client, registered, active, runL>>

StoreWiped ==
    /\ client = "running"
    /\ available
    /\ SendEventToObserver("wiped")
    /\ UNCHANGED <<available, isObserving, client, registered, active, runL>>

\* The events that fit into the client's buffer, and the others.
Batch == SubSeq(queue, 1, IF Len(queue) < BufferLength THEN Len(queue) ELSE BufferLength)
Rest  == SubSeq(queue, Len(Batch) + 1, Len(queue))

\* Mutant of DoGetEvents: the message is kept though there is an event.
DoGetEvents_Kept ==
    /\ client = "running"
    /\ request = "posted"
    /\ \/ Len(queue) <= 1 /\ request' = "held" /\ UNCHANGED <<buffer, length, queue>>
       \/ Len(queue) > 1 /\ Answer(Batch) /\ queue' = Rest
    /\ UNCHANGED <<available, isObserving, sent, client, registered, active, runL>>

\* The server gets to the client's GetEvents: queued events are written to the buffer
\* until it is full; if there are none, the message is kept.
DoGetEvents ==
    /\ client = "running"
    /\ request = "posted"
    /\ \/ queue = <<>> /\ request' = "held" /\ UNCHANGED <<buffer, length, queue>>
       \/ queue # <<>> /\ Answer(Batch) /\ queue' = Rest
    /\ UNCHANGED <<available, isObserving, sent, client, registered, active, runL>>

-----------------------------------------------------------------------------
(* The handler in the client.  Its thread adds and removes observers between two *)
(* events of its scheduler, or in a notification RunL makes.                     *)

ClientCalls == client = "running" /\ (event = 0 \/ next > 1)

\* GetEvents, which empties the buffer but leaves its memory, and SetActive: setting an
\* active object active twice is a panic.
GetEvents ==
    /\ request' = "posted" /\ length' = 0
    /\ UNCHANGED buffer
    /\ IF active THEN client' = "panicked" /\ UNCHANGED active
                 ELSE active' = TRUE /\ UNCHANGED client

\* Only the first of all observers starts to observe.
AddObserver(list, o) ==
    /\ ClientCalls
    /\ Registrations < MaxRegistered
    /\ registered' = [registered EXCEPT ![list] = Append(@, o)]
    /\ IF Registrations = 0
       THEN isObserving' = TRUE /\ GetEvents
       ELSE UNCHANGED <<isObserving, message, client, active>>
    /\ UNCHANGED <<available, queue, sent, runL>>

\* Cancel does nothing unless the handler is active.  DoCancel calls the server, which
\* serves the outstanding GetEvents before it; an answer that came is dropped.
Cancel ==
    IF active
    THEN /\ request # "posted"
         /\ isObserving' = FALSE /\ queue' = <<>>
         /\ request' = "none" /\ active' = FALSE
         /\ last' = sent
    ELSE UNCHANGED <<isObserving, queue, request, active, last>>

\* Place i is the first at which o is registered.
FirstAt(i, o, list) == /\ registered[list][i] = o
                       /\ \A j \in 1..(i - 1) : registered[list][j] # o

Without(i, s) == SubSeq(s, 1, i - 1) \o SubSeq(s, i + 1, Len(s))

\* Mutant of RemoveObserver: only the list at hand is counted.
RemoveObserver_OwnList(list, o) ==
    /\ ClientCalls
    /\ \E i \in 1..Len(registered[list]) :
          /\ FirstAt(i, o, list)
          /\ registered' = [registered EXCEPT ![list] = Without(i, @)]
    /\ IF Len(registered[list]) = 1
       THEN Cancel
       ELSE UNCHANGED <<isObserving, queue, request, active, last>>
    /\ UNCHANGED <<available, sent, buffer, length, client, eventCount, event, next>>

RemoveObserver(list, o) ==
    /\ ClientCalls
    /\ \E i \in 1..Len(registered[list]) :
          /\ FirstAt(i, o, list)
          /\ registered' = [registered EXCEPT ![list] = Without(i, @)]
    /\ IF Registrations = 1
       THEN Cancel
       ELSE UNCHANGED <<isObserving, queue, request, active, last>>
    /\ UNCHANGED <<available, sent, buffer, length, client, eventCount, event, next>>

\* The scheduler runs the handler: RunL is entered with the handler not active.
RunL ==
    /\ client = "running" /\ event = 0
    /\ active /\ request = "completed"
    /\ active' = FALSE /\ request' = "none"
    /\ eventCount' = length /\ event' = 1 /\ next' = 1
    /\ UNCHANGED <<available, server, sent, buffer, length, client, registered, last>>

\* RunL notifies one more observer of the event, by its place in the list as it is now,
\* which returns when it likes.
NotifyNext ==
    /\ client = "running" /\ event \in 1..eventCount
    /\ next <= Len(registered[Audience(buffer[event])])
    /\ next' = next + 1
    /\ UNCHANGED <<available, server, sent, message, client, registered, active,
                   eventCount, event, last>>

\* There is no observer left to be notified of the event.
EventHandedOut ==
    /\ client = "running" /\ event \in 1..eventCount
    /\ next > Len(registered[Audience(buffer[event])])
    /\ event' = event + 1 /\ next' = 1
    /\ last' = buffer[event].n
    /\ UNCHANGED <<available, server, sent, message, client, registered, active, eventCount>>

\* Mutant of RunLEnds: a full buffer is taken for an error.
RunLEnds_FullBuffer ==
    /\ client = "running" /\ event = eventCount + 1
    /\ eventCount' = 0 /\ event' = 0 /\ next' = 0
    /\ IF eventCount < BufferLength
       THEN GetEvents
       ELSE UNCHANGED <<message, client, active>>
    /\ UNCHANGED <<available, server, sent, registered, last>>

\* RunL asks for the next events, whether or not there are observers.
RunLEnds ==
    /\ client = "running" /\ event > 0 /\ event = eventCount + 1
    /\ eventCount' = 0 /\ event' = 0 /\ next' = 0
    /\ GetEvents
    /\ UNCHANGED <<available, server, sent, registered, last>>

\* The client deletes its CMsgStore: the handler is cancelled and deleted, the session
\* closed.  In a notification, RunL goes on in the deleted object: it ends, as is meant,
\* or does whatever is found there.
CloseStore ==
    /\ ClientCalls
    /\ client' \in IF event = 0 THEN {"closed"} ELSE {"closed", "undefined"}
    /\ registered' = [list \in Lists |-> <<>>]
    /\ active' = FALSE /\ isObserving' = FALSE /\ queue' = <<>>
    /\ request' = "none" /\ length' = 0 /\ buffer' = <<>>
    /\ eventCount' = 0 /\ event' = 0 /\ next' = 0
    /\ UNCHANGED <<available, sent, last>>

-----------------------------------------------------------------------------
\* A session is told on connecting whether the store is available.
Init ==
    /\ available \in BOOLEAN
    /\ isObserving = FALSE
    /\ queue = <<[n |-> 1, kind |-> IF available THEN "available" ELSE "unavailable"]>>
    /\ sent = 1
    /\ request = "none" /\ buffer = <<>> /\ length = 0
    /\ client = "running"
    /\ registered = [list \in Lists |-> <<>>]
    /\ active = FALSE
    /\ eventCount = 0 /\ event = 0 /\ next = 0
    /\ last = 0

Next ==
    \/ \E kind \in WhenObserving : StoreModified(kind)
    \/ AvailabilityChanges
    \/ StoreWiped
    \/ DoGetEvents
    \/ \E list \in Lists, o \in Observers : AddObserver(list, o) \/ RemoveObserver(list, o)
    \/ RunL \/ NotifyNext \/ EventHandedOut \/ RunLEnds
    \/ CloseStore

Spec == Init /\ [][Next]_vars

\* The server serves requests, the client's scheduler runs its active objects, and an
\* observer returns from a notification.
Fairness ==
    /\ WF_vars(DoGetEvents)
    /\ WF_vars(RunL \/ NotifyNext \/ EventHandedOut \/ RunLEnds)

FairSpec == Spec /\ Fairness

-----------------------------------------------------------------------------
(* Properties.                                                              *)

\* Every variable keeps its type, and the queue its bound, which is one more than the
\* constant.
TypeOK ==
    /\ available \in BOOLEAN /\ isObserving \in BOOLEAN /\ active \in BOOLEAN
    /\ queue \in Seq(Events) /\ Len(queue) <= QueueDepth + 1
    /\ sent \in Nat /\ last \in Nat
    /\ request \in {"none", "posted", "held", "completed"}
    /\ buffer \in Seq(Events) /\ length \in 0..Len(buffer)
    /\ client \in {"running", "closed", "panicked", "undefined"}
    /\ registered \in [Lists -> Seq(Observers)]
    /\ eventCount \in 0..Len(buffer) /\ event \in 0..(eventCount + 1) /\ next \in Nat
    /\ event = 0 => eventCount = 0

Listening == client = "running" /\ Registrations > 0

\* Nothing has made the handler active again inside RunL: that asks for events into the
\* buffer RunL is reading, and ends in a panic unless the observers are removed again.
Undisturbed == event > 0 => ~active

\* Observers are never deaf: whatever was added and removed, in notifications too, a
\* handler with observers that is not in RunL waits for events, and the server knows that
\* it observes.
ObserversHeard ==
    (Listening /\ event = 0) => (active /\ isObserving /\ request # "none")

\* No event lies in the queue while the server keeps a message to answer with it.
NothingStuck == (client = "running" /\ request = "held") => queue = <<>>

\* An event is the next one, or says that there is a gap.
Follows(n, e) == \/ e.n = n + 1
                 \/ e.n > n /\ e.kind = "overflow"

\* Observers get every event the session is sent, once and in order, over batches, a
\* queue that fills up and observers that come and go; where there is a gap, the next
\* event says that the queue overflowed (to the observers of the store: those of a
\* mailbox are not notified of that kind).
NoSilentLoss ==
    [][(Listening /\ Undisturbed /\ EventHandedOut) => Follows(last, buffer[event])]_vars

\* An event sent to a client with observers is handed out, unless the queue overflows
\* over it, as long as the client keeps observers and lives.
HandedOutEventually ==
    \A n \in 1..MaxEvents : (sent >= n /\ Listening) ~> (last >= n \/ ~Listening)

\* A client may remove an observer and later add one, wherever it does so: adding one
\* lets it observe, and does not end in a panic.
NeverPanics == client # "panicked"
=============================================================================
