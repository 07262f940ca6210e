----------------------- MODULE SessionEvents_proofs -----------------------
(***************************************************************************)
(* Theorems about the events of a session, for any observers, sizes of the  *)
(* queue and the buffer, and bounds.                                        *)
(***************************************************************************)
EXTENDS SessionEvents, SequenceTheorems, TLAPS

-----------------------------------------------------------------------------
(* The inductive invariant.                                                   *)

Running == client = "running"

\* The handler and its outstanding request agree, and observers are heard.
HandlerShape ==
    /\ active <=> request # "none"
    /\ Registrations > 0 => isObserving
    /\ (event = 0 /\ Registrations > 0) => active
    /\ request = "held" => queue = <<>>

\* The handler never lost its last observer inside RunL.  Once it has, it never gets
\* another without a panic: what it is handed is no concern of anyone.
Sound ==
    /\ event = 0 => (active <=> Registrations > 0)
    /\ event > 0 => ~active /\ Registrations > 0

\* Nothing is numbered beyond what was sent.
Numbered ==
    /\ last <= sent
    /\ \A i \in 1..Len(queue) : queue[i].n <= sent
    /\ \A i \in 1..Len(buffer) : buffer[i].n <= sent

\* The part of the buffer that is still to be handed out.
First == IF event > 0 THEN event ELSE 1
Final == IF event > 0 THEN eventCount
         ELSE IF request = "completed" THEN length ELSE 0
FrontEnd == IF First <= Final THEN buffer[Final].n ELSE last

\* From the last event handed out, over the buffer and the queue, to the last one sent
\* there is no gap that is not announced.
Whole ==
    /\ \A i \in First..Final :
           Follows(IF i = First THEN last ELSE buffer[i - 1].n, buffer[i])
    /\ \A i \in 1..Len(queue) :
           Follows(IF i = 1 THEN FrontEnd ELSE queue[i - 1].n, queue[i])
    /\ sent = IF queue = <<>> THEN FrontEnd ELSE queue[Len(queue)].n

Inv == /\ TypeOK
       /\ Numbered
       /\ Running => HandlerShape
       /\ (Running /\ Sound) => Whole
-----------------------------------------------------------------------------
(* What the operators on sequences do.                                        *)

\* The batch is a nonempty beginning of the queue, the rest what follows it.
LEMMA BatchIsPrefix ==
    ASSUME queue \in Seq(Events), queue # <<>>
    PROVE  /\ Batch \in Seq(Events) /\ Rest \in Seq(Events)
           /\ Len(Batch) \in 1..Len(queue)
           /\ Len(Rest) = Len(queue) - Len(Batch)
           /\ \A i \in 1..Len(Batch) : Batch[i] = queue[i]
           /\ \A i \in 1..Len(Rest) : Rest[i] = queue[i + Len(Batch)]
<1> DEFINE count == IF Len(queue) < BufferLength THEN Len(queue) ELSE BufferLength
<1>1. /\ Len(queue) \in Nat \ {0}
      /\ \A i \in 1..Len(queue) : queue[i] \in Events
  BY EmptySeq, ElementOfSeq
<1>2. count \in 1..Len(queue)
  BY <1>1, SizesType
<1> HIDE DEF count
<1>3. /\ SubSeq(queue, 1, count) \in Seq(Events)
      /\ Len(SubSeq(queue, 1, count)) = count
      /\ \A i \in 1..count : SubSeq(queue, 1, count)[i] = queue[i]
  <2>1. \A i \in 1..count : queue[i] \in Events
    BY <1>1, <1>2
  <2>2. QED  BY <2>1, <1>2, SubSeqProperties
<1>4. Batch = SubSeq(queue, 1, count)
  BY DEF Batch, count
<1>5. \A i \in (count + 1)..Len(queue) : queue[i] \in Events
  BY <1>1, <1>2
<1>6. /\ SubSeq(queue, count + 1, Len(queue)) \in Seq(Events)
      /\ Len(SubSeq(queue, count + 1, Len(queue))) = Len(queue) - count
      /\ \A i \in 1..(Len(queue) - count) :
            SubSeq(queue, count + 1, Len(queue))[i] = queue[i + count]
  <2>1. /\ SubSeq(queue, count + 1, Len(queue)) \in Seq(Events)
        /\ Len(SubSeq(queue, count + 1, Len(queue))) =
              IF count + 1 <= Len(queue) THEN Len(queue) - (count + 1) + 1 ELSE 0
        /\ \A i \in 1..(Len(queue) - (count + 1) + 1) :
              SubSeq(queue, count + 1, Len(queue))[i] = queue[(count + 1) + i - 1]
    <3>1. count + 1 \in Int /\ Len(queue) \in Int
      BY <1>1, <1>2
    <3>2. QED  BY <3>1, <1>5, SubSeqProperties
  <2>2. QED  BY <2>1, <1>1, <1>2
<1>7. Rest = SubSeq(queue, count + 1, Len(queue))
  BY <1>3, <1>4 DEF Rest
<1>8. QED  BY <1>2, <1>3, <1>4, <1>6, <1>7

\* An answer is in the buffer from its beginning; while RunL reads the buffer, it does
\* not get shorter, and beyond the answer nothing changes.
LEMMA AnswerWrites ==
    ASSUME NEW batch \in Seq(Events), TypeOK, Answer(batch)
    PROVE  /\ buffer' \in Seq(Events)
           /\ request' = "completed"
           /\ length' = Len(batch) /\ length' \in 0..Len(buffer')
           /\ event = 0 => buffer' = batch
           /\ event # 0 => Len(buffer') >= Len(buffer)
           /\ \A i \in 1..Len(buffer') :
                 \/ i \in 1..Len(batch) /\ buffer'[i] = batch[i]
                 \/ i \in 1..Len(buffer) /\ buffer'[i] = buffer[i]
<1> DEFINE tail == SubSeq(buffer, Len(batch) + 1, Len(buffer))
<1>1. /\ Len(batch) \in Nat /\ Len(buffer) \in Nat /\ buffer \in Seq(Events)
      /\ request' = "completed" /\ length' = Len(batch)
  BY LenProperties DEF TypeOK, Answer
<1>2. CASE event = 0
  <2>1. buffer' = batch
    BY <1>2 DEF Answer
  <2>2. QED  BY <2>1, <1>1, <1>2
<1>3. CASE event # 0
  <2>1. buffer' = batch \o tail
    BY <1>3 DEF Answer
  <2>2. /\ tail \in Seq(Events)
        /\ Len(tail) = IF Len(batch) + 1 <= Len(buffer)
                       THEN Len(buffer) - Len(batch) ELSE 0
        /\ \A i \in 1..(Len(buffer) - Len(batch)) : tail[i] = buffer[i + Len(batch)]
    <3>1. \A i \in (Len(batch) + 1)..Len(buffer) : buffer[i] \in Events
      BY <1>1, ElementOfSeq
    <3>2. /\ tail \in Seq(Events)
          /\ Len(tail) = IF Len(batch) + 1 <= Len(buffer)
                         THEN Len(buffer) - (Len(batch) + 1) + 1 ELSE 0
          /\ \A i \in 1..(Len(buffer) - (Len(batch) + 1) + 1) :
                tail[i] = buffer[(Len(batch) + 1) + i - 1]
      <4>1. Len(batch) + 1 \in Int /\ Len(buffer) \in Int
        BY <1>1
      <4>2. QED  BY <4>1, <3>1, SubSeqProperties
    <3>3. QED  BY <3>2, <1>1
  <2> HIDE DEF tail
  <2>3. /\ batch \o tail \in Seq(Events)
        /\ Len(batch \o tail) = Len(batch) + Len(tail)
        /\ \A i \in 1..(Len(batch) + Len(tail)) : (batch \o tail)[i] =
              IF i <= Len(batch) THEN batch[i] ELSE tail[i - Len(batch)]
    BY <2>2, ConcatProperties
  <2>4. /\ Len(tail) \in Nat
        /\ Len(buffer') = Len(batch) + Len(tail)
        /\ \A i \in 1..Len(buffer') : buffer'[i] =
              IF i <= Len(batch) THEN batch[i] ELSE tail[i - Len(batch)]
    BY <2>1, <2>2, <2>3, <1>1
  <2>5. ASSUME NEW i \in 1..Len(buffer')
        PROVE  \/ i \in 1..Len(batch) /\ buffer'[i] = batch[i]
               \/ i \in 1..Len(buffer) /\ buffer'[i] = buffer[i]
    BY <2>5, <2>4, <2>2, <1>1
  <2>6. Len(buffer') >= Len(buffer) /\ length' \in 0..Len(buffer')
    BY <2>4, <2>2, <1>1
  <2>7. QED  BY <2>1, <2>3, <2>5, <2>6, <1>1, <1>3
<1>4. QED  BY <1>2, <1>3

\* Without one place a sequence is one shorter.
LEMMA WithoutShortens ==
    ASSUME NEW s \in Seq(Observers), NEW i \in 1..Len(s)
    PROVE  Without(i, s) \in Seq(Observers) /\ Len(Without(i, s)) = Len(s) - 1
<1>1. Len(s) \in Nat /\ i \in Int /\ Len(s) \in Int
      /\ i - 1 \in Int /\ i + 1 \in Int
      /\ \A j \in 1..Len(s) : s[j] \in Observers
  BY LenProperties, ElementOfSeq
<1>2. /\ SubSeq(s, 1, i - 1) \in Seq(Observers)
      /\ Len(SubSeq(s, 1, i - 1)) = IF 1 <= i - 1 THEN (i - 1) - 1 + 1 ELSE 0
  <2>1. \A j \in 1..(i - 1) : s[j] \in Observers
    BY <1>1
  <2>2. QED  BY <1>1, <2>1, SubSeqProperties
<1>3. /\ SubSeq(s, i + 1, Len(s)) \in Seq(Observers)
      /\ Len(SubSeq(s, i + 1, Len(s))) = IF i + 1 <= Len(s) THEN Len(s) - (i + 1) + 1 ELSE 0
  <2>1. \A j \in (i + 1)..Len(s) : s[j] \in Observers
    BY <1>1
  <2>2. QED  BY <1>1, <2>1, SubSeqProperties
<1> DEFINE before == SubSeq(s, 1, i - 1)
           after  == SubSeq(s, i + 1, Len(s))
<1>4. Without(i, s) = before \o after
  BY DEF Without
<1>5. /\ before \in Seq(Observers) /\ Len(before) = i - 1
      /\ after \in Seq(Observers) /\ Len(after) = Len(s) - i
  BY <1>1, <1>2, <1>3
<1> HIDE DEF before, after
<1>6. before \o after \in Seq(Observers) /\ Len(before \o after) = Len(before) + Len(after)
  BY <1>5, ConcatProperties
<1>7. QED  BY <1>1, <1>4, <1>5, <1>6

-----------------------------------------------------------------------------
(* Types.                                                                     *)

\* The types of what sending an event and answering a message can change.
ChannelTyped ==
    /\ queue \in Seq(Events) /\ Len(queue) <= QueueDepth + 1
    /\ sent \in Nat
    /\ request \in {"none", "posted", "held", "completed"}
    /\ buffer \in Seq(Events) /\ length \in 0..Len(buffer)
    /\ eventCount <= Len(buffer)

\* The types of the others.
HandlerTyped ==
    /\ available \in BOOLEAN /\ isObserving \in BOOLEAN /\ active \in BOOLEAN
    /\ last \in Nat
    /\ client \in {"running", "closed", "panicked", "undefined"}
    /\ registered \in [Lists -> Seq(Observers)]
    /\ eventCount \in Nat /\ event \in 0..(eventCount + 1) /\ next \in Nat
    /\ event = 0 => eventCount = 0

LEMMA TypesSplit == TypeOK <=> ChannelTyped /\ HandlerTyped
<1>1. TypeOK => ChannelTyped /\ HandlerTyped
  BY LenProperties DEF TypeOK, ChannelTyped, HandlerTyped
<1>2. ChannelTyped /\ HandlerTyped => TypeOK
  BY LenProperties DEF TypeOK, ChannelTyped, HandlerTyped
<1>3. QED  BY <1>1, <1>2

LEMMA AnswerTyped ==
    ASSUME TypeOK, NEW batch \in Seq(Events), Answer(batch), eventCount' = eventCount
    PROVE  /\ request' \in {"none", "posted", "held", "completed"}
           /\ buffer' \in Seq(Events) /\ length' \in 0..Len(buffer')
           /\ eventCount' <= Len(buffer')
<1>1. /\ eventCount \in 0..Len(buffer) /\ (event = 0 => eventCount = 0)
      /\ Len(buffer) \in Nat
  BY LenProperties DEF TypeOK
<1>2. /\ buffer' \in Seq(Events) /\ request' = "completed"
      /\ length' \in 0..Len(buffer')
      /\ event # 0 => Len(buffer') >= Len(buffer)
  BY AnswerWrites
<1>3. Len(buffer') \in Nat
  BY <1>2, LenProperties
<1>4. QED  BY <1>1, <1>2, <1>3

LEMMA SendingTyped ==
    ASSUME TypeOK, NEW kind \in Kinds, SendEventToObserver(kind), eventCount' = eventCount
    PROVE  ChannelTyped'
<1> DEFINE e == [n |-> sent + 1, kind |-> kind]
           o == [n |-> sent + 1, kind |-> "overflow"]
<1>1. /\ sent \in Nat /\ sent' = sent + 1
      /\ e \in Events /\ o \in Events
  BY DEF TypeOK, SendEventToObserver, Events, Kinds
<1>2. CASE request = "held" /\ Answer(<<e>>) /\ UNCHANGED queue
  <2>1. <<e>> \in Seq(Events)
    BY <1>1
  <2> HIDE DEF e
  <2>2. /\ request' \in {"none", "posted", "held", "completed"}
        /\ buffer' \in Seq(Events) /\ length' \in 0..Len(buffer')
        /\ eventCount' <= Len(buffer')
    BY <1>2, <2>1, AnswerTyped
  <2>3. queue' \in Seq(Events) /\ Len(queue') <= QueueDepth + 1 /\ sent' \in Nat
    BY <1>1, <1>2 DEF TypeOK
  <2>4. QED  BY <2>2, <2>3 DEF ChannelTyped
<1>3. CASE queue' = <<o>> /\ UNCHANGED message
  <2>1. queue' \in Seq(Events) /\ Len(queue') = 1
    BY <1>1, <1>3
  <2>2. QED  BY <1>1, <1>3, <2>1, LenProperties, SizesType DEF TypeOK, ChannelTyped, message
<1>4. CASE Len(queue) <= QueueDepth /\ queue' = Append(queue, e) /\ UNCHANGED message
  <2> HIDE DEF e
  <2>1. queue' \in Seq(Events) /\ Len(queue') = Len(queue) + 1 /\ Len(queue) \in Nat
    BY <1>1, <1>4, AppendProperties, LenProperties DEF TypeOK
  <2>2. QED  BY <1>1, <1>4, <2>1, LenProperties, SizesType DEF TypeOK, ChannelTyped, message
<1>5. QED  BY <1>2, <1>3, <1>4 DEF SendEventToObserver

LEMMA CallsTyped ==
    ASSUME TypeOK, GetEvents
    PROVE  /\ request' \in {"none", "posted", "held", "completed"}
           /\ active' \in BOOLEAN
           /\ client' \in {"running", "closed", "panicked", "undefined"}
           /\ length' \in 0..Len(buffer) /\ UNCHANGED buffer
<1>1. length' \in 0..Len(buffer)
  BY LenProperties DEF TypeOK, GetEvents
<1>2. QED  BY <1>1 DEF TypeOK, GetEvents

LEMMA InitTyped == Init => TypeOK
<1> SUFFICES ASSUME Init PROVE TypeOK
  OBVIOUS
<1>1. queue \in Seq(Events) /\ Len(queue) = 1
  BY DEF Init, Events, Kinds
<1>2. buffer \in Seq(Events) /\ Len(buffer) = 0
  BY DEF Init
<1>3. registered \in [Lists -> Seq(Observers)]
  BY EmptySeq DEF Init
<1>4. ChannelTyped
  BY <1>1, <1>2, SizesType DEF Init, ChannelTyped
<1>5. HandlerTyped
  <2>1. available \in BOOLEAN /\ isObserving \in BOOLEAN /\ active \in BOOLEAN
    BY DEF Init
  <2>2. /\ last \in Nat /\ eventCount \in Nat /\ event \in 0..(eventCount + 1)
        /\ next \in Nat /\ (event = 0 => eventCount = 0)
    BY DEF Init
  <2>3. QED  BY <1>3, <2>1, <2>2 DEF Init, HandlerTyped
<1>6. QED  BY <1>4, <1>5, TypesSplit

LEMMA StepTyped == TypeOK /\ [Next]_vars => TypeOK'
<1> SUFFICES ASSUME TypeOK, [Next]_vars PROVE TypeOK'
  OBVIOUS
<1> USE TypesSplit
<1>0. ChannelTyped /\ HandlerTyped
  OBVIOUS
<1>1. ASSUME NEW kind \in WhenObserving, StoreModified(kind) PROVE TypeOK'
  <2>1. ChannelTyped'
    BY <1>1, SendingTyped DEF StoreModified, WhenObserving, Kinds, runL
  <2>2. HandlerTyped'
    BY <1>0, <1>1 DEF StoreModified, HandlerTyped, runL
  <2>3. QED  BY <2>1, <2>2, PTL
<1>2. CASE AvailabilityChanges
  <2>1. ChannelTyped'
    BY <1>2, SendingTyped DEF AvailabilityChanges, Kinds, runL
  <2>2. HandlerTyped'
    BY <1>0, <1>2 DEF AvailabilityChanges, HandlerTyped, runL
  <2>3. QED  BY <2>1, <2>2, PTL
<1>3. CASE StoreWiped
  <2>1. ChannelTyped'
    BY <1>3, SendingTyped DEF StoreWiped, Kinds, runL
  <2>2. HandlerTyped'
    BY <1>0, <1>3 DEF StoreWiped, HandlerTyped, runL
  <2>3. QED  BY <2>1, <2>2, PTL
<1>4. CASE DoGetEvents
  <2>1. HandlerTyped'
    BY <1>0, <1>4 DEF DoGetEvents, HandlerTyped, runL
  <2>2. CASE request' = "held" /\ UNCHANGED <<buffer, length, queue>>
    <3>1. ChannelTyped'
      BY <1>0, <1>4, <2>2 DEF DoGetEvents, ChannelTyped, runL
    <3>2. QED  BY <2>1, <3>1, PTL
  <2>3. CASE queue # <<>> /\ Answer(Batch) /\ queue' = Rest
    <3>1. /\ Batch \in Seq(Events) /\ Rest \in Seq(Events)
          /\ Len(Rest) = Len(queue) - Len(Batch) /\ Len(Batch) \in 1..Len(queue)
          /\ Len(queue) \in Nat
      BY <2>3, BatchIsPrefix, LenProperties DEF TypeOK
    <3>2. sent' = sent /\ eventCount' = eventCount
      BY <1>4 DEF DoGetEvents, runL
    <3>3. ChannelTyped'
      BY <1>0, <2>3, <3>1, <3>2, AnswerTyped, SizesType DEF ChannelTyped
    <3>4. QED  BY <2>1, <3>3, PTL
  <2>4. QED  BY <1>4, <2>2, <2>3 DEF DoGetEvents
<1>5. ASSUME NEW list \in Lists, NEW o \in Observers, AddObserver(list, o) PROVE TypeOK'
  <2>1. registered' \in [Lists -> Seq(Observers)]
    <3>1. Append(registered[list], o) \in Seq(Observers)
      BY AppendProperties DEF TypeOK
    <3>2. QED  BY <1>5, <3>1 DEF AddObserver, TypeOK
  <2>2. CASE Registrations = 0
    <3>1. isObserving' = TRUE /\ GetEvents
      BY <1>5, <2>2 DEF AddObserver
    <3>2. ChannelTyped'
      BY <1>0, <1>5, <3>1, CallsTyped DEF AddObserver, ChannelTyped, runL
    <3>3. HandlerTyped'
      BY <1>0, <1>5, <2>1, <3>1, CallsTyped DEF AddObserver, HandlerTyped, runL
    <3>4. QED  BY <3>2, <3>3, PTL
  <2>3. CASE Registrations # 0
    <3>1. ChannelTyped'
      BY <1>0, <1>5, <2>3 DEF AddObserver, ChannelTyped, runL, message
    <3>2. HandlerTyped'
      BY <1>0, <1>5, <2>1, <2>3 DEF AddObserver, HandlerTyped, runL
    <3>3. QED  BY <3>1, <3>2, PTL
  <2>4. QED  BY <2>2, <2>3
<1>6. ASSUME NEW list \in Lists, NEW o \in Observers, RemoveObserver(list, o) PROVE TypeOK'
  <2>1. registered' \in [Lists -> Seq(Observers)]
    <3>1. PICK i \in 1..Len(registered[list]) :
             registered' = [registered EXCEPT ![list] = Without(i, @)]
      BY <1>6 DEF RemoveObserver
    <3>2. Without(i, registered[list]) \in Seq(Observers)
      BY WithoutShortens DEF TypeOK
    <3>3. QED  BY <3>1, <3>2 DEF TypeOK
  <2>2. \/ queue' = <<>> /\ isObserving' = FALSE /\ request' = "none" /\ active' = FALSE
           /\ last' = sent
        \/ UNCHANGED <<isObserving, queue, request, active, last>>
    BY <1>6 DEF RemoveObserver, Cancel
  <2>3. UNCHANGED <<available, sent, buffer, length, client, eventCount, event, next>>
    BY <1>6 DEF RemoveObserver
  <2>4. ChannelTyped'
    <3>1. queue' \in Seq(Events) /\ Len(queue') <= QueueDepth + 1
      <4>1. CASE queue' = <<>>
        BY <4>1, SizesType
      <4>2. CASE queue' = queue
        BY <1>0, <4>2 DEF ChannelTyped
      <4>3. QED  BY <2>2, <4>1, <4>2
    <3>2. QED  BY <1>0, <2>2, <2>3, <3>1 DEF ChannelTyped
  <2>5. HandlerTyped'
    BY <1>0, <2>1, <2>2, <2>3 DEF HandlerTyped, ChannelTyped
  <2>6. QED  BY <2>4, <2>5, PTL
<1>7. CASE RunL
  <2>1. ChannelTyped'
    BY <1>0, <1>7, LenProperties DEF RunL, ChannelTyped, server
  <2>2. HandlerTyped'
    <3>1. /\ eventCount' \in Nat /\ event' \in 0..(eventCount' + 1) /\ next' \in Nat
          /\ (event' = 0 => eventCount' = 0)
      BY <1>0, <1>7, LenProperties DEF RunL, ChannelTyped
    <3>2. /\ active' \in BOOLEAN /\ UNCHANGED <<available, isObserving, client, registered, last>>
      BY <1>7 DEF RunL, server
    <3>3. QED  BY <1>0, <3>1, <3>2 DEF HandlerTyped
  <2>3. QED  BY <2>1, <2>2, PTL
<1>8. CASE NotifyNext
  <2>1. ChannelTyped' /\ HandlerTyped'
    BY <1>0, <1>8 DEF NotifyNext, ChannelTyped, HandlerTyped, server, message
  <2>2. QED  BY <2>1, PTL
<1>9. CASE EventHandedOut
  <2>1. ChannelTyped'
    BY <1>0, <1>9 DEF EventHandedOut, ChannelTyped, server, message
  <2>2. buffer[event].n \in Nat
    <3>1. event \in 1..Len(buffer)
      BY <1>9, LenProperties DEF EventHandedOut, TypeOK
    <3>2. buffer[event] \in Events
      BY <3>1, ElementOfSeq DEF TypeOK
    <3>3. QED  BY <3>2 DEF Events
  <2>3. HandlerTyped'
    BY <1>0, <1>9, <2>2 DEF EventHandedOut, HandlerTyped, server, message
  <2>4. QED  BY <2>1, <2>3, PTL
<1>10. CASE RunLEnds
  <2>1. ChannelTyped'
    <3>1. /\ eventCount' = 0 /\ UNCHANGED <<queue, sent, buffer>>
          /\ length' \in 0..Len(buffer)
      BY <1>10, CallsTyped DEF RunLEnds, server
    <3>2. request' \in {"none", "posted", "held", "completed"}
      BY <1>10, CallsTyped DEF RunLEnds
    <3>3. QED  BY <1>0, <3>1, <3>2, LenProperties DEF ChannelTyped
  <2>2. HandlerTyped'
    BY <1>0, <1>10, CallsTyped DEF RunLEnds, HandlerTyped, server
  <2>3. QED  BY <2>1, <2>2, PTL
<1>11. CASE CloseStore
  <2>1. registered' \in [Lists -> Seq(Observers)]
    BY <1>11, EmptySeq DEF CloseStore
  <2>2. ChannelTyped'
    BY <1>0, <1>11, SizesType DEF CloseStore, ChannelTyped
  <2>3. HandlerTyped'
    <3>1. /\ eventCount' \in Nat /\ event' \in 0..(eventCount' + 1) /\ next' \in Nat
          /\ (event' = 0 => eventCount' = 0)
      BY <1>11 DEF CloseStore
    <3>2. /\ active' \in BOOLEAN /\ isObserving' \in BOOLEAN
          /\ client' \in {"running", "closed", "panicked", "undefined"}
          /\ UNCHANGED <<available, last>>
      BY <1>11 DEF CloseStore
    <3>3. QED  BY <1>0, <2>1, <3>1, <3>2 DEF HandlerTyped
  <2>4. QED  BY <2>2, <2>3, PTL
<1>12. CASE UNCHANGED vars
  <2>1. ChannelTyped' /\ HandlerTyped'
    BY <1>0, <1>12 DEF vars, ChannelTyped, HandlerTyped, server, message, runL
  <2>2. QED  BY <2>1, PTL
<1>13. QED
  BY <1>1, <1>2, <1>3, <1>4, <1>5, <1>6, <1>7, <1>8, <1>9, <1>10, <1>11, <1>12 DEF Next

\* For any sizes, every variable keeps its type, and the queue its bound.
THEOREM TypeCorrect == Spec => []TypeOK
BY InitTyped, StepTyped, PTL DEF Spec

-----------------------------------------------------------------------------
(* The handler and its request.                                               *)

LEMMA Counted == TypeOK => /\ Registrations \in Nat
                           /\ \A list \in Lists : Len(registered[list]) \in Nat
BY LenProperties DEF TypeOK, Registrations, Lists

LEMMA AddCounts ==
    ASSUME TypeOK, NEW list \in Lists, NEW o \in Observers, AddObserver(list, o)
    PROVE  Registrations' = Registrations + 1
<1>1. Len(Append(registered[list], o)) = Len(registered[list]) + 1
  BY AppendProperties DEF TypeOK
<1>2. registered' = [registered EXCEPT ![list] = Append(registered[list], o)]
  BY DEF AddObserver
<1>3. \A x \in Lists : Len(registered'[x]) =
          IF x = list THEN Len(registered[x]) + 1 ELSE Len(registered[x])
  BY <1>1, <1>2 DEF TypeOK
<1> DEFINE s == Len(registered["system"])
           m == Len(registered["mailbox"])
           t == Len(registered'["system"])
           n == Len(registered'["mailbox"])
<1>4. /\ s \in Nat /\ m \in Nat
      /\ Registrations = s + m /\ Registrations' = t + n
  BY Counted DEF Registrations, Lists
<1>5. \/ t = s + 1 /\ n = m
      \/ t = s /\ n = m + 1
  BY <1>3 DEF Lists
<1> HIDE DEF s, m, t, n
<1>6. QED  BY <1>4, <1>5

LEMMA RemoveCounts ==
    ASSUME TypeOK, NEW list \in Lists, NEW o \in Observers, RemoveObserver(list, o)
    PROVE  Registrations' = Registrations - 1 /\ Registrations > 0
<1>1. PICK i \in 1..Len(registered[list]) :
         registered' = [registered EXCEPT ![list] = Without(i, registered[list])]
  BY DEF RemoveObserver
<1>2. Len(Without(i, registered[list])) = Len(registered[list]) - 1
  BY WithoutShortens DEF TypeOK
<1>3. \A x \in Lists : Len(registered'[x]) =
          IF x = list THEN Len(registered[x]) - 1 ELSE Len(registered[x])
  BY <1>1, <1>2 DEF TypeOK
<1>4. Len(registered[list]) > 0
  BY <1>1, Counted
<1> DEFINE s == Len(registered["system"])
           m == Len(registered["mailbox"])
           t == Len(registered'["system"])
           n == Len(registered'["mailbox"])
<1>5. /\ s \in Nat /\ m \in Nat
      /\ Registrations = s + m /\ Registrations' = t + n
  BY Counted DEF Registrations, Lists
<1>6. \/ t = s - 1 /\ n = m /\ s > 0
      \/ t = s /\ n = m - 1 /\ m > 0
  BY <1>3, <1>4 DEF Lists
<1> HIDE DEF s, m, t, n
<1>7. QED  BY <1>5, <1>6

\* Sending an event leaves the handler alone, and what it does to the request agrees.
LEMMA SendingShape ==
    ASSUME HandlerShape, NEW kind, SendEventToObserver(kind),
           UNCHANGED <<active, registered, event>>, isObserving' = isObserving
    PROVE  HandlerShape'
<1>1. Registrations' = Registrations
  BY DEF Registrations
<1>2. \/ request = "held" /\ request' = "completed"
      \/ request # "held" /\ request' = request
  BY DEF SendEventToObserver, Answer, message
<1>3. QED  BY <1>1, <1>2 DEF HandlerShape

LEMMA StepShape ==
    TypeOK /\ (Running => HandlerShape) /\ [Next]_vars => (Running => HandlerShape)'
<1> SUFFICES ASSUME TypeOK, Running => HandlerShape, [Next]_vars, Running'
             PROVE  HandlerShape'
  OBVIOUS
<1>a. CASE UNCHANGED vars
  BY <1>a DEF vars, server, message, runL, HandlerShape, Running, Registrations
<1>b. CASE Next
  <2>0. Running /\ HandlerShape
    BY <1>b DEF Next, Running, StoreModified, AvailabilityChanges, StoreWiped, DoGetEvents,
                AddObserver, RemoveObserver, ClientCalls, RunL, NotifyNext, EventHandedOut,
                RunLEnds, CloseStore
  <2>1. ASSUME NEW kind \in WhenObserving, StoreModified(kind) PROVE HandlerShape'
    BY <2>0, <2>1, SendingShape DEF StoreModified, runL
  <2>2. CASE AvailabilityChanges
    BY <2>0, <2>2, SendingShape DEF AvailabilityChanges, runL
  <2>3. CASE StoreWiped
    BY <2>0, <2>3, SendingShape DEF StoreWiped, runL
  <2>4. CASE DoGetEvents
    <3>1. Registrations' = Registrations
      BY <2>4 DEF DoGetEvents, Registrations
    <3>2. UNCHANGED <<isObserving, active, event>>
      BY <2>4 DEF DoGetEvents, runL
    <3>3. \/ request' = "held" /\ queue' = <<>>
          \/ request' = "completed"
      BY <2>4 DEF DoGetEvents, Answer
    <3>4. request # "none"
      BY <2>4 DEF DoGetEvents
    <3>5. QED  BY <2>0, <3>1, <3>2, <3>3, <3>4 DEF HandlerShape
  <2>5. ASSUME NEW list \in Lists, NEW o \in Observers, AddObserver(list, o)
        PROVE  HandlerShape'
    <3>1. Registrations' = Registrations + 1 /\ Registrations \in Nat
      BY <2>5, AddCounts, Counted
    <3>2. CASE Registrations = 0
      <4>1. isObserving' = TRUE /\ request' = "posted"
        BY <2>5, <3>2 DEF AddObserver, GetEvents
      <4>2. active'
        BY <2>5, <3>2 DEF AddObserver, GetEvents, Running
      <4>3. QED  BY <4>1, <4>2 DEF HandlerShape
    <3>3. CASE Registrations # 0
      <4>1. UNCHANGED <<isObserving, request, active, event, queue>>
        BY <2>5, <3>3 DEF AddObserver, message, runL
      <4>2. QED  BY <2>0, <3>1, <3>3, <4>1 DEF HandlerShape
    <3>4. QED  BY <3>2, <3>3
  <2>6. ASSUME NEW list \in Lists, NEW o \in Observers, RemoveObserver(list, o)
        PROVE  HandlerShape'
    <3>1. /\ Registrations' = Registrations - 1 /\ Registrations > 0
          /\ Registrations \in Nat /\ event' = event
      BY <2>6, RemoveCounts, Counted DEF RemoveObserver
    <3>2. CASE Registrations = 1 /\ active
      <4>1. request' = "none" /\ active' = FALSE
        BY <2>6, <3>2 DEF RemoveObserver, Cancel
      <4>2. QED  BY <3>1, <3>2, <4>1 DEF HandlerShape
    <3>3. CASE ~(Registrations = 1 /\ active)
      <4>1. UNCHANGED <<isObserving, queue, request, active>>
        BY <2>6, <3>3 DEF RemoveObserver, Cancel
      <4>2. QED  BY <2>0, <3>1, <3>3, <4>1 DEF HandlerShape
    <3>4. QED  BY <3>2, <3>3
  <2>7. CASE RunL
    <3>1. Registrations' = Registrations
      BY <2>7 DEF RunL, Registrations
    <3>2. QED  BY <2>0, <2>7, <3>1 DEF RunL, HandlerShape, server
  <2>8. CASE NotifyNext
    <3>1. Registrations' = Registrations
      BY <2>8 DEF NotifyNext, Registrations
    <3>2. QED  BY <2>0, <2>8, <3>1 DEF NotifyNext, HandlerShape, server, message
  <2>9. CASE EventHandedOut
    <3>1. Registrations' = Registrations /\ event' # 0
      BY <2>9 DEF EventHandedOut, Registrations, TypeOK
    <3>2. UNCHANGED <<isObserving, queue, request, active>>
      BY <2>9 DEF EventHandedOut, server, message
    <3>3. QED  BY <2>0, <3>1, <3>2 DEF HandlerShape
  <2>10. CASE RunLEnds
    <3>1. Registrations' = Registrations
      BY <2>10 DEF RunLEnds, Registrations
    <3>2. active' /\ request' = "posted" /\ UNCHANGED <<isObserving, queue>>
      BY <2>10 DEF RunLEnds, GetEvents, server, Running
    <3>3. QED  BY <2>0, <3>1, <3>2 DEF HandlerShape
  <2>11. CASE CloseStore
    BY <2>11 DEF CloseStore, Running
  <2>12. QED
    BY <1>b, <2>1, <2>2, <2>3, <2>4, <2>5, <2>6, <2>7, <2>8, <2>9, <2>10, <2>11 DEF Next
<1>c. QED  BY <1>a, <1>b

LEMMA InitShape == Init => HandlerShape
<1>1. Init => Registrations = 0
  BY DEF Init, Registrations, Lists
<1>2. QED  BY <1>1 DEF Init, HandlerShape

LEMMA ShapeAlways == Spec => [](TypeOK /\ (Running => HandlerShape))
BY InitTyped, InitShape, StepTyped, StepShape, PTL DEF Spec

\* A handler with observers waits for events outside RunL, and the server knows that it
\* observes.
THEOREM ObserversAreHeard == Spec => []ObserversHeard
<1>1. TypeOK /\ (Running => HandlerShape) => ObserversHeard
  BY DEF HandlerShape, ObserversHeard, Listening, Running
<1>2. QED  BY <1>1, ShapeAlways, PTL

\* No event waits in the queue while a message is kept to answer with it.
THEOREM NothingIsStuck == Spec => []NothingStuck
<1>1. TypeOK /\ (Running => HandlerShape) => NothingStuck
  BY DEF HandlerShape, NothingStuck, Running
<1>2. QED  BY <1>1, ShapeAlways, PTL

-----------------------------------------------------------------------------
(* Numbers.                                                                   *)

LEMMA Numbers ==
    TypeOK => /\ Len(queue) \in Nat /\ Len(buffer) \in Nat
              /\ sent \in Nat /\ last \in Nat
              /\ \A i \in 1..Len(queue) : queue[i].n \in Nat
              /\ \A i \in 1..Len(buffer) : buffer[i].n \in Nat
<1> SUFFICES ASSUME TypeOK
             PROVE  /\ Len(queue) \in Nat /\ Len(buffer) \in Nat
                    /\ sent \in Nat /\ last \in Nat
                    /\ \A i \in 1..Len(queue) : queue[i].n \in Nat
                    /\ \A i \in 1..Len(buffer) : buffer[i].n \in Nat
  OBVIOUS
<1>1. \A e \in Events : e.n \in Nat
  BY DEF Events
<1>2. /\ \A i \in 1..Len(queue) : queue[i] \in Events
      /\ \A i \in 1..Len(buffer) : buffer[i] \in Events
  BY ElementOfSeq DEF TypeOK
<1>3. QED  BY <1>1, <1>2, LenProperties DEF TypeOK

\* What sending an event does to the queue and the buffer: the event answers the message,
\* which finds the queue empty, or is appended, or replaced by the news of an overflow.
LEMMA SendingCases ==
    ASSUME TypeOK, NEW kind \in Kinds, SendEventToObserver(kind)
    PROVE  /\ sent' = sent + 1
           /\ \/ /\ request = "held" /\ queue' = queue
                 /\ Answer(<<[n |-> sent + 1, kind |-> kind]>>)
              \/ /\ UNCHANGED <<request, buffer, length>>
                 /\ queue' \in Seq(Events) /\ queue' # <<>> /\ Len(queue') \in Nat
                 /\ queue'[Len(queue')].n = sent + 1
                 /\ \/ Len(queue') = 1 /\ queue'[1].kind = "overflow"
                    \/ /\ Len(queue') = Len(queue) + 1
                       /\ \A i \in 1..Len(queue) : queue'[i] = queue[i]
<1> DEFINE e == [n |-> sent + 1, kind |-> kind]
           o == [n |-> sent + 1, kind |-> "overflow"]
<1>1. /\ sent' = sent + 1 /\ e \in Events /\ o \in Events
      /\ e.n = sent + 1 /\ o.n = sent + 1 /\ o.kind = "overflow"
  BY DEF TypeOK, SendEventToObserver, Events, Kinds
<1>2. CASE request = "held" /\ Answer(<<e>>) /\ UNCHANGED queue
  BY <1>1, <1>2
<1>3. CASE queue' = <<o>> /\ UNCHANGED message
  <2>1. queue' \in Seq(Events) /\ Len(queue') = 1 /\ queue'[1] = o /\ queue' # <<>>
    BY <1>1, <1>3
  <2> HIDE DEF o
  <2>2. /\ queue'[Len(queue')].n = sent + 1 /\ queue'[1].kind = "overflow"
        /\ Len(queue') \in Nat
    BY <1>1, <2>1
  <2>3. QED  BY <1>1, <1>3, <2>1, <2>2 DEF message
<1>4. CASE queue' = Append(queue, e) /\ UNCHANGED message
  <2> HIDE DEF e
  <2>1. /\ queue' \in Seq(Events) /\ queue' # <<>>
        /\ Len(queue') = Len(queue) + 1 /\ Len(queue) \in Nat
        /\ \A i \in 1..Len(queue) : queue'[i] = queue[i]
        /\ queue'[Len(queue) + 1] = e
    BY <1>1, <1>4, AppendProperties, LenProperties DEF TypeOK
  <2>2. queue'[Len(queue')].n = sent + 1 /\ Len(queue') \in Nat
    BY <1>1, <2>1
  <2>3. QED  BY <1>1, <1>4, <2>1, <2>2 DEF message
<1>5. QED  BY <1>2, <1>3, <1>4 DEF SendEventToObserver

LEMMA OneEvent ==
    ASSUME TypeOK, NEW kind \in Kinds
    PROVE  /\ <<[n |-> sent + 1, kind |-> kind]>> \in Seq(Events)
           /\ Len(<<[n |-> sent + 1, kind |-> kind]>>) = 1
           /\ <<[n |-> sent + 1, kind |-> kind]>>[1].n = sent + 1
BY DEF TypeOK, Events

LEMMA AnswerNumbered ==
    ASSUME TypeOK, NEW batch \in Seq(Events), Answer(batch), Numbered,
           NEW bound \in Nat, sent <= bound, \A i \in 1..Len(batch) : batch[i].n <= bound
    PROVE  \A i \in 1..Len(buffer') : buffer'[i].n <= bound
<1>1. SUFFICES ASSUME NEW i \in 1..Len(buffer') PROVE buffer'[i].n <= bound
  OBVIOUS
<1>2. \/ i \in 1..Len(batch) /\ buffer'[i] = batch[i]
      \/ i \in 1..Len(buffer) /\ buffer'[i] = buffer[i]
  BY AnswerWrites
<1>3. QED  BY <1>2, Numbers DEF Numbered

LEMMA SendingNumbered ==
    ASSUME TypeOK, Numbered, NEW kind \in Kinds, SendEventToObserver(kind), last' = last
    PROVE  Numbered'
<1> DEFINE batch == <<[n |-> sent + 1, kind |-> kind]>>
<1>1. /\ batch \in Seq(Events) /\ Len(batch) = 1 /\ batch[1].n = sent + 1
  BY OneEvent
<1> HIDE DEF batch
<1>2. sent' = sent + 1 /\ last' <= sent'
  <2>1. sent' = sent + 1
    BY DEF SendEventToObserver
  <2>2. QED  BY <2>1, Numbers DEF Numbered
<1>3. CASE Answer(batch) /\ queue' = queue
  <2> DEFINE bound == sent + 1
  <2>1. /\ bound \in Nat /\ sent <= bound
        /\ \A i \in 1..Len(batch) : batch[i].n <= bound
    BY <1>1, Numbers
  <2> HIDE DEF bound
  <2>a. \A i \in 1..Len(buffer') : buffer'[i].n <= bound
    BY <1>1, <1>3, <2>1, AnswerNumbered
  <2>2. \A i \in 1..Len(buffer') : buffer'[i].n <= sent + 1
    BY <2>a DEF bound
  <2>3. QED  BY <1>2, <1>3, <2>2, Numbers DEF Numbered
<1>4. CASE /\ buffer' = buffer /\ queue' \in Seq(Events) /\ Len(queue') \in Nat
           /\ queue'[Len(queue')].n = sent + 1
           /\ \/ Len(queue') = 1
              \/ /\ Len(queue') = Len(queue) + 1
                 /\ \A i \in 1..Len(queue) : queue'[i] = queue[i]
  <2>1. ASSUME NEW i \in 1..Len(queue') PROVE queue'[i].n <= sent + 1
    <3>1. CASE i = Len(queue')
      BY <1>4, <3>1, Numbers
    <3>2. CASE i # Len(queue')
      <4>1. i \in 1..Len(queue) /\ queue'[i] = queue[i]
        BY <1>4, <3>2, Numbers
      <4>2. QED  BY <4>1, Numbers DEF Numbered
    <3>3. QED  BY <3>1, <3>2
  <2>2. \A i \in 1..Len(buffer') : buffer'[i].n <= sent + 1
    BY <1>4, Numbers DEF Numbered
  <2>3. QED  BY <1>2, <2>1, <2>2 DEF Numbered
<1>5. QED  BY <1>3, <1>4, SendingCases DEF batch

LEMMA StepNumbered == TypeOK /\ Numbered /\ [Next]_vars => Numbered'
<1> SUFFICES ASSUME TypeOK, Numbered, [Next]_vars PROVE Numbered'
  OBVIOUS
<1>1. ASSUME NEW kind \in WhenObserving, StoreModified(kind) PROVE Numbered'
  BY <1>1, SendingNumbered DEF StoreModified, WhenObserving, Kinds, runL
<1>2. CASE AvailabilityChanges
  BY <1>2, SendingNumbered DEF AvailabilityChanges, Kinds, runL
<1>3. CASE StoreWiped
  BY <1>3, SendingNumbered DEF StoreWiped, Kinds, runL
<1>4. CASE DoGetEvents
  <2>0. UNCHANGED <<sent, last>>
    BY <1>4 DEF DoGetEvents, runL
  <2>1. CASE UNCHANGED <<buffer, length, queue>>
    BY <2>0, <2>1 DEF Numbered
  <2>2. CASE queue # <<>> /\ Answer(Batch) /\ queue' = Rest
    <3>1. /\ Batch \in Seq(Events) /\ Rest \in Seq(Events)
          /\ Len(Batch) \in 1..Len(queue)
          /\ Len(Rest) = Len(queue) - Len(Batch)
          /\ \A i \in 1..Len(Batch) : Batch[i] = queue[i]
          /\ \A i \in 1..Len(Rest) : Rest[i] = queue[i + Len(Batch)]
      BY <2>2, BatchIsPrefix DEF TypeOK
    <3>2. \A i \in 1..Len(Batch) : Batch[i].n <= sent
      BY <3>1, Numbers DEF Numbered
    <3>3. \A i \in 1..Len(Rest) : Rest[i].n <= sent
      BY <3>1, Numbers DEF Numbered
    <3>4. \A i \in 1..Len(buffer') : buffer'[i].n <= sent
      BY <2>2, <3>1, <3>2, Numbers, AnswerNumbered
    <3>5. QED  BY <2>0, <2>2, <3>3, <3>4 DEF Numbered
  <2>3. QED  BY <1>4, <2>1, <2>2 DEF DoGetEvents
<1>5. ASSUME NEW list \in Lists, NEW o \in Observers, AddObserver(list, o) PROVE Numbered'
  <2>1. UNCHANGED <<sent, last, queue, buffer>>
    BY <1>5 DEF AddObserver, GetEvents, runL, message
  <2>2. QED  BY <2>1 DEF Numbered
<1>6. ASSUME NEW list \in Lists, NEW o \in Observers, RemoveObserver(list, o) PROVE Numbered'
  <2>1. /\ UNCHANGED <<sent, buffer>>
        /\ \/ queue' = <<>> /\ last' = sent
           \/ UNCHANGED <<queue, last>>
    BY <1>6 DEF RemoveObserver, Cancel
  <2>2. CASE queue' = <<>> /\ last' = sent
    <3>1. Len(queue') = 0
      BY <2>2
    <3>2. QED  BY <2>1, <2>2, <3>1, Numbers DEF Numbered
  <2>3. CASE UNCHANGED <<queue, last>>
    BY <2>1, <2>3 DEF Numbered
  <2>4. QED  BY <2>1, <2>2, <2>3
<1>7. CASE RunL
  BY <1>7 DEF RunL, server, Numbered
<1>8. CASE NotifyNext
  BY <1>8 DEF NotifyNext, server, message, Numbered
<1>9. CASE EventHandedOut
  <2>1. event \in 1..Len(buffer)
    BY <1>9, LenProperties DEF EventHandedOut, TypeOK
  <2>2. last' = buffer[event].n /\ UNCHANGED <<sent, queue, buffer>>
    BY <1>9 DEF EventHandedOut, server, message
  <2>3. QED  BY <2>1, <2>2 DEF Numbered
<1>10. CASE RunLEnds
  BY <1>10 DEF RunLEnds, GetEvents, server, Numbered
<1>11. CASE CloseStore
  <2>1. Len(queue') = 0 /\ Len(buffer') = 0 /\ UNCHANGED <<sent, last>>
    BY <1>11 DEF CloseStore
  <2>2. QED  BY <2>1 DEF Numbered
<1>12. CASE UNCHANGED vars
  BY <1>12 DEF vars, server, message, runL, Numbered
<1>13. QED
  BY <1>1, <1>2, <1>3, <1>4, <1>5, <1>6, <1>7, <1>8, <1>9, <1>10, <1>11, <1>12 DEF Next

-----------------------------------------------------------------------------
(* Nothing is lost silently.                                                  *)

\* Once the handler has lost its last observer inside RunL, that stays as it is as long
\* as the client runs.
LEMMA SoundBefore ==
    ASSUME TypeOK, Running, HandlerShape, Next, Running', Sound'
    PROVE  Sound
<1>0. Registrations \in Nat /\ event \in Nat
  BY Counted DEF TypeOK
<1>1. ASSUME UNCHANGED <<event, active, registered>> PROVE Sound
  <2>1. Registrations' = Registrations
    BY <1>1 DEF Registrations
  <2>2. QED  BY <1>1, <2>1 DEF Sound
<1>2. ASSUME NEW list \in Lists, NEW o \in Observers, AddObserver(list, o) PROVE Sound
  <2>1. Registrations' = Registrations + 1 /\ event' = event
    BY <1>2, AddCounts DEF AddObserver, runL
  <2>2. CASE Registrations = 0
    <3>1. ~active /\ active'
      BY <1>2, <2>2 DEF AddObserver, GetEvents, Running
    <3>2. event = 0
      BY <1>0, <2>1, <3>1 DEF Sound
    <3>3. QED  BY <2>2, <3>1, <3>2 DEF Sound
  <2>3. CASE Registrations # 0
    <3>1. active' = active
      BY <1>2, <2>3 DEF AddObserver
    <3>2. QED  BY <1>0, <2>1, <2>3, <3>1 DEF Sound
  <2>4. QED  BY <2>2, <2>3
<1>3. ASSUME NEW list \in Lists, NEW o \in Observers, RemoveObserver(list, o) PROVE Sound
  <2>1. Registrations' = Registrations - 1 /\ Registrations > 0 /\ event' = event
    BY <1>3, RemoveCounts DEF RemoveObserver
  <2>2. CASE Registrations = 1
    <3>1. event = 0
      BY <1>0, <2>1, <2>2 DEF Sound
    <3>2. QED  BY <2>2, <3>1 DEF Sound, HandlerShape
  <2>3. CASE Registrations # 1
    <3>1. active' = active
      BY <1>3, <2>3 DEF RemoveObserver
    <3>2. QED  BY <1>0, <2>1, <2>3, <3>1 DEF Sound
  <2>4. QED  BY <2>2, <2>3
<1>4. CASE RunL
  <2>1. Registrations' = Registrations /\ event' = 1 /\ event = 0 /\ active
    BY <1>4 DEF RunL, Registrations
  <2>2. QED  BY <2>1 DEF Sound
<1>5. CASE EventHandedOut
  <2>1. /\ Registrations' = Registrations /\ event' > 0 /\ event > 0
        /\ (active' <=> active)
    BY <1>0, <1>5 DEF EventHandedOut, Registrations
  <2>2. QED  BY <2>1 DEF Sound
<1>6. CASE RunLEnds
  <2>1. /\ Registrations' = Registrations /\ event' = 0 /\ event > 0
        /\ active' /\ ~active
    BY <1>6 DEF RunLEnds, Registrations, GetEvents, Running
  <2>2. QED  BY <2>1 DEF Sound
<1>7. CASE \E kind \in WhenObserving : StoreModified(kind)
  BY <1>1, <1>7 DEF StoreModified, runL
<1>8. CASE AvailabilityChanges
  BY <1>1, <1>8 DEF AvailabilityChanges, runL
<1>9. CASE StoreWiped
  BY <1>1, <1>9 DEF StoreWiped, runL
<1>10. CASE DoGetEvents
  BY <1>1, <1>10 DEF DoGetEvents, runL
<1>11. CASE NotifyNext
  BY <1>1, <1>11 DEF NotifyNext
<1>12. CASE CloseStore
  BY <1>12 DEF CloseStore, Running
<1>13. QED
  BY <1>2, <1>3, <1>4, <1>5, <1>6, <1>7, <1>8, <1>9, <1>10, <1>11, <1>12 DEF Next

\* The line of events is whole as long as nothing in it moves: what is still to be handed
\* out is the same part of the buffer, or was and is nothing.
LEMMA WholeKept ==
    ASSUME Whole, UNCHANGED <<queue, sent, last, buffer>>,
           \/ First' = First /\ Final' = Final
           \/ ~(First <= Final) /\ ~(First' <= Final') /\ First' \in Int /\ Final' \in Int
    PROVE  Whole'
<1>1. FrontEnd' = FrontEnd
  BY DEF FrontEnd
<1>2. \A i \in First'..Final' :
           Follows(IF i = First' THEN last ELSE buffer[i - 1].n, buffer[i])
  <2>1. CASE First' = First /\ Final' = Final
    BY <2>1 DEF Whole
  <2>2. CASE ~(First' <= Final') /\ First' \in Int /\ Final' \in Int
    BY <2>2
  <2>3. QED  BY <2>1, <2>2
<1>3. QED  BY <1>1, <1>2 DEF Whole, Follows

\* An event sent follows the last one, or says that there is a gap.
LEMMA SendingWhole ==
    ASSUME TypeOK, TypeOK', Numbered, HandlerShape, Sound, Whole,
           NEW kind \in Kinds, SendEventToObserver(kind),
           UNCHANGED <<event, eventCount, last>>
    PROVE  Whole'
<1> DEFINE e == [n |-> sent + 1, kind |-> kind]
<1>1. PICK batch \in Seq(Events) : batch = <<e>> /\ Len(batch) = 1 /\ batch[1].n = sent + 1
  BY OneEvent
<1>2. sent' = sent + 1 /\ sent \in Nat /\ last \in Nat
  BY Numbers DEF SendEventToObserver
<1>3. CASE request = "held" /\ queue' = queue /\ Answer(batch)
  <2>0. queue = <<>> /\ active
    BY <1>3 DEF HandlerShape
  <2>a. event \in Nat
    BY DEF TypeOK
  <2>1. event = 0 /\ queue = <<>>
    BY <2>0, <2>a DEF Sound
  <2>2. First = 1 /\ Final = 0 /\ FrontEnd = last
    BY <1>3, <2>1 DEF First, Final, FrontEnd
  <2>3. sent = last
    BY <2>1, <2>2 DEF Whole
  <2>4. buffer' = batch /\ length' = 1 /\ request' = "completed"
    BY <1>1, <1>3, <2>1 DEF Answer
  <2>5. First' = 1 /\ Final' = 1
    BY <2>1, <2>4 DEF First, Final
  <2>6. buffer'[1].n = sent + 1
    BY <1>1, <2>4
  <2>7. FrontEnd' = sent + 1
    BY <2>5, <2>6 DEF FrontEnd
  <2>8. Follows(last', buffer'[1])
    BY <2>3, <2>6 DEF Follows
  <2>9. queue' = <<>> /\ Len(queue') = 0
    BY <1>3, <2>1
  <2>10. QED  BY <1>2, <2>5, <2>7, <2>8, <2>9 DEF Whole, Follows
<1>4. CASE /\ UNCHANGED <<request, buffer, length>>
           /\ queue' \in Seq(Events) /\ queue' # <<>> /\ Len(queue') \in Nat
           /\ queue'[Len(queue')].n = sent + 1
           /\ \/ Len(queue') = 1 /\ queue'[1].kind = "overflow"
              \/ /\ Len(queue') = Len(queue) + 1
                 /\ \A i \in 1..Len(queue) : queue'[i] = queue[i]
  <2>1. UNCHANGED <<First, Final, FrontEnd>>
    BY <1>4 DEF First, Final, FrontEnd
  <2>2. \A i \in First'..Final' :
            Follows(IF i = First' THEN last' ELSE buffer'[i - 1].n, buffer'[i])
    <3>1. \A i \in First..Final :
              Follows(IF i = First THEN last ELSE buffer[i - 1].n, buffer[i])
      BY DEF Whole
    <3>2. UNCHANGED <<First, Final, buffer, last>>
      BY <1>4, <2>1
    <3>3. QED  BY <3>1, <3>2
  <2>3. FrontEnd \in Nat /\ FrontEnd <= sent
    <3>1. /\ event \in Nat /\ eventCount \in 0..Len(buffer) /\ length \in 0..Len(buffer)
          /\ Len(buffer) \in Nat
      BY Numbers DEF TypeOK
    <3>2. First <= Final => Final \in 1..Len(buffer)
      BY <3>1 DEF First, Final
    <3>3. CASE First <= Final
      BY <3>2, <3>3, Numbers DEF FrontEnd, Numbered
    <3>4. CASE ~(First <= Final)
      BY <3>4, Numbers DEF FrontEnd, Numbered
    <3>5. QED  BY <3>3, <3>4
  <2>4. ASSUME NEW i \in 1..Len(queue')
        PROVE  Follows(IF i = 1 THEN FrontEnd ELSE queue'[i - 1].n, queue'[i])
    <3>1. CASE Len(queue') = 1 /\ queue'[1].kind = "overflow"
      <4>1. i = 1 /\ queue'[1].n = sent + 1
        BY <1>4, <3>1
      <4>2. QED  BY <1>2, <2>3, <3>1, <4>1 DEF Follows
    <3>2. CASE /\ Len(queue') = Len(queue) + 1
               /\ \A j \in 1..Len(queue) : queue'[j] = queue[j]
      <4>0. Len(queue) \in Nat
        BY Numbers
      <4>1. CASE i \in 1..Len(queue)
        <5>1. queue'[i] = queue[i] /\ (i # 1 => queue'[i - 1] = queue[i - 1])
          BY <3>2, <4>0, <4>1
        <5>2. Follows(IF i = 1 THEN FrontEnd ELSE queue[i - 1].n, queue[i])
          BY <4>1 DEF Whole
        <5>3. QED  BY <5>1, <5>2
      <4>2. CASE i = Len(queue) + 1
        <5>1. queue'[i].n = sent + 1
          BY <1>4, <3>2, <4>2
        <5>2. (IF i = 1 THEN FrontEnd ELSE queue'[i - 1].n) = sent
          <6>1. CASE Len(queue) = 0
            <7>1. queue = <<>>
              BY <6>1, EmptySeq DEF TypeOK
            <7>2. QED  BY <4>2, <6>1, <7>1 DEF Whole
          <6>2. CASE Len(queue) # 0
            <7>1. queue # <<>>
              BY <6>2
            <7>2. queue'[Len(queue)] = queue[Len(queue)] /\ i - 1 = Len(queue) /\ i # 1
              BY <3>2, <4>0, <4>2, <6>2
            <7>3. QED  BY <7>1, <7>2 DEF Whole
          <6>3. QED  BY <6>1, <6>2
        <5>3. QED  BY <1>2, <5>1, <5>2 DEF Follows
      <4>3. QED  BY <3>2, <4>0, <4>1, <4>2
    <3>3. QED  BY <1>4, <3>1, <3>2
  <2>5. QED  BY <1>2, <1>4, <2>1, <2>2, <2>4 DEF Whole, Follows
<1>5. QED  BY <1>1, <1>3, <1>4, SendingCases

\* An answer of DoGetEvents moves the beginning of the queue to the buffer.
LEMMA BatchWhole ==
    ASSUME TypeOK, Whole, event = 0, request = "posted", queue # <<>>,
           Answer(Batch), queue' = Rest, UNCHANGED <<event, sent, last>>
    PROVE  Whole'
<1>1. /\ Batch \in Seq(Events) /\ Rest \in Seq(Events)
      /\ Len(Batch) \in 1..Len(queue)
      /\ Len(Rest) = Len(queue) - Len(Batch)
      /\ \A i \in 1..Len(Batch) : Batch[i] = queue[i]
      /\ \A i \in 1..Len(Rest) : Rest[i] = queue[i + Len(Batch)]
  BY BatchIsPrefix DEF TypeOK
<1>0. Len(queue) \in Nat
  BY Numbers
<1>2. buffer' = Batch /\ length' = Len(Batch) /\ request' = "completed"
  BY DEF Answer
<1>3. First' = 1 /\ Final' = Len(Batch)
  BY <1>2 DEF First, Final
<1>4. FrontEnd = last
  BY DEF First, Final, FrontEnd
<1>5. FrontEnd' = queue[Len(Batch)].n
  BY <1>0, <1>1, <1>2, <1>3 DEF FrontEnd
<1>6. \A i \in 1..Len(queue) :
          Follows(IF i = 1 THEN last ELSE queue[i - 1].n, queue[i])
  BY <1>4 DEF Whole
<1>7. ASSUME NEW i \in 1..Len(Batch)
      PROVE  Follows(IF i = 1 THEN last' ELSE buffer'[i - 1].n, buffer'[i])
  <2>1. /\ i \in 1..Len(queue) /\ buffer'[i] = queue[i]
        /\ i # 1 => buffer'[i - 1] = queue[i - 1]
    BY <1>0, <1>1, <1>2
  <2>2. QED  BY <1>6, <2>1
<1>8. ASSUME NEW i \in 1..Len(queue')
      PROVE  Follows(IF i = 1 THEN FrontEnd' ELSE queue'[i - 1].n, queue'[i])
  <2> DEFINE j == i + Len(Batch)
  <2>1. /\ j \in 1..Len(queue) /\ j # 1 /\ queue'[i] = queue[j]
        /\ i = 1 => j - 1 = Len(Batch)
        /\ i # 1 => queue'[i - 1] = queue[j - 1]
    <3>1. /\ i \in 1..Len(Rest) /\ Len(Batch) \in Nat \ {0} /\ Len(Rest) \in Nat
          /\ i \in Int /\ Len(Rest) + Len(Batch) = Len(queue)
      BY <1>0, <1>1
    <3>2. j \in 1..Len(queue) /\ j # 1
      BY <1>0, <3>1
    <3>3. queue'[i] = queue[j]
      BY <1>1, <3>1
    <3>4. i = 1 => j - 1 = Len(Batch)
      BY <3>1
    <3>5. ASSUME i # 1 PROVE queue'[i - 1] = queue[j - 1]
      <4>1. i - 1 \in 1..Len(Rest) /\ (i - 1) + Len(Batch) = j - 1
        BY <3>1, <3>5
      <4>2. QED  BY <1>1, <4>1
    <3>6. QED  BY <3>2, <3>3, <3>4, <3>5
  <2> HIDE DEF j
  <2>2. Follows(queue[j - 1].n, queue[j])
    BY <1>6, <2>1
  <2>3. CASE i = 1
    BY <1>5, <2>1, <2>2, <2>3
  <2>4. CASE i # 1
    BY <2>1, <2>2, <2>4
  <2>5. QED  BY <2>3, <2>4
<1>9. sent' = IF queue' = <<>> THEN FrontEnd' ELSE queue'[Len(queue')].n
  <2>1. sent = queue[Len(queue)].n
    BY DEF Whole
  <2>2. CASE queue' = <<>>
    <3>1. Len(Rest) = 0
      BY <2>2
    <3>2. Len(Batch) = Len(queue)
      BY <1>0, <1>1, <3>1
    <3>3. QED  BY <1>5, <2>1, <2>2, <3>2
  <2>3. CASE queue' # <<>>
    <3>1. Len(Rest) \in 1..Len(queue) /\ Len(Rest) + Len(Batch) = Len(queue)
      BY <1>0, <1>1, <2>3, EmptySeq
    <3>2. QED  BY <1>1, <2>1, <2>3, <3>1
  <2>4. QED  BY <2>2, <2>3
<1>10. QED  BY <1>3, <1>7, <1>8, <1>9 DEF Whole, Follows

LEMMA StepWhole ==
    ASSUME TypeOK, TypeOK', Numbered, Running => HandlerShape,
           (Running /\ Sound) => Whole, [Next]_vars, Running', Sound'
    PROVE  Whole'
<1>0. /\ Registrations \in Nat /\ event \in Nat /\ eventCount \in Nat
      /\ First' \in Int /\ Final' \in Int
  <2>1. /\ event \in Nat /\ eventCount \in Nat
        /\ event' \in Nat /\ eventCount' \in Nat /\ length' \in Nat
    BY LenProperties DEF TypeOK
  <2>2. QED  BY <2>1, Counted DEF First, Final
<1>1. CASE UNCHANGED vars
  <2>1. UNCHANGED <<registered, active, event, client, queue, sent, last, buffer,
                    request, length, eventCount>>
    BY <1>1 DEF vars, server, message, runL
  <2>2. Running /\ Sound
    BY <2>1 DEF Running, Sound, Registrations
  <2>3. First' = First /\ Final' = Final
    BY <2>1 DEF First, Final
  <2>4. QED  BY <2>1, <2>2, <2>3, WholeKept
<1>2. SUFFICES ASSUME Next PROVE Whole'
  BY <1>1
<1>3. Running
  BY <1>2 DEF Next, Running, StoreModified, AvailabilityChanges, StoreWiped, DoGetEvents,
           AddObserver, RemoveObserver, ClientCalls, RunL, NotifyNext, EventHandedOut,
           RunLEnds, CloseStore
<1>4. Sound /\ HandlerShape /\ Whole
  BY <1>2, <1>3, SoundBefore
<1>5. ASSUME NEW kind \in Kinds, SendEventToObserver(kind), UNCHANGED runL PROVE Whole'
  BY <1>4, <1>5, SendingWhole DEF runL
<1>6. CASE DoGetEvents
  <2>1. UNCHANGED <<event, sent, last>> /\ request = "posted"
    BY <1>6 DEF DoGetEvents, runL
  <2>2. event = 0
    BY <1>0, <1>4, <2>1 DEF HandlerShape, Sound
  <2>3. CASE request' = "held" /\ UNCHANGED <<buffer, length, queue>>
    <3>1. First' = First /\ Final' = Final
      BY <2>1, <2>2, <2>3 DEF First, Final
    <3>2. QED  BY <1>4, <2>1, <2>3, <3>1, WholeKept
  <2>4. CASE queue # <<>> /\ Answer(Batch) /\ queue' = Rest
    BY <1>4, <2>1, <2>2, <2>4, BatchWhole
  <2>5. QED  BY <1>6, <2>3, <2>4 DEF DoGetEvents
<1>7. ASSUME NEW list \in Lists, NEW o \in Observers, AddObserver(list, o) PROVE Whole'
  <2>1. UNCHANGED <<queue, sent, last, buffer, event, eventCount>>
    BY <1>7 DEF AddObserver, GetEvents, runL, message
  <2>2. CASE Registrations = 0
    <3>1. event = 0 /\ request = "none"
      BY <1>0, <1>4, <2>2 DEF Sound, HandlerShape
    <3>2. request' = "posted"
      BY <1>7, <2>2 DEF AddObserver, GetEvents
    <3>3. First' = First /\ Final' = Final
      BY <2>1, <3>1, <3>2 DEF First, Final
    <3>4. QED  BY <1>4, <2>1, <3>3, WholeKept
  <2>3. CASE Registrations # 0
    <3>1. UNCHANGED <<request, length>>
      BY <1>7, <2>3 DEF AddObserver, message
    <3>2. First' = First /\ Final' = Final
      BY <2>1, <3>1 DEF First, Final
    <3>3. QED  BY <1>4, <2>1, <3>2, WholeKept
  <2>4. QED  BY <2>2, <2>3
<1>8. ASSUME NEW list \in Lists, NEW o \in Observers, RemoveObserver(list, o) PROVE Whole'
  <2>1. UNCHANGED <<sent, buffer, event, eventCount, length>>
    BY <1>8 DEF RemoveObserver
  <2>2. CASE Registrations = 1 /\ active
    <3>1. event = 0
      BY <1>0, <1>4, <2>2 DEF Sound
    <3>2. queue' = <<>> /\ request' = "none" /\ last' = sent
      BY <1>8, <2>2 DEF RemoveObserver, Cancel
    <3>3. First' = 1 /\ Final' = 0 /\ FrontEnd' = sent
      BY <2>1, <3>1, <3>2 DEF First, Final, FrontEnd
    <3>4. Len(queue') = 0
      BY <3>2
    <3>5. QED  BY <2>1, <3>2, <3>3, <3>4 DEF Whole
  <2>3. CASE ~(Registrations = 1 /\ active)
    <3>1. UNCHANGED <<queue, request, last>>
      BY <1>8, <2>3 DEF RemoveObserver, Cancel
    <3>2. First' = First /\ Final' = Final
      BY <2>1, <3>1 DEF First, Final
    <3>3. QED  BY <1>4, <2>1, <3>1, <3>2, WholeKept
  <2>4. QED  BY <2>2, <2>3
<1>9. CASE RunL
  <2>1. UNCHANGED <<queue, sent, last, buffer>>
    BY <1>9 DEF RunL, server
  <2>2. event = 0 /\ request = "completed" /\ event' = 1 /\ eventCount' = length
    BY <1>9 DEF RunL
  <2>3. First' = First /\ Final' = Final
    BY <2>2 DEF First, Final
  <2>4. QED  BY <1>4, <2>1, <2>3, WholeKept
<1>10. CASE NotifyNext
  <2>1. UNCHANGED <<queue, sent, last, buffer, event, eventCount, request, length>>
    BY <1>10 DEF NotifyNext, server, message
  <2>2. First' = First /\ Final' = Final
    BY <2>1 DEF First, Final
  <2>3. QED  BY <1>4, <2>1, <2>2, WholeKept
<1>11. CASE EventHandedOut
  <2>1. /\ UNCHANGED <<queue, sent, buffer>> /\ event' = event + 1
        /\ event \in 1..eventCount /\ eventCount' = eventCount
        /\ last' = buffer[event].n
    BY <1>11 DEF EventHandedOut, server, message
  <2>2. First = event /\ Final = eventCount /\ First' = event + 1 /\ Final' = eventCount
    BY <1>0, <2>1 DEF First, Final
  <2>3. FrontEnd' = FrontEnd
    <3>1. FrontEnd = buffer[eventCount].n
      BY <1>0, <2>1, <2>2 DEF FrontEnd
    <3>2. CASE event = eventCount
      BY <1>0, <2>1, <2>2, <3>1, <3>2 DEF FrontEnd
    <3>3. CASE event # eventCount
      BY <1>0, <2>1, <2>2, <3>1, <3>3 DEF FrontEnd
    <3>4. QED  BY <3>2, <3>3
  <2>4. ASSUME NEW i \in First'..Final'
        PROVE  Follows(IF i = First' THEN last' ELSE buffer'[i - 1].n, buffer'[i])
    <3>1. i \in First..Final /\ i # First /\ (i = First' => i - 1 = event)
      BY <1>0, <2>1, <2>2
    <3>2. Follows(buffer[i - 1].n, buffer[i])
      BY <1>4, <3>1 DEF Whole
    <3>3. QED  BY <2>1, <3>1, <3>2
  <2>5. /\ \A i \in 1..Len(queue) :
               Follows(IF i = 1 THEN FrontEnd ELSE queue[i - 1].n, queue[i])
        /\ sent = IF queue = <<>> THEN FrontEnd ELSE queue[Len(queue)].n
    BY <1>4 DEF Whole
  <2>6. /\ \A i \in 1..Len(queue') :
               Follows(IF i = 1 THEN FrontEnd' ELSE queue'[i - 1].n, queue'[i])
        /\ sent' = IF queue' = <<>> THEN FrontEnd' ELSE queue'[Len(queue')].n
    BY <2>1, <2>3, <2>5
  <2>7. QED  BY <2>4, <2>6 DEF Whole, Follows
<1>12. CASE RunLEnds
  <2>1. /\ UNCHANGED <<queue, sent, last, buffer>> /\ event > 0
        /\ event = eventCount + 1 /\ event' = 0 /\ request' = "posted"
    BY <1>12 DEF RunLEnds, GetEvents, server
  <2>2. ~(First <= Final) /\ ~(First' <= Final')
    BY <1>0, <2>1 DEF First, Final
  <2>3. QED  BY <1>0, <1>4, <2>1, <2>2, WholeKept
<1>13. CASE CloseStore
  BY <1>13 DEF CloseStore, Running
<1>14. CASE \E kind \in WhenObserving : StoreModified(kind)
  BY <1>5, <1>14 DEF StoreModified, WhenObserving, Kinds
<1>15. CASE AvailabilityChanges
  BY <1>5, <1>15 DEF AvailabilityChanges, Kinds
<1>16. CASE StoreWiped
  BY <1>5, <1>16 DEF StoreWiped, Kinds
<1>17. QED
  BY <1>2, <1>6, <1>7, <1>8, <1>9, <1>10, <1>11, <1>12, <1>13, <1>14, <1>15, <1>16 DEF Next

LEMMA InitWhole == Init => Numbered /\ Whole
<1> SUFFICES ASSUME Init PROVE Numbered /\ Whole
  OBVIOUS
<1>1. PICK kind \in Kinds : queue = <<[n |-> 1, kind |-> kind]>>
  BY DEF Init, Kinds
<1>2. Len(queue) = 1 /\ queue[1].n = 1 /\ queue # <<>>
  BY <1>1
<1>3. sent = 1 /\ last = 0 /\ Len(buffer) = 0 /\ event = 0 /\ request = "none"
  BY DEF Init
<1>4. First = 1 /\ Final = 0 /\ FrontEnd = 0
  BY <1>3 DEF First, Final, FrontEnd
<1>5. QED  BY <1>2, <1>3, <1>4 DEF Numbered, Whole, Follows

LEMMA InvAlways == Spec => []Inv
<1>1. Init => Inv
  BY InitTyped, InitShape, InitWhole DEF Inv
<1>2. Inv /\ [Next]_vars => Inv'
  BY StepTyped, StepShape, StepNumbered, StepWhole DEF Inv
<1>3. QED  BY <1>1, <1>2, PTL DEF Spec

\* As long as its observers hear, a client gets every event, in order, or is told of the
\* gap: for any sizes of the queue and of the buffer.
THEOREM LossIsTold == Spec => NoSilentLoss
<1>1. ASSUME Inv, [Next]_vars
      PROVE  [(Listening /\ Undisturbed /\ EventHandedOut)
                => Follows(last, buffer[event])]_vars
  <2>1. SUFFICES ASSUME Listening, Undisturbed, EventHandedOut
                 PROVE  Follows(last, buffer[event])
    OBVIOUS
  <2>2. event \in 1..eventCount /\ event \in Nat /\ eventCount \in Nat
    BY <1>1, <2>1, LenProperties DEF EventHandedOut, Inv, TypeOK
  <2>3. Running /\ Sound
    BY <2>1, <2>2 DEF Listening, Undisturbed, Running, Sound
  <2>4. event \in First..Final /\ First = event
    BY <2>2 DEF First, Final
  <2>5. QED  BY <1>1, <2>3, <2>4 DEF Inv, Whole
<1>2. QED  BY <1>1, InvAlways, PTL DEF Spec, NoSilentLoss
=============================================================================
