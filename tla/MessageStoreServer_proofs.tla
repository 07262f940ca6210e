--------------------- MODULE MessageStoreServer_proofs ---------------------
(* Theorems about the message store server, for every set of sessions and all    *)
(* bounds: who is told what, and that the server implements StoreAvailability.   *)
EXTENDS MessageStoreServer, TLAPS

USE PointSecType, Bounds

\* Only connected sessions have been told something.
ConnectedTold == \A s \in Sessions : s \notin sessions => told[s] = "nothing"

\* A server that does not serve yet, or any more, keeps nothing.
DownIsReset ==
    ~Running => ~open /\ ~lockedByPointSec /\ ~lockedByBackup /\ sessions = {}

\* The inductive invariant.
Inv == /\ TypeOK
       /\ StoreOpenIffUnlocked
       /\ AvailabilityTold
       /\ ObservedOnce
       /\ ConnectedTold
       /\ DownIsReset

-----------------------------------------------------------------------------
(* Type correctness.                                                           *)

LEMMA NoIdsType == NoIds \in [SortIds -> Nat]
BY DEF NoIds

\* The type of the store, of what clients keep, and of the history.
StoreTyped ==
    /\ open \in BOOLEAN
    /\ observing \in [Sessions -> Nat]
    /\ sorts \subseteq [id : SortIds, owner : Sessions]
    /\ nextSort \in Nat

ToldTyped == told \in [Sessions -> {"nothing", "Available", "Unavailable"}]

WipesTyped ==
    wipeAfter \in BOOLEAN /\ content \in BOOLEAN /\ announced \in Nat /\ failures \in Nat

LEMMA NewStoreType == NewStore => StoreTyped'
<1>. SUFFICES ASSUME NewStore PROVE StoreTyped'
    OBVIOUS
<1>1. observing' \in [Sessions -> Nat]
    BY DEF NewStore
<1>. QED BY <1>1 DEF NewStore, StoreTyped

LEMMA TellType ==
    ASSUME ToldTyped, NEW what \in {"Available", "Unavailable"}, Tell(what)
    PROVE  ToldTyped'
BY DEF ToldTyped, Tell

LEMMA LockSystemType ==
    ASSUME StoreTyped, ToldTyped, LockSystem PROVE StoreTyped' /\ ToldTyped'
<1>1. CASE open
    <2>1. observing' \in [Sessions -> Nat] /\ open' = FALSE /\ sorts' = {} /\ nextSort' = 0
        BY <1>1 DEF LockSystem
    <2>2. Tell("Unavailable")
        BY <1>1 DEF LockSystem
    <2>3. ToldTyped'
        BY <2>2, TellType
    <2>. QED BY <2>1, <2>3 DEF StoreTyped
<1>2. CASE ~open
    BY <1>2 DEF LockSystem, store, StoreTyped, ToldTyped
<1>. QED BY <1>1, <1>2 DEF StoreTyped

LEMMA WipedType ==
    ASSUME WipesTyped, Wiped
    PROVE  content' \in BOOLEAN /\ announced' \in Nat /\ failures' \in Nat
<1>1. content' \in BOOLEAN
    BY Zenon DEF WipesTyped, Wiped
<1>2. announced' \in Nat /\ failures' \in Nat
    BY DEF WipesTyped, Wiped
<1>. QED BY <1>1, <1>2

LEMMA UnlockSystemType ==
    ASSUME ToldTyped, WipesTyped, UnlockSystem
    PROVE  StoreTyped' /\ ToldTyped' /\ WipesTyped'
<1>1. StoreTyped' /\ ToldTyped'
    BY NewStoreType, TellType DEF UnlockSystem
<1>2. WipesTyped'
    BY WipedType DEF UnlockSystem, WipesTyped
<1>. QED BY <1>1, <1>2

\* What the end of the process leaves to be typed.
LEMMA ProcessEndsType ==
    ASSUME TypeOK, ProcessEnds, UNCHANGED properties,
           content' \in BOOLEAN, announced' \in Nat, crashes' \in Nat, failures' \in Nat
    PROVE  TypeOK'
<1>1. observing' \in [Sessions -> Nat] /\ told' \in [Sessions -> {"nothing", "Available", "Unavailable"}]
    BY DEF ProcessEnds
<1>2. sortIds' \in [Sessions -> [SortIds -> Nat]] /\ iterators' \in [Sessions -> [SortIds -> Nat]]
    BY NoIdsType DEF ProcessEnds
<1>3. sessions' \subseteq Sessions /\ sorts' \subseteq [id : SortIds, owner : Sessions] /\ nextSort' \in Nat
    BY DEF ProcessEnds
<1>. QED BY <1>1, <1>2, <1>3 DEF ProcessEnds, TypeOK, properties

LEMMA CreationFailsType ==
    ASSUME TypeOK, CreationFails, UNCHANGED properties,
           content' \in BOOLEAN, announced' \in Nat, crashes' \in Nat
    PROVE  TypeOK'
<1>1. failures' \in Nat
    BY DEF CreationFails, TypeOK
<1>. QED BY <1>1, ProcessEndsType DEF CreationFails

LEMMA TypeInit == Init => TypeOK
<1>. SUFFICES ASSUME Init PROVE TypeOK
    OBVIOUS
<1>1. observing \in [Sessions -> Nat] /\ told \in [Sessions -> {"nothing", "Available", "Unavailable"}]
    BY DEF Init
<1>2. sortIds \in [Sessions -> [SortIds -> Nat]] /\ iterators \in [Sessions -> [SortIds -> Nat]]
    BY NoIdsType DEF Init
<1>3. sessions \subseteq Sessions /\ sorts \subseteq [id : SortIds, owner : Sessions] /\ nextSort \in Nat
    BY DEF Init
<1>. QED BY <1>1, <1>2, <1>3 DEF Init, TypeOK

LEMMA TypeStep == TypeOK /\ [Next]_vars => TypeOK'
<1>. SUFFICES ASSUME TypeOK, [Next]_vars PROVE TypeOK'
    OBVIOUS
<1>. USE DEF properties, subs, monitors, locks, clients, history
<1>0. StoreTyped /\ ToldTyped /\ WipesTyped
    BY DEF TypeOK, StoreTyped, ToldTyped, WipesTyped
<1>1. ASSUME NEW status \in PointSecStates, SetPointSec(status) PROVE TypeOK'
    BY <1>1 DEF SetPointSec, Signalled, TypeOK, store
<1>2. ASSUME NEW b \in BOOLEAN, SetBackup(b) PROVE TypeOK'
    BY <1>2 DEF SetBackup, Signalled, TypeOK, store
<1>3. CASE Boot
    BY <1>3 DEF Boot, UpdatedStatus, TypeOK, store
<1>4. CASE BootSubscribes
    <2>1. StoreTyped' /\ lockedByPointSec' \in BOOLEAN
        BY <1>0, <1>4, NewStoreType DEF BootSubscribes, TypeOK, StoreTyped, store
    <2>. QED BY <1>4, <2>1 DEF BootSubscribes, StoreTyped, TypeOK
<1>5. CASE BootFails
    BY <1>5, CreationFailsType DEF BootFails, TypeOK
<1>6. CASE PointSecRunL
    <2>1. serviceAllowed' \in BOOLEAN
        BY <1>6 DEF PointSecRunL, UpdatedStatus, TypeOK
    <2>2. CASE UNCHANGED <<locks, store, told, wipeAfter, content, announced, failures>>
        BY <1>6, <2>1, <2>2 DEF PointSecRunL, TypeOK, store
    <2>3. CASE PointSecUnlocks
        <3>1. StoreTyped' /\ ToldTyped' /\ WipesTyped'
            BY <1>0, <2>3, UnlockSystemType
               DEF PointSecUnlocks, StoreTyped, ToldTyped, WipesTyped, store
        <3>2. UNCHANGED <<properties, sessions, sortIds, iterators, crashes, backupSub, inProgress>>
            BY <1>6 DEF PointSecRunL
        <3>3. /\ lockedByPointSec' = FALSE /\ lockedByBackup' = lockedByBackup
              /\ pointsecSub' = "none" /\ thread' = "pointsec"
            BY <1>6, <2>3 DEF PointSecUnlocks, PointSecRunL
        <3>. QED BY <2>1, <3>1, <3>2, <3>3 DEF StoreTyped, ToldTyped, WipesTyped, TypeOK
    <2>4. CASE PointSecLocks
        <3>1. StoreTyped' /\ ToldTyped'
            BY <1>0, <2>4, LockSystemType DEF PointSecLocks, StoreTyped, ToldTyped, store
        <3>2. UNCHANGED <<properties, sessions, sortIds, iterators, crashes, backupSub, inProgress>>
            BY <1>6 DEF PointSecRunL
        <3>3. /\ lockedByPointSec' = TRUE /\ lockedByBackup' = lockedByBackup
              /\ pointsecSub' = "none" /\ thread' = "pointsec"
              /\ UNCHANGED <<wipeAfter, content, announced, failures>>
            BY <1>6, <2>4 DEF PointSecLocks, PointSecRunL
        <3>. QED BY <2>1, <3>1, <3>2, <3>3 DEF StoreTyped, ToldTyped, TypeOK
    <2>. QED BY <1>6, <2>2, <2>3, <2>4 DEF PointSecRunL
<1>7. CASE PointSecRunLFails
    <2>1. content' \in BOOLEAN
        BY Zenon, <1>7 DEF PointSecRunLFails, UnlockFails, TypeOK
    <2>2. announced' \in {announced, announced + 1} /\ crashes' = crashes
        BY Zenon, <1>7 DEF PointSecRunLFails, UnlockFails
    <2>3. announced' \in Nat /\ crashes' \in Nat
        BY <2>2 DEF TypeOK
    <2>. QED BY <1>7, <2>1, <2>3, CreationFailsType DEF PointSecRunLFails, UnlockFails
<1>8. CASE PointSecSubscribes
    BY <1>8 DEF PointSecSubscribes, TypeOK, store
<1>9. CASE BackupSubscribes
    BY <1>9 DEF BackupSubscribes, TypeOK, store
<1>10. CASE ProcessEvent
    <2>1. inProgress' \in BOOLEAN
        BY <1>10 DEF ProcessEvent, TypeOK
    <2>2. UNCHANGED <<properties, subs, serviceAllowed, lockedByPointSec, sessions, sortIds,
                      iterators, crashes>> /\ thread' = "idle"
        BY <1>10 DEF ProcessEvent
    <2>3. CASE BackupLocks
        <3>1. StoreTyped' /\ ToldTyped'
            BY <1>0, <2>3, LockSystemType DEF BackupLocks, StoreTyped, ToldTyped, store
        <3>. QED BY <2>1, <2>2, <2>3, <3>1 DEF BackupLocks, StoreTyped, ToldTyped, TypeOK
    <2>4. CASE BackupUnlocks
        <3>1. StoreTyped' /\ ToldTyped' /\ WipesTyped'
            BY <1>0, <2>4, UnlockSystemType
               DEF BackupUnlocks, StoreTyped, ToldTyped, WipesTyped, store
        <3>2. lockedByBackup' = FALSE
            BY <2>4 DEF BackupUnlocks
        <3>. QED BY <2>1, <2>2, <3>1, <3>2 DEF StoreTyped, ToldTyped, WipesTyped, TypeOK
    <2>5. CASE UNCHANGED <<lockedByBackup, store, told, wipeAfter, content, announced, failures>>
        BY <2>1, <2>2, <2>5 DEF TypeOK, store
    <2>. QED BY <1>10, <2>3, <2>4, <2>5 DEF ProcessEvent
<1>11. CASE ProcessEventFails
    <2>1. content' \in BOOLEAN
        BY Zenon, <1>11 DEF ProcessEventFails, UnlockFails, TypeOK
    <2>2. announced' \in {announced, announced + 1} /\ crashes' = crashes
        BY Zenon, <1>11 DEF ProcessEventFails, UnlockFails
    <2>3. announced' \in Nat /\ crashes' \in Nat
        BY <2>2 DEF TypeOK
    <2>. QED BY <1>11, <2>1, <2>3, CreationFailsType DEF ProcessEventFails, UnlockFails
<1>12. ASSUME NEW s \in Sessions, Connect(s) PROVE TypeOK'
    BY <1>12 DEF Connect, AddSession, TypeOK
<1>13. ASSUME NEW s \in Sessions, Disconnect(s) PROVE TypeOK'
    <2>1. sortIds' \in [Sessions -> [SortIds -> Nat]] /\ iterators' \in [Sessions -> [SortIds -> Nat]]
        BY <1>13, NoIdsType DEF Disconnect, TypeOK
    <2>2. observing' \in [Sessions -> Nat] /\ told' \in [Sessions -> {"nothing", "Available", "Unavailable"}]
        BY <1>13 DEF Disconnect, TypeOK
    <2>3. sessions' \subseteq Sessions /\ sorts' \subseteq [id : SortIds, owner : Sessions]
        BY <1>13 DEF Disconnect, SortsLeft, TypeOK
    <2>. QED BY <1>13, <2>1, <2>2, <2>3 DEF Disconnect, TypeOK
<1>14. ASSUME NEW s \in Sessions, StartSorting(s) PROVE TypeOK'
    <2>1. sortIds' \in [Sessions -> [SortIds -> Nat]] /\ iterators' \in [Sessions -> [SortIds -> Nat]]
        BY <1>14 DEF StartSorting, TypeOK
    <2>2. sorts' \subseteq [id : SortIds, owner : Sessions] /\ nextSort' \in Nat
        BY <1>14 DEF StartSorting, TypeOK
    <2>. QED BY <1>14, <2>1, <2>2 DEF StartSorting, TypeOK
<1>15. ASSUME NEW s \in Sessions, NEW id \in SortIds, EndSorting(s, id) PROVE TypeOK'
    <2>1. iterators' \in [Sessions -> [SortIds -> Nat]]
        BY <1>15 DEF EndSorting, TypeOK
    <2>2. sortIds' \in [Sessions -> [SortIds -> Nat]]
        BY <1>15 DEF EndSorting, TypeOK
    <2>3. sorts' \subseteq [id : SortIds, owner : Sessions]
        BY <1>15 DEF EndSorting, TypeOK
    <2>. QED BY <1>15, <2>1, <2>2, <2>3 DEF EndSorting, TypeOK
<1>16. ASSUME NEW s \in Sessions, StoreContent(s) PROVE TypeOK'
    BY <1>16 DEF StoreContent, TypeOK, store
<1>17. ASSUME NEW s \in Sessions, WipeEverything(s) PROVE TypeOK'
    <2>1. StoreTyped' /\ WipesTyped'
        BY <1>0, <1>17, NewStoreType, WipedType DEF WipeEverything, StoreTyped, WipesTyped, store
    <2>. QED BY <1>17, <2>1 DEF WipeEverything, StoreTyped, WipesTyped, TypeOK
<1>18. ASSUME NEW s \in Sessions, WipeEverythingFails(s) PROVE TypeOK'
    <2>1. content' \in BOOLEAN
        BY Zenon, <1>18 DEF WipeEverythingFails, TypeOK
    <2>2. announced' \in Nat /\ crashes' \in Nat
        BY <1>18 DEF WipeEverythingFails, TypeOK
    <2>. QED BY <1>18, <2>1, <2>2, CreationFailsType DEF WipeEverythingFails
<1>19. CASE Crash
    <2>1. /\ content' \in BOOLEAN /\ announced' \in Nat
          /\ crashes' \in Nat /\ failures' \in Nat
        BY <1>19 DEF Crash, TypeOK
    <2>. QED BY <1>19, <2>1, ProcessEndsType DEF Crash
<1>20. CASE UNCHANGED vars
    BY <1>20 DEF vars, TypeOK, store
<1>. QED BY <1>1, <1>2, <1>3, <1>4, <1>5, <1>6, <1>7, <1>8, <1>9, <1>10, <1>11, <1>12,
            <1>13, <1>14, <1>15, <1>16, <1>17, <1>18, <1>19, <1>20 DEF Next

\* Every variable keeps its type, whatever is set, fails or crashes and when.
THEOREM TypeCorrect == Spec => []TypeOK
BY TypeInit, TypeStep, PTL DEF Spec

-----------------------------------------------------------------------------
(* The store is open when nobody locks it, sessions know and observe it.       *)

\* What the invariant says besides the types.
Agreement ==
    /\ StoreOpenIffUnlocked
    /\ AvailabilityTold
    /\ ObservedOnce
    /\ ConnectedTold
    /\ DownIsReset

LEMMA InvIsTypedAgreement == Inv <=> TypeOK /\ Agreement
BY DEF Inv, Agreement

\* A new store, announced once no lock is left.
LEMMA OpeningAgrees ==
    ASSUME Inv, NewStore, Tell("Available"), UNCHANGED sessions,
           Running', ~lockedByPointSec', ~lockedByBackup'
    PROVE  Agreement'
<1>1. /\ open' = TRUE /\ sessions' = sessions
      /\ observing' = [s \in Sessions |-> IF s \in sessions THEN 1 ELSE 0]
    BY DEF NewStore
<1>2. told' = [s \in Sessions |-> IF s \in sessions THEN "Available" ELSE told[s]]
    BY DEF Tell
<1>3. StoreOpenIffUnlocked'
    BY <1>1 DEF StoreOpenIffUnlocked, Locked
<1>4. AvailabilityTold' /\ ConnectedTold'
    BY <1>1, <1>2 DEF AvailabilityTold, ConnectedTold, Inv, TypeOK
<1>5. ObservedOnce'
    BY <1>1 DEF ObservedOnce
<1>. QED BY <1>3, <1>4, <1>5 DEF Agreement, DownIsReset

\* A lock, whether it closes the store or finds it closed.
LEMMA LockingAgrees ==
    ASSUME Inv, LockSystem, UNCHANGED sessions, Running', lockedByPointSec' \/ lockedByBackup'
    PROVE  Agreement'
<1>1. open' = FALSE
    BY DEF LockSystem, store, Inv, TypeOK
<1>2. AvailabilityTold' /\ ConnectedTold'
    <2>1. CASE open
        <3>1. told' = [s \in Sessions |-> IF s \in sessions THEN "Unavailable" ELSE told[s]]
            BY <2>1 DEF LockSystem, Tell
        <3>. QED BY <1>1, <3>1 DEF AvailabilityTold, ConnectedTold, Inv, TypeOK
    <2>2. CASE ~open
        BY <1>1, <2>2 DEF LockSystem, AvailabilityTold, ConnectedTold, Inv
    <2>. QED BY <2>1, <2>2
<1>3. StoreOpenIffUnlocked' /\ ObservedOnce' /\ DownIsReset'
    BY <1>1 DEF StoreOpenIffUnlocked, Locked, ObservedOnce, DownIsReset
<1>. QED BY <1>2, <1>3 DEF Agreement

LEMMA EndingAgrees == ASSUME ProcessEnds PROVE Agreement'
<1>1. AvailabilityTold' /\ ConnectedTold'
    BY DEF ProcessEnds, AvailabilityTold, ConnectedTold
<1>2. StoreOpenIffUnlocked' /\ ObservedOnce' /\ DownIsReset'
    BY DEF ProcessEnds, StoreOpenIffUnlocked, Locked, ObservedOnce, DownIsReset, Running
<1>. QED BY <1>1, <1>2 DEF Agreement

\* Steps that leave the store, the locks and the sessions alone.
LEMMA NothingToAgree ==
    ASSUME Inv, Running' <=> Running, UNCHANGED <<open, observing, told, sessions>>,
           lockedByPointSec' <=> lockedByPointSec, lockedByBackup' <=> lockedByBackup
    PROVE  Agreement'
<1>1. StoreOpenIffUnlocked' /\ DownIsReset'
    BY DEF Inv, StoreOpenIffUnlocked, Locked, DownIsReset
<1>2. AvailabilityTold' /\ ConnectedTold' /\ ObservedOnce'
    BY DEF Inv, AvailabilityTold, ConnectedTold, ObservedOnce
<1>. QED BY <1>1, <1>2 DEF Agreement

LEMMA PointSecAgrees ==
    ASSUME Inv, UNCHANGED sessions, Running, Running', PointSecLocks \/ PointSecUnlocks
    PROVE  Agreement'
<1>. USE DEF store
<1>1. CASE PointSecLocks /\ lockedByPointSec
    BY <1>1, NothingToAgree DEF PointSecLocks
<1>2. CASE PointSecLocks /\ ~lockedByPointSec
    BY <1>2, LockingAgrees DEF PointSecLocks
<1>3. CASE PointSecUnlocks /\ lockedByPointSec /\ ~lockedByBackup
    BY <1>3, OpeningAgrees DEF PointSecUnlocks, UnlockSystem
<1>4. CASE PointSecUnlocks /\ ~lockedByPointSec
    BY <1>4, NothingToAgree DEF PointSecUnlocks
<1>5. CASE PointSecUnlocks /\ lockedByPointSec /\ lockedByBackup
    <2>1. UNCHANGED <<open, observing, told, sessions, lockedByBackup>> /\ ~open
        BY <1>5 DEF PointSecUnlocks, Inv, StoreOpenIffUnlocked, Locked
    <2>2. StoreOpenIffUnlocked' /\ DownIsReset' /\ ObservedOnce'
        BY <1>5, <2>1 DEF StoreOpenIffUnlocked, Locked, DownIsReset, ObservedOnce
    <2>3. AvailabilityTold' /\ ConnectedTold'
        BY <2>1 DEF Inv, AvailabilityTold, ConnectedTold
    <2>. QED BY <2>2, <2>3 DEF Agreement
<1>. QED BY <1>1, <1>2, <1>3, <1>4, <1>5

LEMMA BackupAgrees ==
    ASSUME Inv, UNCHANGED <<sessions, lockedByPointSec>>, Running, Running', BackupLocks \/ BackupUnlocks
    PROVE  Agreement'
<1>. USE DEF store
<1>1. CASE BackupLocks /\ lockedByBackup
    BY <1>1, NothingToAgree DEF BackupLocks
<1>2. CASE BackupLocks /\ ~lockedByBackup
    BY <1>2, LockingAgrees DEF BackupLocks
<1>3. CASE BackupUnlocks /\ lockedByBackup /\ ~lockedByPointSec
    BY <1>3, OpeningAgrees DEF BackupUnlocks, UnlockSystem
<1>4. CASE BackupUnlocks /\ ~lockedByBackup
    BY <1>4, NothingToAgree DEF BackupUnlocks
<1>5. CASE BackupUnlocks /\ lockedByBackup /\ lockedByPointSec
    <2>1. UNCHANGED <<open, observing, told, sessions, lockedByPointSec>> /\ ~open
        BY <1>5 DEF BackupUnlocks, Inv, StoreOpenIffUnlocked, Locked
    <2>2. StoreOpenIffUnlocked' /\ DownIsReset' /\ ObservedOnce'
        BY <1>5, <2>1 DEF StoreOpenIffUnlocked, Locked, DownIsReset, ObservedOnce
    <2>3. AvailabilityTold' /\ ConnectedTold'
        BY <2>1 DEF Inv, AvailabilityTold, ConnectedTold
    <2>. QED BY <2>2, <2>3 DEF Agreement
<1>. QED BY <1>1, <1>2, <1>3, <1>4, <1>5

\* Where the thread is, in steps that do not end the process.
LEMMA Serving ==
    /\ Free => Running
    /\ thread \in {"idle", "pointsec", "backup"} => Running
    /\ thread' \in {"idle", "pointsec", "backup"} => Running'
    /\ thread' = thread => (Running' <=> Running)
    /\ thread' = "booting" => ~Running'
    /\ thread \in {"down", "booting"} => ~Running
BY DEF Free, Running

LEMMA BootAgrees ==
    ASSUME Inv, BootSubscribes PROVE Agreement'
<1>1. /\ ~open /\ ~lockedByPointSec /\ ~lockedByBackup /\ sessions = {}
      /\ sessions' = sessions /\ told' = told /\ lockedByBackup' = lockedByBackup /\ Running'
    BY Serving DEF BootSubscribes, Inv, DownIsReset, clients
<1>2. AvailabilityTold' /\ ConnectedTold' /\ DownIsReset'
    BY <1>1 DEF Inv, AvailabilityTold, ConnectedTold, DownIsReset
<1>3. CASE serviceAllowed
    <2>1. /\ open' = TRUE /\ lockedByPointSec' = lockedByPointSec
          /\ observing' = [s \in Sessions |-> IF s \in sessions THEN 1 ELSE 0]
        BY <1>3 DEF BootSubscribes, NewStore
    <2>2. ObservedOnce'
        BY <1>1, <2>1 DEF ObservedOnce
    <2>3. StoreOpenIffUnlocked'
        BY <1>1, <2>1 DEF StoreOpenIffUnlocked, Locked
    <2>. QED BY <1>2, <2>2, <2>3 DEF Agreement
<1>4. CASE ~serviceAllowed
    <2>1. open' = open /\ lockedByPointSec' = TRUE
        BY <1>4 DEF BootSubscribes, store
    <2>2. ObservedOnce' /\ StoreOpenIffUnlocked'
        BY <1>1, <2>1 DEF ObservedOnce, StoreOpenIffUnlocked, Locked
    <2>. QED BY <1>2, <2>2 DEF Agreement
<1>. QED BY <1>3, <1>4

LEMMA ConnectAgrees ==
    ASSUME Inv, NEW s \in Sessions, Connect(s) PROVE Agreement'
<1>1. /\ Running /\ Running' /\ open' = open /\ (open <=> ~Locked)
      /\ lockedByPointSec' = lockedByPointSec /\ lockedByBackup' = lockedByBackup
      /\ s \notin sessions /\ sessions' = sessions \cup {s}
    BY Serving DEF Connect, AddSession, Inv, StoreOpenIffUnlocked, locks
<1>2. /\ told' = [told EXCEPT ![s] = IF Locked THEN "Unavailable" ELSE "Available"]
      /\ observing' = [observing EXCEPT ![s] = IF open THEN @ + 1 ELSE @]
    BY DEF Connect, AddSession
<1>3. AvailabilityTold'
    BY <1>1, <1>2 DEF AvailabilityTold, Inv, TypeOK
<1>4. ConnectedTold'
    BY <1>1, <1>2 DEF ConnectedTold, Inv, TypeOK
<1>5. ObservedOnce'
    BY <1>1, <1>2 DEF ObservedOnce, Inv, TypeOK
<1>6. StoreOpenIffUnlocked' /\ DownIsReset'
    BY <1>1 DEF StoreOpenIffUnlocked, DownIsReset, Locked
<1>. QED BY <1>3, <1>4, <1>5, <1>6 DEF Agreement

LEMMA DisconnectAgrees ==
    ASSUME Inv, NEW s \in Sessions, Disconnect(s) PROVE Agreement'
<1>1. /\ Running /\ Running' /\ open' = open
      /\ lockedByPointSec' = lockedByPointSec /\ lockedByBackup' = lockedByBackup
      /\ s \in sessions /\ sessions' = sessions \ {s}
    BY Serving DEF Disconnect, locks
<1>2. /\ told' = [told EXCEPT ![s] = "nothing"]
      /\ observing' = [observing EXCEPT ![s] = IF open /\ @ > 0 THEN @ - 1 ELSE @]
    BY DEF Disconnect
<1>3. AvailabilityTold'
    BY <1>1, <1>2 DEF AvailabilityTold, Inv, TypeOK
<1>4. ConnectedTold'
    BY <1>1, <1>2 DEF ConnectedTold, Inv, TypeOK
<1>5. ObservedOnce'
    BY <1>1, <1>2 DEF ObservedOnce, Inv, TypeOK
<1>6. StoreOpenIffUnlocked' /\ DownIsReset'
    BY <1>1 DEF StoreOpenIffUnlocked, DownIsReset, Locked, Inv
<1>. QED BY <1>3, <1>4, <1>5, <1>6 DEF Agreement

LEMMA WipeAgrees ==
    ASSUME Inv, NEW s \in Sessions, WipeEverything(s) PROVE Agreement'
<1>1. /\ (Running' <=> Running) /\ told' = told /\ sessions' = sessions
      /\ lockedByPointSec' = lockedByPointSec /\ lockedByBackup' = lockedByBackup
    BY Serving DEF WipeEverything, locks, clients
<1>2. CASE ~open
    BY <1>1, <1>2, NothingToAgree DEF WipeEverything, store
<1>3. CASE open
    <2>1. /\ open' = TRUE
          /\ observing' = [x \in Sessions |-> IF x \in sessions THEN 1 ELSE 0]
        BY <1>3 DEF WipeEverything, NewStore
    <2>2. ObservedOnce'
        BY <1>1, <2>1 DEF ObservedOnce
    <2>3. StoreOpenIffUnlocked' /\ AvailabilityTold' /\ ConnectedTold' /\ DownIsReset'
        BY <1>1, <1>3, <2>1
           DEF Inv, StoreOpenIffUnlocked, Locked, AvailabilityTold, ConnectedTold, DownIsReset
    <2>. QED BY <2>2, <2>3 DEF Agreement
<1>. QED BY <1>2, <1>3

LEMMA InvInit == Init => Inv
<1>. SUFFICES ASSUME Init PROVE Inv
    OBVIOUS
<1>1. /\ StoreOpenIffUnlocked /\ AvailabilityTold /\ ObservedOnce
      /\ ConnectedTold /\ DownIsReset
    BY DEF Init, StoreOpenIffUnlocked, AvailabilityTold, ObservedOnce, ConnectedTold,
        DownIsReset, Running
<1>. QED BY <1>1, TypeInit DEF Inv

LEMMA InvStep == Inv /\ [Next]_vars => Inv'
<1>. SUFFICES ASSUME Inv, [Next]_vars PROVE Inv'
    OBVIOUS
<1>. SUFFICES Agreement'
    BY TypeStep DEF Inv, Agreement
<1>. USE DEF locks, clients, store
<1>1. ASSUME NEW status \in PointSecStates, SetPointSec(status) PROVE Agreement'
    BY <1>1, Serving, NothingToAgree DEF SetPointSec
<1>2. ASSUME NEW b \in BOOLEAN, SetBackup(b) PROVE Agreement'
    BY <1>2, Serving, NothingToAgree DEF SetBackup
<1>3. CASE Boot
    BY <1>3, Serving, NothingToAgree DEF Boot
<1>4. CASE BootSubscribes
    BY <1>4, BootAgrees
<1>5. CASE PointSecRunL
    <2>1. Running /\ Running' /\ sessions' = sessions
        BY <1>5, Serving DEF PointSecRunL
    <2>2. \/ PointSecLocks \/ PointSecUnlocks
          \/ UNCHANGED <<locks, store, told, wipeAfter, content, announced, failures>>
        BY <1>5 DEF PointSecRunL
    <2>. QED BY <2>1, <2>2, PointSecAgrees, NothingToAgree
<1>6. CASE ProcessEvent
    <2>1. Running /\ Running' /\ sessions' = sessions /\ lockedByPointSec' = lockedByPointSec
        BY <1>6, Serving DEF ProcessEvent
    <2>2. \/ BackupLocks \/ BackupUnlocks
          \/ UNCHANGED <<lockedByBackup, store, told, wipeAfter, content, announced, failures>>
        BY <1>6 DEF ProcessEvent
    <2>. QED BY <2>1, <2>2, BackupAgrees, NothingToAgree
<1>7. CASE PointSecSubscribes
    BY <1>7, Serving, NothingToAgree DEF PointSecSubscribes
<1>8. CASE BackupSubscribes
    BY <1>8, Serving, NothingToAgree DEF BackupSubscribes
<1>9. CASE BootFails \/ PointSecRunLFails \/ ProcessEventFails \/ Crash
    BY <1>9, EndingAgrees
       DEF BootFails, PointSecRunLFails, ProcessEventFails, UnlockFails, CreationFails, Crash
<1>10. ASSUME NEW s \in Sessions, WipeEverythingFails(s) PROVE Agreement'
    BY <1>10, EndingAgrees DEF WipeEverythingFails, CreationFails
<1>11. ASSUME NEW s \in Sessions, Connect(s) PROVE Agreement'
    BY <1>11, ConnectAgrees
<1>12. ASSUME NEW s \in Sessions, Disconnect(s) PROVE Agreement'
    BY <1>12, DisconnectAgrees
<1>13. ASSUME NEW s \in Sessions, StartSorting(s) PROVE Agreement'
    BY <1>13, Serving, NothingToAgree DEF StartSorting
<1>14. ASSUME NEW s \in Sessions, NEW id \in SortIds, EndSorting(s, id) PROVE Agreement'
    BY <1>14, Serving, NothingToAgree DEF EndSorting
<1>15. ASSUME NEW s \in Sessions, StoreContent(s) PROVE Agreement'
    BY <1>15, Serving, NothingToAgree DEF StoreContent
<1>16. ASSUME NEW s \in Sessions, WipeEverything(s) PROVE Agreement'
    BY <1>16, WipeAgrees
<1>17. CASE UNCHANGED vars
    BY <1>17, Serving, NothingToAgree DEF vars
<1>. QED BY <1>1, <1>2, <1>3, <1>4, <1>5, <1>6, <1>7, <1>8, <1>9, <1>10, <1>11, <1>12,
            <1>13, <1>14, <1>15, <1>16, <1>17 DEF Next

LEMMA Invariance == Spec => []Inv
BY InvInit, InvStep, PTL DEF Spec

\* In whatever order PointSec and backups lock and unlock a running server, its
\* store is open exactly when neither locks it.
THEOREM OpenIffUnlocked == Spec => []StoreOpenIffUnlocked
<1>1. Inv => StoreOpenIffUnlocked
    BY DEF Inv
<1>. QED BY <1>1, Invariance, PTL

\* Every connected session was last told whether the store is available.
THEOREM SessionsKnow == Spec => []AvailabilityTold
<1>1. Inv => AvailabilityTold
    BY DEF Inv
<1>. QED BY <1>1, Invariance, PTL

\* Every connected session observes an open store, once, and no other does.
THEOREM SessionsObserve == Spec => []ObservedOnce
<1>1. Inv => ObservedOnce
    BY DEF Inv
<1>. QED BY <1>1, Invariance, PTL

-----------------------------------------------------------------------------
(* The server implements StoreAvailability.                                    *)

\* The reasons that hold the store, as the refinement maps them.
Held == (IF lockedByPointSec THEN {"pointsec"} ELSE {}) \cup
        (IF lockedByBackup THEN {"backup"} ELSE {})

\* What a step is to the abstract specification.
AbstractStep == Availability!Next \/ UNCHANGED Availability!avars

LEMMA StutterImplements ==
    ASSUME Running' <=> Running, UNCHANGED <<open, told>>,
           lockedByPointSec' <=> lockedByPointSec, lockedByBackup' <=> lockedByBackup
    PROVE  AbstractStep
BY DEF AbstractStep, Availability!avars, Running

\* Before it serves, the server is what the abstract one is before it starts.
LEMMA DownIsStopped ==
    ASSUME Inv, ~Running PROVE Held = {} /\ told = [s \in Sessions |-> "nothing"] /\ ~open
<1>1. ~open /\ ~lockedByPointSec /\ ~lockedByBackup /\ sessions = {}
    BY DEF Inv, DownIsReset
<1>2. told = [s \in Sessions |-> "nothing"]
    BY <1>1 DEF Inv, ConnectedTold, TypeOK
<1>. QED BY <1>1, <1>2 DEF Held

LEMMA BootImplements ==
    ASSUME Inv, Inv', BootSubscribes PROVE AbstractStep
<1>1. ~Running /\ Running' /\ told' = told
    BY Serving DEF BootSubscribes, clients
<1>2. Held' \in SUBSET {"pointsec", "backup"} /\ (open' <=> Held' = {})
    BY <1>1 DEF Inv, StoreOpenIffUnlocked, Locked, Held
<1>3. open' = (Held' = {})
    BY <1>2 DEF Inv, TypeOK
<1>. QED BY <1>1, <1>2, <1>3 DEF AbstractStep, Availability!Next, Availability!Start, Held

LEMMA EndImplements ==
    ASSUME Inv, ProcessEnds PROVE AbstractStep
<1>1. /\ ~Running' /\ Held' = {} /\ open' = FALSE
      /\ told' = [s \in Sessions |-> "nothing"]
    BY DEF ProcessEnds, Running, Held
<1>2. CASE Running
    BY <1>1, <1>2 DEF AbstractStep, Availability!Next, Availability!Stop, Held
<1>3. CASE ~Running
    <2>1. told' = told /\ open' = open
        BY <1>1, <1>3, DownIsStopped DEF Inv, TypeOK
    <2>2. /\ ~lockedByPointSec /\ ~lockedByBackup
          /\ ~lockedByPointSec' /\ ~lockedByBackup'
        BY <1>3 DEF Inv, DownIsReset, ProcessEnds
    <2>. QED BY <1>1, <1>3, <2>1, <2>2, StutterImplements
<1>. QED BY <1>2, <1>3

\* What clients are told agrees with what the abstract server tells.
LEMMA TellImplements ==
    ASSUME Inv, NEW what \in {"Available", "Unavailable"}, Tell(what)
    PROVE  told' = [s \in Sessions |-> IF told[s] = "nothing" THEN "nothing" ELSE what]
<1>1. \A s \in Sessions : s \in sessions <=> told[s] # "nothing"
    BY DEF Inv, AvailabilityTold, ConnectedTold
<1>. QED BY <1>1 DEF Tell

\* A lock is announced to those who need to know, or was announced before.
LEMMA LockingTells ==
    ASSUME Inv, Running, LockSystem
    PROVE  /\ open' = FALSE
           /\ told' = [s \in Sessions |-> IF told[s] = "nothing" THEN "nothing" ELSE "Unavailable"]
<1>1. open' = FALSE
    BY DEF LockSystem, store, Inv, TypeOK
<1>2. CASE open
    BY <1>1, <1>2, TellImplements DEF LockSystem
<1>3. CASE ~open
    <2>1. told' = told
        BY <1>3 DEF LockSystem
    <2>2. \A s \in Sessions : told[s] = IF told[s] = "nothing" THEN "nothing" ELSE "Unavailable"
        BY <1>3 DEF Inv, AvailabilityTold, ConnectedTold
    <2>3. told = [s \in Sessions |-> told[s]]
        BY DEF Inv, TypeOK
    <2>. QED BY <1>1, <2>1, <2>2, <2>3
<1>. QED BY <1>2, <1>3

\* The last release opens the store and tells so; another is not told.
LEMMA ReleaseTells ==
    ASSUME Inv, Inv', Running, Running', Locked, UNCHANGED sessions,
           IF ~lockedByPointSec' /\ ~lockedByBackup'
           THEN UnlockSystem ELSE UNCHANGED <<store, told>>
    PROVE  /\ open' = (Held' = {})
           /\ told' = [s \in Sessions |-> IF told[s] = "nothing" THEN "nothing"
                                         ELSE IF open' THEN "Available" ELSE "Unavailable"]
<1>1. open' = (Held' = {})
    BY DEF Held, Inv, StoreOpenIffUnlocked, Locked, TypeOK
<1>2. CASE ~lockedByPointSec' /\ ~lockedByBackup'
    <2>1. Tell("Available") /\ open'
        BY <1>2 DEF UnlockSystem, NewStore
    <2>. QED BY <1>1, <2>1, TellImplements
<1>3. CASE ~(~lockedByPointSec' /\ ~lockedByBackup')
    <2>1. told' = told /\ ~open /\ ~open'
        BY <1>3 DEF Inv, StoreOpenIffUnlocked, Locked
    <2>2. \A s \in Sessions : told[s] = IF told[s] = "nothing" THEN "nothing" ELSE "Unavailable"
        BY <2>1 DEF Inv, AvailabilityTold, ConnectedTold
    <2>3. told = [s \in Sessions |-> told[s]]
        BY DEF Inv, TypeOK
    <2>. QED BY <1>1, <2>1, <2>2, <2>3
<1>. QED BY <1>2, <1>3

LEMMA HoldImplements ==
    ASSUME NEW r \in {"pointsec", "backup"}, Running, Running',
           r \notin Held, Held' = Held \cup {r}, open' = FALSE,
           told' = [s \in Sessions |-> IF told[s] = "nothing" THEN "nothing" ELSE "Unavailable"]
    PROVE  AbstractStep
<1>1. Running' = Running
    BY DEF Running
<1>2. Availability!Hold(r)
    BY <1>1 DEF Held, Availability!Hold, Availability!TellAll, Availability!Word
<1>. QED BY <1>2 DEF AbstractStep, Availability!Next

LEMMA ReleaseImplements ==
    ASSUME NEW r \in {"pointsec", "backup"}, Running, Running',
           r \in Held, Held' = Held \ {r}, open' = (Held' = {}),
           told' = [s \in Sessions |-> IF told[s] = "nothing" THEN "nothing"
                                      ELSE IF open' THEN "Available" ELSE "Unavailable"]
    PROVE  AbstractStep
<1>1. Running' = Running
    BY DEF Running
<1>2. Availability!Release(r)
    BY <1>1 DEF Held, Availability!Release, Availability!TellAll, Availability!Word
<1>. QED BY <1>2 DEF AbstractStep, Availability!Next

LEMMA PointSecImplements ==
    ASSUME Inv, Inv', UNCHANGED sessions, Running, Running', PointSecLocks \/ PointSecUnlocks
    PROVE  AbstractStep
<1>. USE DEF store
<1>1. CASE PointSecLocks /\ lockedByPointSec
    BY <1>1, StutterImplements DEF PointSecLocks
<1>2. CASE PointSecLocks /\ ~lockedByPointSec
    <2>1. "pointsec" \notin Held /\ Held' = Held \cup {"pointsec"}
        BY <1>2 DEF PointSecLocks, Held
    <2>. QED BY <1>2, <2>1, LockingTells, HoldImplements DEF PointSecLocks
<1>3. CASE PointSecUnlocks /\ lockedByPointSec
    <2>1. "pointsec" \in Held /\ Held' = Held \ {"pointsec"}
        BY <1>3 DEF PointSecUnlocks, Held
    <2>2. IF ~lockedByPointSec' /\ ~lockedByBackup' THEN UnlockSystem ELSE UNCHANGED <<store, told>>
        BY <1>3 DEF PointSecUnlocks
    <2>3. Locked
        BY <1>3 DEF Locked
    <2>. QED BY <2>1, <2>2, <2>3, ReleaseTells, ReleaseImplements
<1>4. CASE PointSecUnlocks /\ ~lockedByPointSec
    BY <1>4, StutterImplements DEF PointSecUnlocks
<1>. QED BY <1>1, <1>2, <1>3, <1>4

LEMMA BackupImplements ==
    ASSUME Inv, Inv', UNCHANGED <<sessions, lockedByPointSec>>, Running, Running',
           BackupLocks \/ BackupUnlocks
    PROVE  AbstractStep
<1>. USE DEF store
<1>1. CASE BackupLocks /\ lockedByBackup
    BY <1>1, StutterImplements DEF BackupLocks
<1>2. CASE BackupLocks /\ ~lockedByBackup
    <2>1. "backup" \notin Held /\ Held' = Held \cup {"backup"}
        BY <1>2 DEF BackupLocks, Held
    <2>. QED BY <1>2, <2>1, LockingTells, HoldImplements DEF BackupLocks
<1>3. CASE BackupUnlocks /\ lockedByBackup
    <2>1. "backup" \in Held /\ Held' = Held \ {"backup"}
        BY <1>3 DEF BackupUnlocks, Held
    <2>2. IF ~lockedByPointSec' /\ ~lockedByBackup' THEN UnlockSystem ELSE UNCHANGED <<store, told>>
        BY <1>3 DEF BackupUnlocks
    <2>3. Locked
        BY <1>3 DEF Locked
    <2>. QED BY <2>1, <2>2, <2>3, ReleaseTells, ReleaseImplements
<1>4. CASE BackupUnlocks /\ ~lockedByBackup
    BY <1>4, StutterImplements DEF BackupUnlocks
<1>. QED BY <1>1, <1>2, <1>3, <1>4

LEMMA ConnectImplements ==
    ASSUME Inv, NEW s \in Sessions, Connect(s) PROVE AbstractStep
<1>1. /\ Running /\ Running' = Running /\ open' = open /\ (open <=> ~Locked)
      /\ told[s] = "nothing"
      /\ told' = [told EXCEPT ![s] = IF Locked THEN "Unavailable" ELSE "Available"]
      /\ UNCHANGED <<lockedByPointSec, lockedByBackup>>
    BY Serving DEF Connect, AddSession, Inv, StoreOpenIffUnlocked, ConnectedTold, locks, Running
<1>2. Availability!Connect(s)
    BY <1>1 DEF Availability!Connect, Availability!Word
<1>. QED BY <1>2 DEF AbstractStep, Availability!Next

LEMMA DisconnectImplements ==
    ASSUME Inv, NEW s \in Sessions, Disconnect(s) PROVE AbstractStep
<1>1. /\ Running' = Running /\ open' = open
      /\ told' = [told EXCEPT ![s] = "nothing"]
      /\ UNCHANGED <<lockedByPointSec, lockedByBackup>>
    BY DEF Disconnect, locks, Running
<1>2. Availability!Disconnect(s)
    BY <1>1 DEF Availability!Disconnect
<1>. QED BY <1>2 DEF AbstractStep, Availability!Next

LEMMA StepImplements == Inv /\ Inv' /\ [Next]_vars => AbstractStep
<1>. SUFFICES ASSUME Inv, Inv', [Next]_vars PROVE AbstractStep
    OBVIOUS
<1>. USE DEF locks, clients, store
<1>1. ASSUME NEW status \in PointSecStates, SetPointSec(status) PROVE AbstractStep
    BY <1>1, Serving, StutterImplements DEF SetPointSec
<1>2. ASSUME NEW b \in BOOLEAN, SetBackup(b) PROVE AbstractStep
    BY <1>2, Serving, StutterImplements DEF SetBackup
<1>3. CASE Boot
    BY <1>3, Serving, StutterImplements DEF Boot
<1>4. CASE BootSubscribes
    BY <1>4, BootImplements
<1>5. CASE PointSecRunL
    <2>1. Running /\ Running' /\ sessions' = sessions
        BY <1>5, Serving DEF PointSecRunL
    <2>2. \/ PointSecLocks \/ PointSecUnlocks
          \/ UNCHANGED <<locks, store, told, wipeAfter, content, announced, failures>>
        BY <1>5 DEF PointSecRunL
    <2>. QED BY <2>1, <2>2, PointSecImplements, StutterImplements
<1>6. CASE ProcessEvent
    <2>1. Running /\ Running' /\ sessions' = sessions /\ lockedByPointSec' = lockedByPointSec
        BY <1>6, Serving DEF ProcessEvent
    <2>2. \/ BackupLocks \/ BackupUnlocks
          \/ UNCHANGED <<lockedByBackup, store, told, wipeAfter, content, announced, failures>>
        BY <1>6 DEF ProcessEvent
    <2>. QED BY <2>1, <2>2, BackupImplements, StutterImplements
<1>7. CASE PointSecSubscribes
    BY <1>7, Serving, StutterImplements DEF PointSecSubscribes
<1>8. CASE BackupSubscribes
    BY <1>8, Serving, StutterImplements DEF BackupSubscribes
<1>9. CASE BootFails \/ PointSecRunLFails \/ ProcessEventFails \/ Crash
    BY <1>9, EndImplements
       DEF BootFails, PointSecRunLFails, ProcessEventFails, UnlockFails, CreationFails, Crash
<1>10. ASSUME NEW s \in Sessions, WipeEverythingFails(s) PROVE AbstractStep
    BY <1>10, EndImplements DEF WipeEverythingFails, CreationFails
<1>11. ASSUME NEW s \in Sessions, Connect(s) PROVE AbstractStep
    BY <1>11, ConnectImplements
<1>12. ASSUME NEW s \in Sessions, Disconnect(s) PROVE AbstractStep
    BY <1>12, DisconnectImplements
<1>13. ASSUME NEW s \in Sessions, StartSorting(s) PROVE AbstractStep
    BY <1>13, Serving, StutterImplements DEF StartSorting
<1>14. ASSUME NEW s \in Sessions, NEW id \in SortIds, EndSorting(s, id) PROVE AbstractStep
    BY <1>14, Serving, StutterImplements DEF EndSorting
<1>15. ASSUME NEW s \in Sessions, StoreContent(s) PROVE AbstractStep
    BY <1>15, Serving, StutterImplements DEF StoreContent
<1>16. ASSUME NEW s \in Sessions, WipeEverything(s) PROVE AbstractStep
    <2>1. /\ (Running' <=> Running) /\ told' = told
          /\ UNCHANGED <<lockedByPointSec, lockedByBackup>>
        BY <1>16, Serving DEF WipeEverything
    <2>2. open' = open
        BY <1>16 DEF WipeEverything, NewStore, Inv, TypeOK
    <2>. QED BY <2>1, <2>2, StutterImplements
<1>17. CASE UNCHANGED vars
    BY <1>17, Serving, StutterImplements DEF vars
<1>. QED BY <1>1, <1>2, <1>3, <1>4, <1>5, <1>6, <1>7, <1>8, <1>9, <1>10, <1>11, <1>12,
            <1>13, <1>14, <1>15, <1>16, <1>17 DEF Next

\* The server implements the abstract specification of its availability: each of
\* its steps is the start, the end, a lock, its release, a client that comes or goes
\* there, or changes nothing a client can tell.
THEOREM Implementation == Spec => ImplementsAvailability
<1>1. Init => Availability!Init
    BY DEF Init, Availability!Init, Running
<1>2. AbstractStep => [Availability!Next]_(Availability!avars)
    BY DEF AbstractStep
<1>. QED BY <1>1, <1>2, StepImplements, Invariance, PTL
         DEF Spec, ImplementsAvailability, Availability!Spec

-----------------------------------------------------------------------------
(* Sort row sets have a session that ends them.                                *)

\* Steps that keep or close the store and leave the sort ids alone.
LEMMA SortsKeptOrClosed ==
    ASSUME SortsOwned, \/ sorts' = {}
                       \/ sorts' = sorts /\ sortIds' = sortIds /\ sessions \subseteq sessions'
    PROVE  SortsOwned'
BY DEF SortsOwned

LEMMA LocksOwned ==
    ASSUME \/ PointSecLocks \/ PointSecUnlocks \/ BackupLocks \/ BackupUnlocks
    PROVE  sorts' = {} \/ sorts' = sorts
BY DEF PointSecLocks, PointSecUnlocks, BackupLocks, BackupUnlocks, LockSystem, UnlockSystem,
    NewStore, store

LEMMA SortsStep == TypeOK /\ SortsOwned /\ [Next]_vars => SortsOwned'
<1>. SUFFICES ASSUME TypeOK, SortsOwned, [Next]_vars PROVE SortsOwned'
    OBVIOUS
<1>. USE DEF store, clients
<1>2. CASE BootSubscribes
    BY <1>2, SortsKeptOrClosed DEF BootSubscribes, NewStore
<1>3. CASE PointSecRunL \/ ProcessEvent
    <2>1. sortIds' = sortIds /\ sessions' = sessions
        BY <1>3 DEF PointSecRunL, ProcessEvent
    <2>2. \/ PointSecLocks \/ PointSecUnlocks \/ BackupLocks \/ BackupUnlocks
          \/ sorts' = sorts
        BY <1>3 DEF PointSecRunL, ProcessEvent
    <2>. QED BY <2>1, <2>2, LocksOwned, SortsKeptOrClosed
<1>4. CASE ProcessEnds
    BY <1>4, SortsKeptOrClosed DEF ProcessEnds
<1>5. ASSUME NEW s \in Sessions, Connect(s) PROVE SortsOwned'
    BY <1>5, SortsKeptOrClosed DEF Connect, AddSession
<1>6. ASSUME NEW s \in Sessions, Disconnect(s) PROVE SortsOwned'
    <2>1. \A r \in sorts' : r \in sorts /\ r.owner # s
        BY <1>6 DEF Disconnect, SortsLeft, SortsOwned, TypeOK
    <2>2. /\ sessions' = sessions \ {s}
          /\ \A x \in Sessions : x # s => sortIds'[x] = sortIds[x]
        BY <1>6 DEF Disconnect, TypeOK
    <2>. QED BY <2>1, <2>2 DEF SortsOwned, TypeOK
<1>7. ASSUME NEW s \in Sessions, StartSorting(s) PROVE SortsOwned'
    <2>1. /\ s \in sessions /\ sessions' = sessions /\ nextSort \in SortIds
          /\ sorts' = sorts \cup {[id |-> nextSort, owner |-> s]}
          /\ sortIds' = [sortIds EXCEPT ![s][nextSort] = @ + 1]
        BY <1>7 DEF StartSorting
    <2>2. \A x \in Sessions, id \in SortIds :
             sortIds'[x][id] = IF x = s /\ id = nextSort THEN sortIds[x][id] + 1 ELSE sortIds[x][id]
        BY <2>1 DEF TypeOK
    <2>. QED BY <2>1, <2>2 DEF SortsOwned, TypeOK
<1>8. ASSUME NEW s \in Sessions, NEW id \in SortIds, EndSorting(s, id) PROVE SortsOwned'
    <2>1. sorts' = {r \in sorts : r.id # id} /\ sessions' = sessions
        BY <1>8 DEF EndSorting
    <2>2. \A x \in Sessions, i \in SortIds : i # id => sortIds'[x][i] = sortIds[x][i]
        BY <1>8 DEF EndSorting, TypeOK
    <2>. QED BY <2>1, <2>2 DEF SortsOwned, TypeOK
<1>9. ASSUME NEW s \in Sessions, WipeEverything(s) PROVE SortsOwned'
    BY <1>9, SortsKeptOrClosed DEF WipeEverything, NewStore
<1>10. ASSUME NEW status \in PointSecStates, SetPointSec(status) PROVE SortsOwned'
    BY <1>10, SortsKeptOrClosed DEF SetPointSec
<1>11. ASSUME NEW b \in BOOLEAN, SetBackup(b) PROVE SortsOwned'
    BY <1>11, SortsKeptOrClosed DEF SetBackup
<1>12. CASE Boot \/ PointSecSubscribes \/ BackupSubscribes
    BY <1>12, SortsKeptOrClosed DEF Boot, PointSecSubscribes, BackupSubscribes
<1>13. CASE BootFails \/ PointSecRunLFails \/ ProcessEventFails \/ Crash
    BY <1>4, <1>13
       DEF BootFails, PointSecRunLFails, ProcessEventFails, UnlockFails, CreationFails, Crash
<1>14. ASSUME NEW s \in Sessions, StoreContent(s) \/ WipeEverythingFails(s) PROVE SortsOwned'
    BY <1>4, <1>14, SortsKeptOrClosed DEF StoreContent, WipeEverythingFails, CreationFails
<1>15. CASE UNCHANGED vars
    BY <1>15, SortsKeptOrClosed DEF vars
<1>. QED BY <1>2, <1>3, <1>5, <1>6, <1>7, <1>8, <1>9, <1>10, <1>11, <1>12, <1>13, <1>14,
            <1>15 DEF Next

\* Whatever stores come and go, a sort row set belongs to a connected session that
\* remembers its id, and so will end it.
THEOREM RowSetsOwned == Spec => []SortsOwned
<1>1. Init => SortsOwned
    BY DEF Init, SortsOwned
<1>. QED BY <1>1, SortsStep, TypeCorrect, PTL DEF Spec
=============================================================================
