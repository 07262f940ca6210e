------------------------- MODULE StoreAvailability --------------------------
(***************************************************************************)
(* What the message store server promises about its availability: while it  *)
(* serves, the store is available exactly when no reason to lock it is      *)
(* held, and every client was last told so.                                 *)
(***************************************************************************)
CONSTANTS Sessions, Reasons

VARIABLES
    serving,        \* the server runs
    held,           \* the reasons that lock the store
    available,      \* the store can be used
    told            \* what each client was last told, "nothing" if not connected

avars == <<serving, held, available, told>>

Word(isAvailable) == IF isAvailable THEN "Available" ELSE "Unavailable"

TellAll(isAvailable) ==
    [s \in Sessions |-> IF told[s] = "nothing" THEN "nothing" ELSE Word(isAvailable)]

Init ==
    /\ serving = FALSE
    /\ held = {}
    /\ available = FALSE
    /\ told = [s \in Sessions |-> "nothing"]

\* The server starts, perhaps with the store locked.
Start ==
    /\ ~serving /\ serving' = TRUE
    /\ held' \in SUBSET Reasons
    /\ available' = (held' = {})
    /\ UNCHANGED told

\* The server ends, clients are disconnected.
Stop ==
    /\ serving /\ serving' = FALSE
    /\ held' = {}
    /\ available' = FALSE
    /\ told' = [s \in Sessions |-> "nothing"]

\* One reason comes or goes.
Hold(r) ==
    /\ serving /\ r \notin held
    /\ held' = held \cup {r}
    /\ available' = FALSE
    /\ told' = TellAll(FALSE)
    /\ UNCHANGED serving

Release(r) ==
    /\ serving /\ r \in held
    /\ held' = held \ {r}
    /\ available' = (held' = {})
    /\ told' = TellAll(available')
    /\ UNCHANGED serving

Connect(s) ==
    /\ serving /\ told[s] = "nothing"
    /\ told' = [told EXCEPT ![s] = Word(available)]
    /\ UNCHANGED <<serving, held, available>>

Disconnect(s) ==
    /\ told' = [told EXCEPT ![s] = "nothing"]
    /\ UNCHANGED <<serving, held, available>>

Next ==
    \/ Start \/ Stop
    \/ \E r \in Reasons : Hold(r) \/ Release(r)
    \/ \E s \in Sessions : Connect(s) \/ Disconnect(s)

Spec == Init /\ [][Next]_avars
=============================================================================
