-------------------------- MODULE StoreEncryption --------------------------
(***************************************************************************)
(* Switching the encryption of the message store on and off.  A client's    *)
(* request changes the flag of the store at once; CMessageStoreEncryptHandler *)
(* then converts what there is in the background, one row in each RunL and   *)
(* table by table, while other requests create, change, copy and delete      *)
(* rows, and goes on after a restart.                                         *)
(*                                                                          *)
(* Each row says whether it is encrypted, and so decides how its strings are *)
(* read; a container also has a content file, which is no part of the        *)
(* database and its transactions but is read by what the row says.  Here     *)
(* data are the number of times they were encrypted.                         *)
(*                                                                          *)
(* A password is set.  RunL of the handler has no RunError, and the server's  *)
(* scheduler is a plain CActiveScheduler: a leave ends the server.           *)
(***************************************************************************)
EXTENDS Integers, Sequences

CONSTANTS
    MaxRows,            \* bound on the rows of each table, in the order of conversion
    MaxToggles,         \* bound on requests to switch the encryption
    MaxFaults,          \* bound on errors of the disk and ends of the process
    NoFile              \* a container has no content

Tables == <<"containers", "accounts", "sorting", "addresses">>

ASSUME BoundsType ==
    /\ MaxRows \in [1..Len(Tables) -> Nat]
    /\ MaxToggles \in Nat /\ MaxFaults \in Nat
    /\ NoFile \notin Int

Containers == 1
Accounts == 2

VARIABLES
    flag,               \* encryption flag in the general table
    state,              \* encryption state in the general table
    rows,               \* rows of each table: is it encrypted, and how often was it
    files,              \* content file of each container
    mode,               \* flag in iEncryption
    auth,               \* a client has authenticated
    handler,            \* iEncryptHandler
    up,                 \* the server runs
    next,               \* next id of each table
    spoilt,             \* rows that did not come through an error, or a renaming
    copied,             \* containers that were copied in the middle of a conversion
    slipped,            \* a request to switch the encryption failed half way
    toggles, faults     \* counters of the bounds

table  == <<flag, state>>
ghost  == <<spoilt, copied, slipped>>
bounds == <<toggles, faults>>
vars   == <<table, rows, files, mode, auth, handler, up, next, ghost, bounds>>

States == {"idle", "encrypting", "decrypting"}
TableNumbers == 1..Len(Tables)
Ids(t) == 1..MaxRows[t]

Start(s)  == [state |-> s, active |-> s # "idle", table |-> 1, first |-> TRUE, at |-> 1]
Encrypted(on) == IF on THEN 1 ELSE 0

Fault == faults < MaxFaults /\ faults' = faults + 1
NoFault == UNCHANGED faults

-----------------------------------------------------------------------------
(* Requests that switch the encryption.                                     *)

\* EnableEncryptionL, DisableEncryptionL, EncryptL and DecryptL: the flag of iEncryption is
\* set before the handler is asked, and no rollback sets it back.
Toggle(on) ==
    /\ up /\ auth /\ flag # on
    /\ toggles < MaxToggles /\ toggles' = toggles + 1
    /\ mode' = on
    /\ LET to == IF on THEN "encrypting" ELSE "decrypting"
       IN \/ /\ handler.state = "idle" /\ NoFault
             /\ flag' = on /\ state' = to /\ handler' = Start(to)
             /\ UNCHANGED slipped
          \/ /\ handler.state = "idle" /\ Fault      \* the commit fails
             /\ handler' = Start(to) /\ slipped' = TRUE
             /\ UNCHANGED table
          \/ /\ handler.state # "idle" /\ NoFault    \* KErrInUse
             /\ slipped' = TRUE
             /\ UNCHANGED <<table, handler>>
    /\ UNCHANGED <<rows, files, auth, up, next, spoilt, copied>>

-----------------------------------------------------------------------------
(* Other requests.                                                          *)

Add(t, row) ==
    /\ next[t] <= MaxRows[t] /\ next' = [next EXCEPT ![t] = @ + 1]
    /\ rows' = [rows EXCEPT ![t] = [n \in DOMAIN rows[t] \cup {next[t]} |->
                                        IF n = next[t] THEN row ELSE rows[t][n]]]

\* CreateContainerL, AddAccountL, AddMessageL, AddAddressToTableL: as iEncryption says now.
Create(t) ==
    /\ up /\ (mode => auth)
    /\ Add(t, [flag |-> mode, layers |-> Encrypted(mode)])
    /\ UNCHANGED <<table, files, mode, auth, handler, up, ghost, bounds>>

\* ReplaceContentL: as the row says.
ReplaceContent(n) ==
    /\ up /\ n \in DOMAIN rows[Containers] /\ (rows[Containers][n].flag => auth)
    /\ files' = [files EXCEPT ![n] = Encrypted(rows[Containers][n].flag)]
    /\ spoilt' = spoilt \ {<<Containers, n>>} /\ copied' = copied \ {n}
    /\ UNCHANGED <<table, rows, mode, auth, handler, up, next, slipped, bounds>>

\* RecursiveCopyL: the row is read and written anew, the content file is only copied.
Copy(n) ==
    /\ up /\ auth /\ n \in DOMAIN rows[Containers]
    /\ Add(Containers, [flag |-> mode, layers |-> Encrypted(mode)])
    /\ files' = [files EXCEPT ![next[Containers]] = files[n]]
    /\ spoilt' = spoilt \cup {<<Containers, next[Containers]>> : p \in spoilt \cap {<<Containers, n>>}}
    /\ copied' = copied \cup IF files[n] # NoFile /\ (n \in copied \/ rows[Containers][n].flag # mode)
                             THEN {next[Containers]} ELSE {}
    /\ UNCHANGED <<table, mode, auth, handler, up, slipped, bounds>>

\* RenameAccountL: the name is written as iEncryption says, whatever the row says.
Rename(n) ==
    /\ up /\ auth /\ n \in DOMAIN rows[Accounts]
    /\ rows' = [rows EXCEPT ![Accounts][n].layers = Encrypted(mode)]
    /\ spoilt' = IF rows[Accounts][n].flag = mode THEN spoilt \ {<<Accounts, n>>}
                                                  ELSE spoilt \cup {<<Accounts, n>>}
    /\ UNCHANGED <<table, files, mode, auth, handler, up, next, copied, slipped, bounds>>

\* The row is deleted, and with a container its content.
Delete(t, n) ==
    /\ up /\ auth /\ n \in DOMAIN rows[t]
    /\ rows' = [rows EXCEPT ![t] = [m \in DOMAIN rows[t] \ {n} |-> rows[t][m]]]
    /\ files' = IF t = Containers THEN [files EXCEPT ![n] = NoFile] ELSE files
    /\ spoilt' = spoilt \ {<<t, n>>}
    /\ copied' = IF t = Containers THEN copied \ {n} ELSE copied
    /\ UNCHANGED <<table, mode, auth, handler, up, next, slipped, bounds>>

\* AuthenticateL and ClearAuthentication.
Authenticate(to) ==
    /\ up /\ auth' = to
    /\ UNCHANGED <<table, rows, files, mode, handler, up, next, ghost, bounds>>

-----------------------------------------------------------------------------
(* The background conversion.                                               *)

Target == handler.state = "encrypting"
Rows == rows[handler.table]
Unconverted == {n \in DOMAIN Rows : Rows[n].flag # Target}
Lowest(S) == CHOOSE n \in S : \A m \in S : n <= m
RunsStep == up /\ handler.active

\* The end of DoNextOperationL: the next row of those found, else the next table.
Continue(found) ==
    /\ handler' =
        CASE found # {} -> [handler EXCEPT !.first = FALSE, !.at = Lowest(found)]
          [] found = {} /\ handler.table < Len(Tables) ->
                [handler EXCEPT !.first = TRUE, !.table = @ + 1]
          [] OTHER -> Start("idle")
    /\ state' = IF found = {} /\ handler.table = Len(Tables) THEN "idle" ELSE state

\* Mutant of FindFirst: a row that is gone ends the table.
FindFirst_GoneEndsTable ==
    /\ RunsStep /\ (handler.first \/ handler.at \notin DOMAIN Rows)
    /\ Continue(IF handler.first THEN Unconverted ELSE {})
    /\ UNCHANGED <<flag, rows, files, mode, auth, up, next, ghost, bounds>>

\* EncryptFirstL, DecryptFirstL: at the beginning of a table, and when the row is gone.
FindFirst ==
    /\ RunsStep /\ (handler.first \/ handler.at \notin DOMAIN Rows)
    /\ Continue(Unconverted)
    /\ UNCHANGED <<flag, rows, files, mode, auth, up, next, ghost, bounds>>

AtRow == RunsStep /\ ~handler.first /\ handler.at \in DOMAIN Rows
Needed == handler.at \in Unconverted
Turn(layers) == IF Target THEN layers + 1 ELSE layers - 1

HasContent == handler.table = Containers /\ files[handler.at] # NoFile
Content == [files EXCEPT ![handler.at] = IF HasContent THEN Turn(@) ELSE @]
ThisRow == {<<handler.table, handler.at>>}

\* Mutant of ConvertNext: the content is left as it is.
ConvertNext_RowOnly ==
    /\ AtRow /\ (Needed => auth)
    /\ Continue({n \in DOMAIN Rows : n > handler.at})
    /\ rows' = IF Needed THEN [rows EXCEPT ![handler.table][handler.at] =
                                  [flag |-> Target, layers |-> Turn(@.layers)]]
                         ELSE rows
    /\ UNCHANGED <<files, flag, mode, auth, up, next, ghost, bounds>>

\* EncryptNextL, DecryptNextL: the row, if it is not as it should be, then the content of a
\* container, which is left as it is when that fails; and on to the next row.
ConvertNext ==
    /\ AtRow /\ (Needed => auth)
    /\ Continue({n \in DOMAIN Rows : n > handler.at})
    /\ rows' = IF Needed THEN [rows EXCEPT ![handler.table][handler.at] =
                                  [flag |-> Target, layers |-> Turn(@.layers)]]
                         ELSE rows
    /\ \/ /\ NoFault
          /\ files' = IF Needed /\ HasContent THEN Content ELSE files
          /\ UNCHANGED spoilt
       \/ /\ Needed /\ HasContent /\ Fault
          /\ spoilt' = spoilt \cup ThisRow
          /\ UNCHANGED files
    /\ UNCHANGED <<flag, mode, auth, up, next, copied, slipped, toggles>>

\* RunL leaves because nobody is authenticated, or the disk is full or the commit fails,
\* when the content is converted already; or the process ends there.
RunLLeaves ==
    /\ AtRow /\ Needed
    /\ \/ ~auth /\ NoFault /\ UNCHANGED <<files, spoilt>>
       \/ /\ auth /\ Fault
          /\ files' = Content
          /\ spoilt' = IF HasContent THEN spoilt \cup ThisRow ELSE spoilt
    /\ up' = FALSE
    /\ UNCHANGED <<table, rows, mode, auth, handler, next, copied, slipped, toggles>>

\* The process ends between two steps, or before a step has changed anything on the disk.
ServerEnds ==
    /\ up /\ Fault
    /\ up' = FALSE
    /\ UNCHANGED <<table, rows, files, mode, auth, handler, next, ghost, toggles>>

\* Mutant of ServerStarts: a conversion is not taken up again.
ServerStarts_Idle ==
    /\ ~up /\ up' = TRUE
    /\ mode' = flag /\ auth' = FALSE /\ handler' = Start("idle")
    /\ UNCHANGED <<table, rows, files, next, ghost, bounds>>

\* ConstructL of the store: the conversion starts anew from what the general table says.
ServerStarts ==
    /\ ~up /\ up' = TRUE
    /\ mode' = flag /\ auth' = FALSE /\ handler' = Start(state)
    /\ UNCHANGED <<table, rows, files, next, ghost, bounds>>

-----------------------------------------------------------------------------
RunL == FindFirst \/ ConvertNext \/ RunLLeaves

Init ==
    /\ flag = FALSE /\ state = "idle" /\ mode = FALSE /\ auth = TRUE /\ up = TRUE
    /\ handler = Start("idle")
    /\ rows = [t \in TableNumbers |-> <<>>]
    /\ files = [n \in Ids(Containers) |-> NoFile]
    /\ next = [t \in TableNumbers |-> 1]
    /\ spoilt = {} /\ copied = {} /\ slipped = FALSE
    /\ toggles = 0 /\ faults = 0

Next ==
    \/ \E on \in BOOLEAN : Toggle(on) \/ Authenticate(on)
    \/ \E t \in TableNumbers : Create(t) \/ \E n \in Ids(t) : Delete(t, n)
    \/ \E n \in Ids(Containers) : ReplaceContent(n) \/ Copy(n)
    \/ \E n \in Ids(Accounts) : Rename(n)
    \/ RunL
    \/ ServerEnds \/ ServerStarts

Spec == Init /\ [][Next]_vars

\* The scheduler of the server runs the handler, whose priority is low, when nothing else
\* has to be done.
FairSpec == Spec /\ WF_vars(RunL)

-----------------------------------------------------------------------------
(* Properties.                                                              *)

\* Every variable keeps its type, and the handler is scheduled if and only if it converts.
TypeOK ==
    /\ flag \in BOOLEAN /\ mode \in BOOLEAN /\ auth \in BOOLEAN /\ up \in BOOLEAN
    /\ state \in States
    /\ \A t \in TableNumbers :
          /\ DOMAIN rows[t] \subseteq Ids(t)
          /\ \A n \in DOMAIN rows[t] : rows[t][n] \in [flag : BOOLEAN, layers : Int] /\ n < next[t]
    /\ files \in [Ids(Containers) -> Int \cup {NoFile}]
    /\ handler.state \in States /\ handler.table \in TableNumbers
    /\ handler.active <=> handler.state # "idle"
    /\ slipped \in BOOLEAN
    /\ \A p \in spoilt : p[2] \in Ids(p[1])
    /\ copied \subseteq Ids(Containers)

Plain(t, n) ==
    /\ rows[t][n].layers = Encrypted(rows[t][n].flag)
    /\ (t = Containers /\ files[n] # NoFile) => files[n] = Encrypted(rows[t][n].flag)

\* What a row says of itself is true of its strings and of its content, so both can be read:
\* in the middle of a conversion, and after one that was interrupted anywhere, except for
\* rows of which an error left only one part converted, accounts that were renamed before
\* their turn and containers that were copied before theirs (EncryptNextL, DecryptNextL).
Readable ==
    \A t \in TableNumbers : \A n \in DOMAIN rows[t] :
        Plain(t, n) \/ <<t, n>> \in spoilt \/ (t = Containers /\ n \in copied)

\* "No encryption/decryption is required" when a content file is copied (CopyContentL).
CopyReadable ==
    \A n \in DOMAIN rows[Containers] : Plain(Containers, n) \/ <<Containers, n>> \in spoilt

\* When a conversion is over, every row is as the flag of the store says: those that came
\* meanwhile too, and whatever was deleted under the handler (DoNextOperationL).
AllConverted ==
    state = "idle" /\ ~slipped =>
        \A t \in TableNumbers : \A n \in DOMAIN rows[t] : rows[t][n].flag = flag

\* A conversion comes to its end, also after a restart, if in the end the server runs and
\* somebody is authenticated (StartL).
ConversionEnds == <>[](up /\ auth) => []<>(state = "idle")

=============================================================================
