---------------------------- MODULE AlwaysOnline ----------------------------
(***************************************************************************)
(* The always-online logic of one IMAP or POP mailbox: CIpsSosAOMBoxLogic,  *)
(* which waits with a timer for the time to synchronise the mailbox, and    *)
(* its agent (CIpsSosAOImapAgent, CIpsSosAOPopAgent), an active object that *)
(* connects, fetches and disconnects with one operation of the message      *)
(* server after the other.  The always-online server sends them commands by *)
(* way of CIpsSosAOImapPopLogic.                                            *)
(*                                                                          *)
(* All of it runs in one thread: an action is one run of an active object   *)
(* or one command.  When the message server gets an operation done, and how *)
(* it ends, when the timers fire, whether the mailbox is connected by       *)
(* others, and what the user sets, is left open.  Always-online sets the    *)
(* flags of notified mail nowhere (the settings are stubs), and IMAP        *)
(* folders are not supported: the code for them is not reached.             *)
(***************************************************************************)
EXTENDS Integers

CONSTANTS
    MaxReTryTimes,      \* KIpsSosAOMaxReTryTimes
    MaxEvents,          \* bound on commands and changes of settings and connection
    MaxFailures         \* bound on functions of the logic and the agent that leave

ASSUME BoundsType == MaxReTryTimes \in Nat \ {0} /\ MaxEvents \in Nat /\ MaxFailures \in Nat

VARIABLES
    protocol,           \* "IMAP" or "POP"
    reception,          \* always online is "on", "off" or on without a week day, "nodays"
    succeeded,          \* iUpdateSuccessfulWithCurSettings
    mayRoam,            \* CanConnectIfRoamingL
    connected,          \* the mailbox is connected
    noNWOpsAllowed,     \* iNoNWOpsAllowed
    isRoaming,          \* iIsRoaming
    logic,              \* iState, iTimer->IsActive() and iErrorCounter of the logic
    agent,              \* the agent
    events, failures    \* counters of the bounds

settings == <<protocol, mayRoam, succeeded, reception>>
network  == <<connected, noNWOpsAllowed, isRoaming>>
vars     == <<settings, network, logic, agent, events, failures>>

LogicStates == {"WaitSyncStart", "SyncOngoing", "Suspended", "IdleAndWaitCommands", "Error"}

AgentStates == {"Idle", "ConnectAndSync", "ConnectAndSyncOnHold", "RefreshFolderArray",
                "PopulateAll", "PopulateOnHold", "Disconnect", "Completed"}

Results == {"none", "cancel", "error"}

\* active and signal are the active object's; op is iOngoingOp ("failed" is one that ended
\* with an error and is still there) and result how it ended; marked is
\* iSyncStartedSignaled; panicked is a second SetActive or a second signal; left is not in
\* the code: a function left that should have made the agent active, or that the agent
\* should have called, and nobody took it up; the agent was not set active since.
Agents == [state : AgentStates, active : BOOLEAN, signal : BOOLEAN,
           op : {"none", "sync", "populate", "disconnect", "failed"}, result : Results,
           error : Results, doNotDisconnect : BOOLEAN, marked : BOOLEAN, panicked : BOOLEAN,
           left : BOOLEAN]

\* How it goes when the agent disconnects the service: the message server takes the
\* operation or refuses it, or what the call needs cannot be had.
Invocations == {"accepted", "refused", "leaves"}

\* A function leaves.
Leave == failures < MaxFailures /\ failures' = failures + 1

-----------------------------------------------------------------------------
(* The agent.  An operator takes the agent and gives it as it is afterwards. *)

SetActive(a) == [a EXCEPT !.active = TRUE, !.left = FALSE, !.panicked = @ \/ a.active]

SetActiveAndCompleteThis(a) ==
    [a EXCEPT !.active = TRUE, !.left = FALSE, !.signal = TRUE, !.panicked = @ \/ a.signal]

\* Mutant of Cancel: observers are not told that the synchronisation ended.
Cancel_Untold(a) ==
    IF a.active THEN [a EXCEPT !.active = FALSE, !.signal = FALSE, !.op = "none"] ELSE a

\* CActive::Cancel and DoCancel: nothing if the agent is not active.
Cancel(a) ==
    IF a.active
    THEN [a EXCEPT !.active = FALSE, !.signal = FALSE, !.op = "none", !.marked = FALSE]
    ELSE a

\* CancelAllAndDisconnectL leaves, outside of its TRAPD, when the agent is cancelled already.
Leaves(a, how) == a.state # "Idle" /\ connected /\ how = "leaves"

\* The service is disconnected by an operation, unless the message server refuses it.
CancelAllAndDisconnect(a, how) ==
    IF a.state = "Idle" THEN a
    ELSE LET c == [Cancel(a) EXCEPT !.doNotDisconnect = FALSE, !.state = "Completed"]
         IN CASE connected /\ how = "accepted" -> SetActive([c EXCEPT !.op = "disconnect"])
              [] connected /\ how = "leaves" -> [c EXCEPT !.left = TRUE]
              [] ~connected \/ how = "refused" -> SetActiveAndCompleteThis(c)

CancelAllAndDoNotDisconnect(a) ==
    SetActiveAndCompleteThis([Cancel(a) EXCEPT !.doNotDisconnect = TRUE, !.marked = FALSE,
                                               !.state = "Completed"])

HoldOperations(a) ==
    [Cancel(a) EXCEPT !.state = CASE a.state = "PopulateAll" -> "PopulateOnHold"
                                  [] a.state = "ConnectAndSync" -> "ConnectAndSyncOnHold"
                                  [] OTHER -> "Idle"]

OnHold(a) == a.state \in {"ConnectAndSyncOnHold", "PopulateOnHold"}

\* Mutant of StartSync: nothing is completed if the mailbox is connected.
StartSync_Silent(a) ==
    IF connected THEN [a EXCEPT !.error = "cancel", !.state = "Completed"]
    ELSE [SetActive([a EXCEPT !.op = "sync"]) EXCEPT !.state = "ConnectAndSync"]

\* StartSyncL where it does not leave: a mailbox that is connected is not synchronised.
StartSync(a) ==
    IF connected
    THEN SetActiveAndCompleteThis([a EXCEPT !.error = "cancel", !.state = "Completed"])
    ELSE [SetActive([a EXCEPT !.op = "sync"]) EXCEPT !.state = "ConnectAndSync"]

\* PopulateAllL where it does not leave.  There are no IMAP folders to populate.
PopulateAll(a) ==
    CASE ~connected -> CancelAllAndDisconnect([a EXCEPT !.marked = FALSE], "accepted")
      [] connected /\ protocol = "POP" ->
            [SetActive([a EXCEPT !.op = "populate"]) EXCEPT !.state = "Disconnect", !.marked = TRUE]
      [] connected /\ protocol = "IMAP" ->
            SetActiveAndCompleteThis([a EXCEPT !.state = "Disconnect", !.marked = TRUE])

\* Mutant of RunError: nothing is done if the mailbox is not connected.
RunError_Idle(a, how) ==
    IF connected THEN CancelAllAndDisconnect([a EXCEPT !.error = "error"], how)
    ELSE [a EXCEPT !.state = "Completed", !.error = "error"]

\* RunL left.  (The state is not Disconnect any more if that is where it left.)  When the
\* agent cannot be made to disconnect, either, that is ignored.
RunError(a, how) ==
    IF connected THEN CancelAllAndDisconnect([a EXCEPT !.error = "error"], how)
    ELSE SetActiveAndCompleteThis([a EXCEPT !.state = "Completed",
                                            !.error = IF protocol = "IMAP" THEN "cancel" ELSE "error"])

HasFailed(a) == a.op # "none" /\ a.result # "none"

\* What RunL begins with: an operation that failed is answered by disconnecting, and the
\* operation there is, which then may be the one that disconnects, is deleted; but not if
\* RunL leaves here.
OperationDone(a, how) ==
    IF ~HasFailed(a) THEN [a EXCEPT !.op = "none"]
    ELSE LET d == CancelAllAndDisconnect([a EXCEPT !.error = a.result, !.marked = FALSE], how)
         IN IF Leaves(a, how) THEN [d EXCEPT !.op = "failed"]
                              ELSE [d EXCEPT !.op = "none", !.signal = d.active]

-----------------------------------------------------------------------------
(* The mailbox logic.                                                       *)

Wait(l) == [l EXCEPT !.state = "WaitSyncStart", !.timer = TRUE]

IdleAndWaitCommands(l) == [l EXCEPT !.state = "IdleAndWaitCommands", !.timer = FALSE]

\* The next interval, or the time the user selected, is waited for.
CalculateToNextInterval(l) == IF reception = "on" THEN Wait(l) ELSE IdleAndWaitCommands(l)

\* The logic starts a synchronisation, after which it is as l, or StartSyncL leaves: the
\* agent has an operation, or its settings or operation cannot be had.
LogicStartsSync(l) ==
    \/ /\ agent.op = "none"
       /\ agent' = StartSync(agent)
       /\ logic' = [l EXCEPT !.state = "SyncOngoing"]
       /\ UNCHANGED failures
    \/ /\ agent.op # "none" \/ failures < MaxFailures
       /\ failures' = failures + (IF agent.op = "none" THEN 1 ELSE 0)
       /\ logic' = l
       /\ UNCHANGED agent

\* CheckSchedulingAndSwitchStateL, with the timer of l stopped: if a synchronisation is due
\* it is started, but in no other state than WaitSyncStart.  It leaves if there are no
\* settings, which the timer ignores.
CheckScheduling(l) ==
    \/ /\ reception # "on"
       /\ logic' = IdleAndWaitCommands(l) /\ UNCHANGED <<agent, failures>>
    \/ /\ reception = "on"
       /\ logic' = Wait(l) /\ UNCHANGED <<agent, failures>>
    \/ /\ reception = "on" /\ l.state = "WaitSyncStart"
       /\ LogicStartsSync(l)
    \/ /\ reception = "on" /\ l.state = "Suspended"
       /\ logic' = l /\ UNCHANGED <<agent, failures>>
    \/ /\ Leave
       /\ logic' = l /\ UNCHANGED agent

Running == ~agent.panicked

\* A timer is of some seconds at least: what is ready in the thread runs first.
TimerFired ==
    /\ Running /\ logic.timer /\ ~agent.signal
    /\ \/ /\ logic.state = "Suspended" /\ OnHold(agent)
          /\ logic' = [logic EXCEPT !.timer = FALSE, !.state = "SyncOngoing"]
          /\ agent' = SetActiveAndCompleteThis(agent)
          /\ UNCHANGED failures
       \/ /\ ~(logic.state = "Suspended" /\ OnHold(agent))
          /\ CheckScheduling([logic EXCEPT !.timer = FALSE])
    /\ UNCHANGED <<settings, network, events>>

\* The counter after a synchronisation; there is no difference beyond the limit.
Errors(error) ==
    IF error # "error" THEN 0
    ELSE IF logic.errors < MaxReTryTimes THEN logic.errors + 1 ELSE MaxReTryTimes

AfterCompletion(a) == [a EXCEPT !.marked = FALSE, !.error = "none", !.state = "Idle"]

\* The agent in state Completed tells the logic of its error (OperationCompletedL), and is
\* idle, also if the logic made it disconnect, or left.  The logic tries again MaxReTryTimes
\* times.  If it never succeeded it then switches always-online off and stops.  It leaves
\* before or after it counted the error and noted the success, or where it disconnects.
OperationCompleted(a, how) ==
    LET n == Errors(a.error)
        l == [logic EXCEPT !.errors = n]
        ongoing == logic.state = "SyncOngoing"
        fatal == a.error = "error" /\ n = MaxReTryTimes /\ ~succeeded
    IN \/ /\ ~ongoing
          /\ agent' = AfterCompletion(a) /\ UNCHANGED <<logic, settings, failures>>
       \/ /\ ongoing /\ fatal /\ ~Leaves(a, how)
          /\ agent' = AfterCompletion(CancelAllAndDisconnect(a, how))
          /\ logic' = [l EXCEPT !.state = "Error", !.errors = 0]
          /\ reception' = "off"
          /\ UNCHANGED <<protocol, mayRoam, succeeded, failures>>
       \/ /\ ongoing /\ fatal /\ Leaves(a, how) /\ Leave
          /\ agent' = AfterCompletion(CancelAllAndDisconnect(a, how))
          /\ logic' = l /\ UNCHANGED settings
       \/ /\ ongoing /\ a.error = "error" /\ n < MaxReTryTimes
          /\ agent' = AfterCompletion(a)
          /\ logic' = IF reception = "off" THEN IdleAndWaitCommands(l) ELSE Wait(l)
          /\ UNCHANGED <<settings, failures>>
       \/ /\ ongoing /\ a.error = "error" /\ n = MaxReTryTimes /\ succeeded
          /\ agent' = AfterCompletion(a) /\ logic' = CalculateToNextInterval(l)
          /\ UNCHANGED <<settings, failures>>
       \/ /\ ongoing /\ a.error # "error"
          /\ agent' = AfterCompletion(a) /\ logic' = CalculateToNextInterval(l)
          /\ succeeded' = (succeeded \/ a.error = "none")
          /\ UNCHANGED <<protocol, mayRoam, reception, failures>>
       \/ /\ ongoing /\ Leave
          /\ agent' = [AfterCompletion(a) EXCEPT !.left = TRUE]
          /\ \/ logic' \in {logic, l} /\ UNCHANGED succeeded
             \/ logic' = l /\ a.error = "none" /\ succeeded' = TRUE
          /\ UNCHANGED <<protocol, mayRoam, reception>>

-----------------------------------------------------------------------------
(* What the agent's thread and the message server do.                       *)

\* RunL left, and CActive calls RunError.
RunLeft(a, how) ==
    /\ agent' = RunError(a, how)
    /\ failures' = failures + (IF Leaves(a, how) THEN 2 ELSE 1) /\ failures' <= MaxFailures
    /\ UNCHANGED <<settings, logic>>

\* What may leave: StartSyncL, PopulateAllL, and for IMAP what needs settings.
MayLeave(a) ==
    \/ a.state = "ConnectAndSyncOnHold"
    \/ a.state \in {"RefreshFolderArray", "PopulateAll", "PopulateOnHold"} /\ protocol = "IMAP"
    \/ a.state \in {"PopulateAll", "PopulateOnHold"} /\ protocol = "POP" /\ connected

RunLWith(a, how, again) ==
    \/ /\ a.state = "ConnectAndSync"
       /\ agent' = SetActiveAndCompleteThis([a EXCEPT !.state =
                       IF protocol = "IMAP" THEN "RefreshFolderArray" ELSE "PopulateAll"])
       /\ UNCHANGED <<settings, logic, failures>>
    \/ /\ a.state = "ConnectAndSyncOnHold"
       /\ agent' = StartSync(a)
       /\ UNCHANGED <<settings, logic, failures>>
    \/ /\ a.state = "RefreshFolderArray"
       /\ agent' = SetActiveAndCompleteThis([a EXCEPT !.state = "PopulateAll"])
       /\ UNCHANGED <<settings, logic, failures>>
    \/ /\ a.state \in {"PopulateAll", "PopulateOnHold"}
       /\ agent' = PopulateAll(a)
       /\ UNCHANGED <<settings, logic, failures>>
    \/ MayLeave(a) /\ RunLeft(a, again)
    \/ /\ a.state = "Disconnect" /\ a.doNotDisconnect
       /\ agent' = SetActiveAndCompleteThis([a EXCEPT !.state = "Completed"])
       /\ UNCHANGED <<settings, logic, failures>>
    \/ /\ a.state = "Disconnect" /\ ~a.doNotDisconnect /\ ~Leaves(a, how)
       /\ agent' = CancelAllAndDisconnect(a, how)
       /\ UNCHANGED <<settings, logic, failures>>
    \/ /\ a.state = "Disconnect" /\ ~a.doNotDisconnect /\ Leaves(a, how)
       /\ RunLeft(CancelAllAndDisconnect(a, how), again)
    \/ /\ a.state = "Completed"
       /\ OperationCompleted(a, again)
    \/ /\ a.state = "Idle"
       /\ agent' = a /\ UNCHANGED <<settings, logic, failures>>

\* The agent's RunL, for the next operation or for the one that it was called for.
RunL ==
    /\ Running /\ agent.active /\ agent.signal
    /\ \E how, again \in Invocations :
          LET b == [agent EXCEPT !.active = FALSE, !.signal = FALSE]
              d == OperationDone(b, how)
          IN \/ HasFailed(b) /\ Leaves(b, how) /\ RunLeft(d, again)
             \/ ~(HasFailed(b) /\ Leaves(b, how)) /\ RunLWith(d, how, again)
    /\ UNCHANGED <<network, events>>

\* The message server is done with the operation.
OperationEnds ==
    /\ Running /\ agent.op \notin {"none", "failed"} /\ ~agent.signal
    /\ \E result \in Results :
          /\ agent' = [agent EXCEPT !.signal = TRUE, !.result = result]
          /\ connected' \in CASE result = "none" /\ agent.op = "sync" -> {TRUE}
                              [] result = "none" /\ agent.op = "populate" -> {connected}
                              [] result = "none" /\ agent.op = "disconnect" -> {FALSE}
                              [] result # "none" /\ agent.op = "sync" -> BOOLEAN
                              [] OTHER -> {connected, FALSE}
    /\ UNCHANGED <<settings, noNWOpsAllowed, isRoaming, logic, events, failures>>

\* HandleImapConnectionEvent: the mailbox is connected and synchronised.
HandleImapConnectionEvent ==
    /\ Running /\ protocol = "IMAP" /\ agent.op = "sync" /\ ~agent.signal /\ ~agent.marked
    /\ agent' = [agent EXCEPT !.marked = TRUE]
    /\ UNCHANGED <<settings, network, logic, events, failures>>

-----------------------------------------------------------------------------
(* Commands.                                                                *)

Event == Running /\ events < MaxEvents /\ events' = events + 1

\* EEventStart: in state Error the settings are loaded and the timer is set, unless the
\* mailbox roams and must not.
Start(roaming) ==
    /\ UNCHANGED agent
    /\ \/ logic.state = "Error" /\ (roaming => mayRoam) /\ logic' = Wait(logic) /\ UNCHANGED failures
       \/ logic.state = "Error" /\ (roaming => mayRoam) /\ Leave /\ UNCHANGED logic
       \/ (logic.state = "Error" => roaming /\ ~mayRoam) /\ UNCHANGED <<logic, failures>>

\* Mutant of Stop: the agent goes on.
Stop_AgentGoesOn(how) ==
    /\ logic' = IF logic.state = "Error" THEN logic ELSE [logic EXCEPT !.state = "Error", !.timer = FALSE]
    /\ UNCHANGED <<agent, failures>>

\* EEventStopAndRemoveOps.  When the agent's function leaves the logic is not stopped.
Stop(how) ==
    \/ /\ logic.state = "Error"
       /\ UNCHANGED <<logic, agent, failures>>
    \/ /\ logic.state # "Error" /\ ~Leaves(agent, how)
       /\ logic' = [logic EXCEPT !.state = "Error", !.timer = FALSE]
       /\ agent' = CancelAllAndDisconnect(agent, how) /\ UNCHANGED failures
    \/ /\ logic.state # "Error" /\ Leaves(agent, how) /\ Leave
       /\ agent' = CancelAllAndDisconnect(agent, how) /\ UNCHANGED logic

\* The plug-in, the disk space or the mailbox (which is suspended by its settings view).
PluginStart ==
    /\ Event /\ ~noNWOpsAllowed
    /\ Start(isRoaming)
    /\ UNCHANGED <<settings, network>>

PluginStop ==
    /\ Event
    /\ \E how \in Invocations : Stop(how)
    /\ UNCHANGED <<settings, network>>

NWOpsNotAllowed ==
    /\ Event
    /\ noNWOpsAllowed' = TRUE
    /\ \E how \in Invocations : Stop(how)
    /\ UNCHANGED <<settings, connected, isRoaming>>

NWOpsAllowed ==
    /\ Event
    /\ noNWOpsAllowed' = FALSE
    /\ Start(isRoaming)
    /\ UNCHANGED <<settings, connected, isRoaming>>

StartedRoaming ==
    /\ Event
    /\ isRoaming' = TRUE
    /\ \/ mayRoam /\ UNCHANGED <<logic, agent, failures>>
       \/ ~mayRoam /\ \E how \in Invocations : Stop(how)
       \/ Leave /\ UNCHANGED <<logic, agent>>
    /\ UNCHANGED <<settings, connected, noNWOpsAllowed>>

StoppedRoaming ==
    /\ Event
    /\ isRoaming' = FALSE
    /\ Start(FALSE)
    /\ UNCHANGED <<settings, connected, noNWOpsAllowed>>

\* Mutant of Suspend: the timer of the watchdog is not set.
Suspend_NoWatchdog ==
    /\ Event /\ logic.state # "Error"
    /\ agent' = IF logic.state = "SyncOngoing" THEN HoldOperations(agent) ELSE agent
    /\ logic' = [logic EXCEPT !.state = "Suspended"]
    /\ UNCHANGED <<settings, network, failures>>

\* SuspendOperations: the agent holds what it does, and the timer of the watchdog is set,
\* unless there is a timer already.
Suspend ==
    /\ Event /\ logic.state # "Error"
    /\ agent' = IF logic.state = "SyncOngoing" THEN HoldOperations(agent) ELSE agent
    /\ logic' = [logic EXCEPT !.state = "Suspended", !.timer = TRUE]
    /\ UNCHANGED <<settings, network, failures>>

Continue ==
    /\ Event /\ logic.state = "Suspended"
    /\ logic' = [logic EXCEPT !.timer = TRUE]
    /\ UNCHANGED <<settings, network, agent, failures>>

\* EEventStartSync.  Where the logic is idle the time the user selected may have to come.
StartSyncCommand ==
    \/ logic.state = "WaitSyncStart" /\ LogicStartsSync([logic EXCEPT !.timer = FALSE])
    \/ logic.state = "IdleAndWaitCommands" /\ LogicStartsSync(logic)
    \/ /\ logic.state = "IdleAndWaitCommands"
       /\ logic' = Wait(logic) /\ UNCHANGED <<agent, failures>>
    \/ /\ logic.state \notin {"WaitSyncStart", "IdleAndWaitCommands"}
       /\ UNCHANGED <<logic, agent, failures>>

\* A notification of mail switches always-online off, each time, as the first one is not
\* remembered; the mailbox is synchronised if it may be.
EMNReceived ==
    /\ Event
    /\ reception' = "off"
    /\ IF ~noNWOpsAllowed /\ (isRoaming => mayRoam) THEN StartSyncCommand
                                                    ELSE UNCHANGED <<logic, agent, failures>>
    /\ UNCHANGED <<protocol, mayRoam, succeeded, network>>

\* A mailbox that was just created is started, if its settings can be had, and synchronised.
EntriesCreated ==
    /\ Event /\ events = 0
    /\ \/ LogicStartsSync([logic EXCEPT !.state = "WaitSyncStart"])
       \/ Leave /\ UNCHANGED <<logic, agent>>
    /\ UNCHANGED <<settings, network>>

\* CalculateToNextIntervalL, which stops the timer first.
GoesToNextInterval ==
    \/ logic' = CalculateToNextInterval(logic) /\ UNCHANGED failures
    \/ logic' = [logic EXCEPT !.timer = FALSE] /\ Leave

\* Also where the logic is in state Error.
CancelAllAndDisconnectCommand ==
    /\ Event
    /\ \E how \in Invocations :
          /\ agent' = CancelAllAndDisconnect(agent, how)
          /\ IF Leaves(agent, how) THEN Leave /\ UNCHANGED logic ELSE GoesToNextInterval
    /\ UNCHANGED <<settings, network>>

CancelAllAndDoNotDisconnectCommand ==
    /\ Event /\ agent.state \notin {"Completed", "Idle"}
    /\ agent' = CancelAllAndDoNotDisconnect(agent)
    /\ GoesToNextInterval
    /\ UNCHANGED <<settings, network>>

DoNotDisconnect ==
    /\ Event
    /\ agent' = [agent EXCEPT !.doNotDisconnect = TRUE]
    /\ UNCHANGED <<settings, network, logic, failures>>

\* An entry of a mailbox that is not connected changed: ClearDoNotDisconnect.  POP forgets
\* that it told of the start, without telling of the end.
EntriesChanged ==
    /\ Running /\ ~connected
    /\ agent' = [agent EXCEPT !.doNotDisconnect = FALSE,
                              !.marked = @ /\ protocol = "IMAP"]
    /\ agent' # agent
    /\ UNCHANGED <<settings, network, logic, events, failures>>

\* Others connect and disconnect the mailbox.
ConnectionChanges ==
    /\ Event
    /\ connected' = ~connected
    /\ UNCHANGED <<settings, noNWOpsAllowed, isRoaming, logic, agent, failures>>

SettingsChange ==
    /\ Event
    /\ reception' \in {"on", "off", "nodays"} \ {reception}
    /\ UNCHANGED <<protocol, mayRoam, succeeded, network, logic, agent, failures>>

Command ==
    \/ PluginStart \/ PluginStop \/ NWOpsNotAllowed \/ NWOpsAllowed
    \/ StartedRoaming \/ StoppedRoaming \/ Suspend \/ Continue
    \/ EMNReceived \/ EntriesCreated
    \/ CancelAllAndDisconnectCommand \/ CancelAllAndDoNotDisconnectCommand \/ DoNotDisconnect

-----------------------------------------------------------------------------
Init ==
    /\ protocol \in {"IMAP", "POP"} /\ mayRoam \in BOOLEAN
    /\ reception \in {"on", "off", "nodays"} /\ succeeded \in BOOLEAN
    /\ connected = FALSE /\ noNWOpsAllowed = FALSE /\ isRoaming = FALSE
    /\ logic = [state |-> "Error", timer |-> FALSE, errors |-> 0]
    /\ agent = [state |-> "Idle", active |-> FALSE, signal |-> FALSE, op |-> "none",
                result |-> "none", error |-> "none", doNotDisconnect |-> FALSE,
                marked |-> FALSE, panicked |-> FALSE, left |-> FALSE]
    /\ events = 0 /\ failures = 0

Next ==
    \/ TimerFired \/ RunL \/ OperationEnds \/ HandleImapConnectionEvent
    \/ Command \/ EntriesChanged \/ ConnectionChanges \/ SettingsChange

Spec == Init /\ [][Next]_vars

\* The thread's scheduler runs what is ready, timers fire, and the message server gets
\* done with an operation, or gives it up.
Fairness == WF_vars(RunL) /\ WF_vars(TimerFired) /\ WF_vars(OperationEnds)

FairSpec == Spec /\ Fairness

-----------------------------------------------------------------------------
(* Properties.                                                              *)

\* Every variable keeps its type; an operation has the agent active, which looks at its
\* end; and only a logic that waits has a timer.
TypeOK ==
    /\ protocol \in {"IMAP", "POP"} /\ mayRoam \in BOOLEAN /\ succeeded \in BOOLEAN
    /\ reception \in {"on", "off", "nodays"}
    /\ connected \in BOOLEAN /\ noNWOpsAllowed \in BOOLEAN /\ isRoaming \in BOOLEAN
    /\ logic \in [state : LogicStates, timer : BOOLEAN, errors : 0..MaxReTryTimes]
    /\ logic.timer => logic.state \in {"WaitSyncStart", "Suspended"}
    /\ agent \in Agents
    /\ agent.op \notin {"none", "failed"} => agent.active
    /\ events \in 0..MaxEvents /\ failures \in 0..MaxFailures

\* It waits for a timer that is not set.
Asleep(l) == l.state \in {"WaitSyncStart", "Suspended"} /\ ~l.timer

\* The logic does not wait for nothing, over all commands, errors and suspensions, but for
\* these ways to get there: a synchronisation that became due while it was suspended, one
\* that the agent was too busy for, and a function that left after it stopped the timer.
WakesUp ==
    [][ (Asleep(logic') /\ ~Asleep(logic)) =>
            \/ logic.state = "Suspended" /\ logic.timer
            \/ logic.state = "WaitSyncStart" /\ agent.op # "none"
            \/ failures' # failures ]_vars

\* A logic that was stopped, by a command or as its retries are used up, waits for
\* nothing, and its agent does nothing but disconnect.
StoppedIsQuiet ==
    logic.state = "Error" =>
        /\ agent.op \in {"none", "disconnect", "failed"}
        /\ agent.state \in {"Idle", "Completed"}

\* The mark that tells the world that the mailbox is being synchronised is not left behind
\* by an agent that does nothing any more, unless a function left that nobody took up:
\* the disconnection in RunError, after RunL left.
MarkIsTakenBack == agent.marked => agent.active \/ agent.panicked \/ agent.left

\* While the logic takes a synchronisation to be ongoing its agent is at work, unless a
\* function left that nobody took up: what the logic does on a completion, and the
\* disconnection that RunError, or a command that stops or cancels, asks for.
OngoingIsServed ==
    logic.state = "SyncOngoing" =>
        (agent.active /\ agent.state # "Idle") \/ agent.panicked \/ agent.left

\* A synchronisation ends: the agent calls the logic, whatever fails on the way and is taken
\* up by RunError, or a command ends it; but not if a function left that nobody took up.
SyncEnds == logic.state = "SyncOngoing" ~>
                (logic.state # "SyncOngoing" \/ agent.panicked \/ agent.left)

\* A suspension ends, also if the client does not continue the logic.
\* (IpsSosAOMboxLogic.cpp, SuspendOperations.)
SuspensionEnds == logic.state = "Suspended" ~> (logic.state # "Suspended" \/ agent.panicked)
=============================================================================
