------------------------- MODULE AlwaysOnline_proofs -------------------------
(***************************************************************************)
(* Theorems about the always-online logic, for any number of retries,       *)
(* commands and functions that leave.                                       *)
(***************************************************************************)
EXTENDS AlwaysOnline, TLAPS

\* What the agent is between two actions: an operation has it active; at rest it only
\* disconnects; and it is marked only as long as it is active, or as a function left that
\* nobody took up.
Good(a) ==
    /\ a \in Agents
    /\ a.op \notin {"none", "failed"} => a.active
    /\ a.state \in {"Idle", "Completed"} => a.op \in {"none", "disconnect", "failed"}
    /\ a.marked => a.active \/ a.panicked \/ a.left
    /\ a.state = "Idle" => ~a.marked \/ a.panicked \/ a.left

\* It is at work, or was left alone.
Working(a) == (a.active /\ a.state # "Idle") \/ a.left

\* What it is within its RunL.
Mid(a) ==
    /\ a \in Agents
    /\ a.op = "none"
    /\ a.state = "Idle" => ~a.marked \/ a.panicked \/ a.left

\* Before the first command nothing runs.
Untouched == events = 0 => ~logic.timer /\ agent.op = "none" /\ ~agent.active

Logics == [state : LogicStates, timer : BOOLEAN, errors : 0..MaxReTryTimes]

GoodLogic(l) == l \in Logics /\ (l.timer => l.state \in {"WaitSyncStart", "Suspended"})

\* A logic l with an agent a is as OngoingIsServed says.
Served(l, a) == l.state = "SyncOngoing" => Working(a) \/ a.panicked

\* The same action property as WakesUp, of one step.
WakeStep == (Asleep(logic') /\ ~Asleep(logic)) =>
                \/ logic.state = "Suspended" /\ logic.timer
                \/ logic.state = "WaitSyncStart" /\ agent.op # "none"
                \/ failures' # failures

Inv == /\ TypeOK /\ StoppedIsQuiet /\ MarkIsTakenBack /\ OngoingIsServed
       /\ Good(agent) /\ Untouched

-----------------------------------------------------------------------------
(* What the operators on the agent do.                                        *)

\* Cancelling leaves no operation that goes on and no mark.
LEMMA Cancelled ==
    ASSUME NEW a \in Agents, a.op \notin {"none", "failed"} => a.active
    PROVE  /\ Cancel(a) \in Agents /\ Cancel(a).op \in {"none", "failed"} /\ ~Cancel(a).active
           /\ Cancel(a).state = a.state /\ Cancel(a).panicked = a.panicked
           /\ Cancel(a).left = a.left
           /\ Cancel(a).marked => a.marked /\ ~a.active
  BY DEF Cancel, Agents

\* The agent is set active, or completed.
LEMMA Activated ==
    ASSUME NEW a \in Agents
    PROVE  /\ SetActive(a) \in Agents /\ SetActive(a).active /\ SetActive(a).op = a.op
           /\ SetActive(a).state = a.state /\ SetActive(a).marked = a.marked
           /\ SetActiveAndCompleteThis(a) \in Agents /\ SetActiveAndCompleteThis(a).active
           /\ SetActiveAndCompleteThis(a).op = a.op
           /\ SetActiveAndCompleteThis(a).state = a.state
           /\ SetActiveAndCompleteThis(a).marked = a.marked
  BY DEF SetActive, SetActiveAndCompleteThis, Agents

\* Disconnecting leaves an idle agent as it is, and another one completed, which is active
\* or was left alone.
LEMMA Disconnected ==
    ASSUME NEW a \in Agents, NEW how \in Invocations,
           a.op \notin {"none", "failed"} => a.active
    PROVE  LET d == CancelAllAndDisconnect(a, how)
           IN /\ a.state = "Idle" => d = a
              /\ a.state # "Idle" => Good(d) /\ d.state = "Completed" /\ Working(d)
              /\ Leaves(a, how) => d.left /\ d.op \in {"none", "failed"}
              /\ (d.marked /\ a.state # "Idle") => a.marked /\ ~a.active
<1> DEFINE c == [Cancel(a) EXCEPT !.doNotDisconnect = FALSE, !.state = "Completed"]
           d == [c EXCEPT !.op = "disconnect"]
           x == [c EXCEPT !.left = TRUE]
<1>1. /\ c \in Agents /\ c.op \in {"none", "failed"} /\ c.state = "Completed"
      /\ c.marked = Cancel(a).marked
  BY Cancelled DEF Agents, AgentStates
<1>2. /\ d \in Agents /\ d.op = "disconnect" /\ d.state = "Completed"
      /\ d.marked = c.marked
  BY <1>1 DEF Agents
<1>3. x \in Agents /\ x.op = c.op /\ x.state = "Completed" /\ x.left /\ x.marked = c.marked
  BY <1>1 DEF Agents
<1>4. CASE a.state = "Idle"
  BY <1>4 DEF CancelAllAndDisconnect, Leaves
<1>5. CASE a.state # "Idle"
  <2>1. \/ CancelAllAndDisconnect(a, how) = SetActive(d) /\ ~Leaves(a, how)
        \/ CancelAllAndDisconnect(a, how) = x
        \/ CancelAllAndDisconnect(a, how) = SetActiveAndCompleteThis(c) /\ ~Leaves(a, how)
    BY <1>5 DEF CancelAllAndDisconnect, Leaves, Invocations
  <2>2. c.marked => a.marked /\ ~a.active
    BY <1>1, Cancelled
  <2> HIDE DEF c, d, x
  <2>3. CASE CancelAllAndDisconnect(a, how) = SetActive(d) /\ ~Leaves(a, how)
    BY <1>2, <1>5, <2>2, <2>3, Activated DEF Good, Working
  <2>4. CASE CancelAllAndDisconnect(a, how) = x
    BY <1>1, <1>3, <1>5, <2>2, <2>4 DEF Good, Working
  <2>5. CASE CancelAllAndDisconnect(a, how) = SetActiveAndCompleteThis(c) /\ ~Leaves(a, how)
    BY <1>1, <1>5, <2>2, <2>5, Activated DEF Good, Working
  <2>6. QED  BY <2>1, <2>3, <2>4, <2>5
<1>6. QED  BY <1>4, <1>5

\* A good agent stays good when it is made to disconnect, and the logic served.
LEMMA DisconnectedGood ==
    ASSUME NEW a, Good(a), NEW how \in Invocations
    PROVE  LET d == CancelAllAndDisconnect(a, how)
           IN /\ Good(d) /\ d.state \in {"Idle", "Completed"}
              /\ \A l : Served(l, a) => Served(l, d)
<1>1. CASE a.state = "Idle"
  BY <1>1, Disconnected DEF Good
<1>2. CASE a.state # "Idle"
  BY <1>2, Disconnected DEF Good, Served
<1>3. QED  BY <1>1, <1>2

\* The logic starts a synchronisation with an agent that has no operation.
LEMMA SyncStarted ==
    ASSUME NEW a \in Agents, a.op = "none"
    PROVE  Good(StartSync(a)) /\ Working(StartSync(a))
<1> DEFINE e == [a EXCEPT !.error = "cancel", !.state = "Completed"]
           o == [a EXCEPT !.op = "sync"]
<1>1. e \in Agents /\ e.op = "none" /\ e.state = "Completed"
  BY DEF Agents, AgentStates, Results
<1>2. o \in Agents /\ o.op = "sync"
  BY DEF Agents
<1> HIDE DEF e, o
<1>3. CASE connected
  <2>1. StartSync(a) = SetActiveAndCompleteThis(e)
    BY <1>3 DEF StartSync, e
  <2>2. QED  BY <1>1, <2>1, Activated DEF Good, Working
<1>4. CASE ~connected
  <2> DEFINE p == [SetActive(o) EXCEPT !.state = "ConnectAndSync"]
  <2>1. StartSync(a) = p
    BY <1>4 DEF StartSync, o
  <2>2. SetActive(o) \in Agents /\ SetActive(o).active
    BY <1>2, Activated
  <2>3. p \in Agents /\ p.active /\ p.state = "ConnectAndSync"
    BY <2>2 DEF Agents, AgentStates
  <2>4. QED  BY <2>1, <2>3 DEF Good, Working
<1>5. QED  BY <1>3, <1>4

\* The agent, in its RunL, goes on to another state.
LEMMA WentOn ==
    ASSUME NEW a, Mid(a), NEW s \in AgentStates, s # "Idle"
    PROVE  LET g == SetActiveAndCompleteThis([a EXCEPT !.state = s])
           IN Good(g) /\ g.state = s /\ Working(g)
<1> DEFINE b == [a EXCEPT !.state = s]
<1>1. b \in Agents /\ b.op = "none" /\ b.state = s
  BY DEF Mid, Agents
<1> HIDE DEF b
<1>2. /\ SetActiveAndCompleteThis(b) \in Agents /\ SetActiveAndCompleteThis(b).active
      /\ SetActiveAndCompleteThis(b).op = "none" /\ SetActiveAndCompleteThis(b).state = s
  BY <1>1, Activated
<1>3. Good(SetActiveAndCompleteThis(b)) /\ Working(SetActiveAndCompleteThis(b))
  BY <1>2 DEF Good, Working
<1>4. QED  BY <1>2, <1>3 DEF b

\* Populating.
LEMMA Populated ==
    ASSUME NEW a, Mid(a), a.state # "Idle",
           connected \in BOOLEAN, protocol \in {"IMAP", "POP"}
    PROVE  Good(PopulateAll(a)) /\ Working(PopulateAll(a))
<1>1. CASE ~connected
  <2> DEFINE b == [a EXCEPT !.marked = FALSE]
  <2>1. b \in Agents /\ b.op = "none" /\ b.state = a.state /\ "accepted" \in Invocations
    BY DEF Mid, Agents, Invocations
  <2>2. PopulateAll(a) = CancelAllAndDisconnect(b, "accepted")
    BY <1>1 DEF PopulateAll
  <2> HIDE DEF b
  <2>3. QED  BY <2>1, <2>2, Disconnected
<1>2. CASE connected /\ protocol = "POP"
  <2> DEFINE o == [a EXCEPT !.op = "populate"]
             p == [SetActive(o) EXCEPT !.state = "Disconnect", !.marked = TRUE]
  <2>1. o \in Agents
    BY DEF Mid, Agents
  <2>2. SetActive(o) \in Agents /\ SetActive(o).active
    BY <2>1, Activated
  <2>3. p \in Agents /\ p.active /\ p.state = "Disconnect"
    BY <2>2 DEF Agents, AgentStates
  <2>4. PopulateAll(a) = p
    BY <1>2 DEF PopulateAll
  <2> HIDE DEF p
  <2>5. QED  BY <2>3, <2>4 DEF Good, Working
<1>3. CASE connected /\ protocol = "IMAP"
  <2> DEFINE b == [a EXCEPT !.state = "Disconnect", !.marked = TRUE]
  <2>1. b \in Agents /\ b.op = "none" /\ b.state = "Disconnect"
    BY DEF Mid, Agents, AgentStates
  <2>2. PopulateAll(a) = SetActiveAndCompleteThis(b)
    BY <1>3 DEF PopulateAll
  <2> HIDE DEF b
  <2>3. QED  BY <2>1, <2>2, Activated DEF Good, Working
<1>4. QED  BY <1>1, <1>2, <1>3

\* RunL left: the agent is completed and active, or was left alone.
LEMMA Recovered ==
    ASSUME NEW a \in Agents, a.op \in {"none", "failed"}, a.state # "Idle",
           NEW how \in Invocations
    PROVE  /\ Good(RunError(a, how)) /\ Working(RunError(a, how))
           /\ RunError(a, how).state = "Completed"
<1>1. CASE connected
  <2> DEFINE b == [a EXCEPT !.error = "error"]
  <2>1. b \in Agents /\ b.op = a.op /\ b.state = a.state
    BY DEF Agents, Results
  <2>2. RunError(a, how) = CancelAllAndDisconnect(b, how)
    BY <1>1 DEF RunError
  <2> HIDE DEF b
  <2>3. QED  BY <2>1, <2>2, Disconnected
<1>2. CASE ~connected
  <2> DEFINE b(e) == [a EXCEPT !.state = "Completed", !.error = e]
  <2>1. \A e \in Results : b(e) \in Agents /\ b(e).op = a.op /\ b(e).state = "Completed"
    BY DEF Agents, AgentStates
  <2>2. \/ RunError(a, how) = SetActiveAndCompleteThis(b("cancel"))
        \/ RunError(a, how) = SetActiveAndCompleteThis(b("error"))
    BY <1>2 DEF RunError
  <2>3. "cancel" \in Results /\ "error" \in Results
    BY DEF Results
  <2> HIDE DEF b
  <2>4. QED  BY <2>1, <2>2, <2>3, Activated DEF Good, Working
<1>3. QED  BY <1>1, <1>2

\* The operation is over, and RunL goes on with the agent, or leaves.
LEMMA OperationIsDone ==
    ASSUME NEW a, Good(a), NEW how \in Invocations
    PROVE  LET b == [a EXCEPT !.active = FALSE, !.signal = FALSE]
               d == OperationDone(b, how)
               leaves == HasFailed(b) /\ Leaves(b, how)
           IN /\ d \in Agents
              /\ leaves => d.op = "failed" /\ d.state = "Completed"
              /\ ~leaves => Mid(d)
              /\ a.state \in {"Idle", "Completed"} => d.state \in {"Idle", "Completed"}
              /\ a.state # "Idle" => d.state # "Idle"
              /\ a.state = "Idle" => d.left = a.left
<1> DEFINE b == [a EXCEPT !.active = FALSE, !.signal = FALSE]
           d == OperationDone(b, how)
           leaves == HasFailed(b) /\ Leaves(b, how)
<1>1. /\ b \in Agents /\ b.op = a.op /\ b.state = a.state /\ b.marked = a.marked
      /\ b.panicked = a.panicked /\ b.result = a.result /\ ~b.active /\ b.left = a.left
  BY DEF Good, Agents
<1>2. CASE ~HasFailed(b)
  <2> DEFINE e == [b EXCEPT !.op = "none"]
  <2>1. d = e /\ ~leaves
    BY <1>2 DEF OperationDone
  <2>2. /\ e \in Agents /\ e.op = "none" /\ e.state = a.state /\ e.marked = a.marked
        /\ e.panicked = a.panicked /\ e.left = a.left
    BY <1>1 DEF Agents
  <2> HIDE DEF e
  <2>3. QED  BY <2>1, <2>2 DEF Mid, Good, Agents
<1>3. CASE HasFailed(b)
  <2> DEFINE x == [b EXCEPT !.error = b.result, !.marked = FALSE]
             y == CancelAllAndDisconnect(x, how)
             f == [y EXCEPT !.op = "failed"]
             e == [y EXCEPT !.op = "none", !.signal = y.active]
  <2>1. /\ x \in Agents /\ x.op = a.op /\ x.state = a.state /\ ~x.marked /\ ~x.active
        /\ x.left = a.left
    BY <1>1 DEF Agents
  <2>2. d = IF Leaves(b, how) THEN f ELSE e
    BY <1>3 DEF OperationDone
  <2>3. /\ y \in Agents /\ ~y.marked
        /\ a.state = "Idle" => y.state = "Idle" /\ y.left = a.left
        /\ a.state # "Idle" => y.state = "Completed"
    <3>1. CASE x.state = "Idle"
      BY <2>1, <3>1 DEF CancelAllAndDisconnect
    <3>2. CASE x.state # "Idle"
      <4> DEFINE c == [Cancel(x) EXCEPT !.doNotDisconnect = FALSE, !.state = "Completed"]
                 o == [c EXCEPT !.op = "disconnect"]
                 z == [c EXCEPT !.left = TRUE]
      <4>0. Cancel(x) = x
        BY <2>1 DEF Cancel
      <4>1. c \in Agents /\ c.state = "Completed" /\ ~c.marked
        BY <2>1, <4>0 DEF Agents, AgentStates
      <4>2. /\ o \in Agents /\ o.state = "Completed" /\ ~o.marked
            /\ z \in Agents /\ z.state = "Completed" /\ ~z.marked
        BY <4>1 DEF Agents
      <4>3. y = SetActive(o) \/ y = SetActiveAndCompleteThis(c) \/ y = z
        BY <3>2 DEF CancelAllAndDisconnect, Invocations
      <4> HIDE DEF c, o, y, x, z
      <4>4. QED  BY <2>1, <3>2, <4>1, <4>2, <4>3, Activated
    <3>3. QED  BY <3>1, <3>2
  <2>4. Leaves(b, how) => a.state # "Idle"
    BY <1>1 DEF Leaves
  <2> HIDE DEF y
  <2>5. /\ e \in Agents /\ e.op = "none" /\ ~e.marked /\ e.state = y.state /\ e.left = y.left
        /\ f \in Agents /\ f.op = "failed" /\ f.state = y.state
    BY <2>3 DEF Agents
  <2>6. leaves <=> Leaves(b, how)
    BY <1>3
  <2> HIDE DEF e, f, d, leaves
  <2>7. /\ d \in Agents
        /\ leaves => d.op = "failed" /\ d.state = "Completed"
        /\ ~leaves => Mid(d)
        /\ a.state \in {"Idle", "Completed"} => d.state \in {"Idle", "Completed"}
        /\ a.state # "Idle" => d.state # "Idle"
        /\ a.state = "Idle" => d.left = a.left
    <3>1. CASE leaves
      BY <2>2, <2>3, <2>4, <2>5, <2>6, <3>1
    <3>2. CASE ~leaves
      BY <2>2, <2>3, <2>5, <2>6, <3>2 DEF Mid
    <3>3. QED  BY <3>1, <3>2
  <2>8. QED  BY <2>7 DEF d, leaves
<1>4. QED  BY <1>2, <1>3

\* The agent after it has told the logic of its end, which may have left.
LEMMA Finished ==
    ASSUME NEW a \in Agents, a.op \in {"none", "disconnect", "failed"},
           a.op \notin {"none", "failed"} => a.active
    PROVE  LET d == AfterCompletion(a)
               left == [d EXCEPT !.left = TRUE]
           IN /\ Good(d) /\ d.state = "Idle" /\ d.left = a.left
              /\ Good(left) /\ left.state = "Idle" /\ left.left
<1> DEFINE b == [a EXCEPT !.marked = FALSE, !.error = "none", !.state = "Idle"]
           c == [b EXCEPT !.left = TRUE]
<1>1. /\ b \in Agents /\ b.op = a.op /\ b.active = a.active /\ ~b.marked /\ b.state = "Idle"
      /\ b.left = a.left
  BY DEF Agents, AgentStates, Results
<1>2. AfterCompletion(a) = b
  BY DEF AfterCompletion
<1> HIDE DEF b
<1>3. /\ c \in Agents /\ c.op = a.op /\ c.active = a.active /\ ~c.marked /\ c.state = "Idle"
      /\ c.left
  BY <1>1 DEF Agents
<1>4. [AfterCompletion(a) EXCEPT !.left = TRUE] = c
  BY <1>2
<1> HIDE DEF c
<1>5. Good(c) /\ Good(b)
  BY <1>1, <1>3 DEF Good
<1>6. QED  BY <1>1, <1>2, <1>3, <1>4, <1>5

-----------------------------------------------------------------------------
(* What the logic does.                                                       *)

\* It waits with its timer, or for commands.
LEMMA Waits ==
    ASSUME NEW l \in Logics
    PROVE  LET calm(k) == /\ GoodLogic(k) /\ k.state \notin {"Error", "SyncOngoing"}
                          /\ ~Asleep(k)
           IN calm(Wait(l)) /\ calm(IdleAndWaitCommands(l)) /\ calm(CalculateToNextInterval(l))
<1>1. /\ GoodLogic(Wait(l)) /\ Wait(l).state \notin {"Error", "SyncOngoing"} /\ ~Asleep(Wait(l))
  BY DEF GoodLogic, Wait, Logics, LogicStates, Asleep
<1>2. /\ GoodLogic(IdleAndWaitCommands(l))
      /\ IdleAndWaitCommands(l).state \notin {"Error", "SyncOngoing"}
      /\ ~Asleep(IdleAndWaitCommands(l))
  BY DEF GoodLogic, IdleAndWaitCommands, Logics, LogicStates, Asleep
<1>3. QED  BY <1>1, <1>2 DEF CalculateToNextInterval

\* A function left: the bound is kept.
LEMMA LeaveCounts ==
    ASSUME failures \in 0..MaxFailures, Leave
    PROVE  failures' \in 0..MaxFailures /\ failures' # failures
  BY BoundsType DEF Leave

\* It starts a synchronisation, or that leaves.
LEMMA LogicStarts ==
    ASSUME Inv, NEW l \in Logics, ~l.timer, l.state \in {"WaitSyncStart", "IdleAndWaitCommands"},
           LogicStartsSync(l)
    PROVE  /\ Good(agent') /\ failures' \in 0..MaxFailures
           /\ GoodLogic(logic') /\ logic'.state # "Error" /\ Served(logic', agent')
           /\ \/ ~Asleep(logic')
              \/ logic' = l /\ (agent.op # "none" \/ failures' # failures)
<1> DEFINE o == [l EXCEPT !.state = "SyncOngoing"]
<1>1. GoodLogic(o) /\ o.state # "Error" /\ ~Asleep(o)
  BY DEF GoodLogic, Logics, LogicStates, Asleep
<1>2. GoodLogic(l) /\ failures \in 0..MaxFailures /\ MaxFailures \in Nat /\ agent \in Agents
  BY BoundsType DEF GoodLogic, Inv, TypeOK
<1>3. CASE agent.op = "none" /\ agent' = StartSync(agent) /\ logic' = o /\ UNCHANGED failures
  <2> HIDE DEF o
  <2>1. QED  BY <1>1, <1>2, <1>3, SyncStarted DEF Served
<1>4. CASE /\ agent.op # "none" \/ failures < MaxFailures
           /\ failures' = failures + (IF agent.op = "none" THEN 1 ELSE 0)
           /\ logic' = l /\ UNCHANGED agent
  <2>1. failures' \in 0..MaxFailures /\ (agent.op # "none" \/ failures' # failures)
    BY <1>2, <1>4
  <2>2. QED  BY <1>2, <1>4, <2>1 DEF Inv, Served
<1>5. QED  BY <1>3, <1>4 DEF LogicStartsSync

\* Its timer fired.
LEMMA Scheduled ==
    ASSUME Inv, NEW l \in Logics, ~l.timer, l.state \in {"WaitSyncStart", "Suspended"},
           CheckScheduling(l)
    PROVE  /\ Good(agent') /\ failures' \in 0..MaxFailures
           /\ GoodLogic(logic') /\ logic'.state # "Error" /\ Served(logic', agent')
           /\ \/ ~Asleep(logic')
              \/ l.state = "Suspended"
              \/ l.state = "WaitSyncStart" /\ (agent.op # "none" \/ failures' # failures)
<1>1. Good(agent) /\ failures \in 0..MaxFailures
  BY DEF Inv, TypeOK
<1>2. CASE logic' = IdleAndWaitCommands(l) /\ UNCHANGED <<agent, failures>>
  BY <1>1, <1>2, Waits DEF Served
<1>3. CASE logic' = Wait(l) /\ UNCHANGED <<agent, failures>>
  BY <1>1, <1>3, Waits DEF Served
<1>4. CASE l.state = "WaitSyncStart" /\ LogicStartsSync(l)
  BY <1>4, LogicStarts
<1>5. CASE l.state = "Suspended" /\ logic' = l /\ UNCHANGED <<agent, failures>>
  BY <1>1, <1>5 DEF GoodLogic, Served
<1>6. CASE Leave /\ logic' = l /\ UNCHANGED agent
  BY <1>1, <1>6, LeaveCounts DEF GoodLogic, Served
<1>7. QED  BY <1>2, <1>3, <1>4, <1>5, <1>6 DEF CheckScheduling

\* The agent in its RunL told it that it is done.
LEMMA Told ==
    ASSUME Inv, NEW a, Mid(a), a.state = "Completed", NEW how \in Invocations,
           OperationCompleted(a, how)
    PROVE  /\ Good(agent') /\ agent'.state = "Idle"
           /\ GoodLogic(logic') /\ Served(logic', agent')
           /\ Asleep(logic') => Asleep(logic)
           /\ reception' \in {"on", "off", "nodays"} /\ succeeded' \in BOOLEAN
           /\ failures' \in 0..MaxFailures
           /\ UNCHANGED <<protocol, mayRoam>>
<1> DEFINE l == [logic EXCEPT !.errors = Errors(a.error)]
           e == [l EXCEPT !.state = "Error", !.errors = 0]
           d == CancelAllAndDisconnect(a, how)
           left == [AfterCompletion(a) EXCEPT !.left = TRUE]
<1>1. /\ GoodLogic(logic) /\ logic \in Logics /\ MaxReTryTimes \in Nat
      /\ reception \in {"on", "off", "nodays"} /\ succeeded \in BOOLEAN
      /\ failures \in 0..MaxFailures
  BY BoundsType DEF Inv, TypeOK, GoodLogic, Logics
<1>2. Errors(a.error) \in 0..MaxReTryTimes
  BY <1>1 DEF Errors, Logics
<1>3. l \in Logics /\ l.timer = logic.timer /\ l.state = logic.state
  BY <1>1, <1>2 DEF Logics
<1>4. /\ logic.state = "SyncOngoing" => GoodLogic(e) /\ ~Asleep(e)
      /\ e.state = "Error"
  <2>1. logic.state = "SyncOngoing" => ~logic.timer
    BY <1>1 DEF GoodLogic
  <2>2. e.timer = l.timer /\ e.state = "Error" /\ e \in Logics
    <3>1. 0 \in 0..MaxReTryTimes /\ "Error" \in LogicStates
      BY <1>1 DEF LogicStates
    <3>2. PICK k : k = l
      OBVIOUS
    <3>3. e = [k EXCEPT !.state = "Error", !.errors = 0] /\ k \in Logics
      BY <1>3, <3>2
    <3>4. e.timer = k.timer /\ e.state = "Error" /\ e \in Logics
      <4> HIDE DEF e
      <4>1. QED  BY <3>1, <3>3 DEF Logics
    <3>5. QED  BY <3>2, <3>4
  <2> HIDE DEF e
  <2>3. QED  BY <1>3, <2>1, <2>2 DEF GoodLogic, Asleep
<1>5. /\ Good(AfterCompletion(a)) /\ AfterCompletion(a).state = "Idle"
      /\ Good(left) /\ left.state = "Idle" /\ left.left
  BY Finished DEF Mid
<1>6. /\ Good(AfterCompletion(d)) /\ AfterCompletion(d).state = "Idle"
      /\ Leaves(a, how) => AfterCompletion(d).left
  <2>1. Good(d) /\ d.state = "Completed" /\ (Leaves(a, how) => d.left)
    BY Disconnected DEF Mid
  <2>2. QED  BY <2>1, Finished DEF Good
<1>7. /\ reception' \in {reception, "off"} /\ succeeded' \in BOOLEAN
      /\ UNCHANGED <<protocol, mayRoam>>
      /\ failures' = failures \/ Leave
  BY <1>1 DEF OperationCompleted, settings
<1>8. /\ reception' \in {"on", "off", "nodays"} /\ failures' \in 0..MaxFailures
  BY <1>1, <1>7, LeaveCounts
\* What it makes of the logic, and of the agent if a synchronisation goes on for the logic.
<1>9. \/ logic' = logic /\ logic.state # "SyncOngoing" /\ agent' = AfterCompletion(a)
      \/ logic.state = "SyncOngoing" /\ logic' = e /\ agent' = AfterCompletion(d)
      \/ logic' = l /\ agent' = AfterCompletion(d) /\ Leaves(a, how)
      \/ /\ logic' \in {IdleAndWaitCommands(l), Wait(l), CalculateToNextInterval(l)}
         /\ agent' = AfterCompletion(a)
      \/ logic' \in {logic, l} /\ agent' = left
  BY DEF OperationCompleted
<1>10. Good(agent') /\ agent'.state = "Idle"
  <2> HIDE DEF d, left, e, l
  <2>1. QED  BY <1>5, <1>6, <1>9
<1>11. /\ GoodLogic(logic') /\ (Asleep(logic') => Asleep(logic)) /\ Served(logic', agent')
  <2> HIDE DEF l, e, d, left
  <2>1. GoodLogic(l) /\ (Asleep(l) => Asleep(logic))
    BY <1>1, <1>3 DEF GoodLogic, Asleep
  <2>2. CASE logic' = logic /\ logic.state # "SyncOngoing"
    BY <1>1, <2>2 DEF Served
  <2>3. CASE logic.state = "SyncOngoing" /\ logic' = e
    BY <1>4, <2>3 DEF Served
  <2>4. CASE logic' \in {logic, l} /\ agent'.left
    BY <1>1, <2>1, <2>4 DEF Served, Working
  <2>5. CASE logic' \in {IdleAndWaitCommands(l), Wait(l), CalculateToNextInterval(l)}
    BY <1>3, <2>5, Waits DEF Served
  <2>6. QED  BY <1>5, <1>6, <1>9, <2>2, <2>3, <2>4, <2>5
<1>12. QED  BY <1>7, <1>8, <1>10, <1>11

-----------------------------------------------------------------------------
(* Each step.                                                                 *)

\* At the beginning nothing runs.
LEMMA InitInv == Init => Inv
<1> SUFFICES ASSUME Init PROVE Inv
  OBVIOUS
<1>1. Good(agent) /\ agent.state = "Idle" /\ agent.op = "none" /\ ~agent.active /\ ~agent.marked
  BY DEF Init, Good, Agents, AgentStates, Results
<1>2. GoodLogic(logic) /\ ~logic.timer /\ logic.state = "Error"
  BY BoundsType DEF Init, GoodLogic, Logics, LogicStates
<1>3. /\ protocol \in {"IMAP", "POP"} /\ mayRoam \in BOOLEAN /\ succeeded \in BOOLEAN
      /\ reception \in {"on", "off", "nodays"}
      /\ connected \in BOOLEAN /\ noNWOpsAllowed \in BOOLEAN /\ isRoaming \in BOOLEAN
  BY DEF Init
<1>4. events \in 0..MaxEvents /\ failures \in 0..MaxFailures
  BY BoundsType DEF Init
<1>5. QED
  BY <1>1, <1>2, <1>3, <1>4
  DEF Inv, TypeOK, StoppedIsQuiet, MarkIsTakenBack, OngoingIsServed, Untouched, GoodLogic,
      Logics, Good

\* What a run of the agent keeps.
Ran == /\ UNCHANGED <<protocol, mayRoam>>
       /\ succeeded' \in BOOLEAN /\ reception' \in {"on", "off", "nodays"}
       /\ GoodLogic(logic') /\ Good(agent') /\ Served(logic', agent')
       /\ logic'.state = "Error" => agent'.state \in {"Idle", "Completed"}
       /\ failures' \in 0..MaxFailures
       /\ Asleep(logic') => Asleep(logic)

\* The agent's RunL, whichever state it finds and whatever leaves.
LEMMA RunLRan ==
    ASSUME Inv, RunL
    PROVE  Ran
<1> DEFINE before == [agent EXCEPT !.active = FALSE, !.signal = FALSE]
           leaves(how) == HasFailed(before) /\ Leaves(before, how)
<1>1. /\ protocol \in {"IMAP", "POP"} /\ succeeded \in BOOLEAN /\ connected \in BOOLEAN
      /\ reception \in {"on", "off", "nodays"}
      /\ GoodLogic(logic) /\ failures \in 0..MaxFailures /\ MaxFailures \in Nat
      /\ Good(agent) /\ (logic.state = "SyncOngoing" => agent.state # "Idle" \/ agent.left)
      /\ logic.state = "Error" => agent.state \in {"Idle", "Completed"}
  BY BoundsType
  DEF Inv, TypeOK, StoppedIsQuiet, OngoingIsServed, GoodLogic, Logics, RunL, Running
<1>2. PICK how \in Invocations, again \in Invocations :
         \/ leaves(how) /\ RunLeft(OperationDone(before, how), again)
         \/ ~leaves(how) /\ RunLWith(OperationDone(before, how), how, again)
  BY DEF RunL
<1>3. PICK a : a = OperationDone(before, how)
  OBVIOUS
<1>4. /\ a \in Agents
      /\ leaves(how) => a.op = "failed" /\ a.state = "Completed"
      /\ ~leaves(how) => Mid(a)
      /\ agent.state \in {"Idle", "Completed"} => a.state \in {"Idle", "Completed"}
      /\ agent.state # "Idle" => a.state # "Idle"
      /\ agent.state = "Idle" => a.left = agent.left
  BY <1>1, <1>3, OperationIsDone
<1> HIDE DEF before, leaves
\* The logic is not told, and the agent goes on.
<1>5. ASSUME UNCHANGED <<settings, logic>>, failures' \in 0..MaxFailures,
             Good(agent'), Working(agent'),
             a.state \notin {"Idle", "Completed"} \/ agent'.state \in {"Idle", "Completed"}
      PROVE  Ran
  BY <1>1, <1>4, <1>5 DEF settings, Ran, Served
\* It left.
<1>6. ASSUME NEW b \in Agents, b.op \in {"none", "failed"}, b.state # "Idle", RunLeft(b, again)
      PROVE  Ran
  <2>1. failures' \in 0..MaxFailures
    BY <1>1, <1>6 DEF RunLeft
  <2>2. /\ Good(agent') /\ Working(agent') /\ agent'.state = "Completed"
        /\ UNCHANGED <<settings, logic>>
    BY <1>6, Recovered DEF RunLeft
  <2>3. QED  BY <1>5, <2>1, <2>2
<1>7. CASE leaves(how)
  BY <1>2, <1>3, <1>4, <1>6, <1>7
<1>8. CASE ~leaves(how)
  <2>1. Mid(a) /\ RunLWith(a, how, again)
    BY <1>2, <1>3, <1>4, <1>8
  <2>2. CASE /\ a.state = "ConnectAndSync"
             /\ agent' = SetActiveAndCompleteThis([a EXCEPT !.state =
                             IF protocol = "IMAP" THEN "RefreshFolderArray" ELSE "PopulateAll"])
             /\ UNCHANGED <<settings, logic, failures>>
    <3>1. PICK s \in {"RefreshFolderArray", "PopulateAll"} :
             s = IF protocol = "IMAP" THEN "RefreshFolderArray" ELSE "PopulateAll"
      OBVIOUS
    <3>2. agent' = SetActiveAndCompleteThis([a EXCEPT !.state = s])
      BY <2>2, <3>1
    <3>3. s \in AgentStates /\ s # "Idle"
      BY DEF AgentStates
    <3>4. Good(agent') /\ Working(agent')
      BY <2>1, <3>2, <3>3, WentOn
    <3>5. QED  BY <1>1, <1>5, <2>2, <3>4
  <2>3. CASE /\ a.state = "ConnectAndSyncOnHold" /\ agent' = StartSync(a)
             /\ UNCHANGED <<settings, logic, failures>>
    <3>1. Good(agent') /\ Working(agent')
      BY <2>1, <2>3, SyncStarted DEF Mid
    <3>2. QED  BY <1>1, <1>5, <2>3, <3>1
  <2>4. CASE /\ a.state = "RefreshFolderArray"
             /\ agent' = SetActiveAndCompleteThis([a EXCEPT !.state = "PopulateAll"])
             /\ UNCHANGED <<settings, logic, failures>>
    <3>1. "PopulateAll" \in AgentStates
      BY DEF AgentStates
    <3>2. Good(agent') /\ Working(agent')
      BY <2>1, <2>4, <3>1, WentOn
    <3>3. QED  BY <1>1, <1>5, <2>4, <3>2
  <2>5. CASE /\ a.state \in {"PopulateAll", "PopulateOnHold"} /\ agent' = PopulateAll(a)
             /\ UNCHANGED <<settings, logic, failures>>
    <3>1. Good(agent') /\ Working(agent')
      BY <1>1, <2>1, <2>5, Populated
    <3>2. QED  BY <1>1, <1>5, <2>5, <3>1
  <2>6. CASE MayLeave(a) /\ RunLeft(a, again)
    BY <1>6, <2>1, <2>6 DEF Mid, MayLeave
  <2>7. CASE /\ a.state = "Disconnect"
             /\ agent' = SetActiveAndCompleteThis([a EXCEPT !.state = "Completed"])
             /\ UNCHANGED <<settings, logic, failures>>
    <3>1. "Completed" \in AgentStates
      BY DEF AgentStates
    <3>2. Good(agent') /\ Working(agent')
      BY <2>1, <2>7, <3>1, WentOn
    <3>3. QED  BY <1>1, <1>5, <2>7, <3>2
  <2>8. CASE /\ a.state = "Disconnect" /\ agent' = CancelAllAndDisconnect(a, how)
             /\ UNCHANGED <<settings, logic, failures>>
    <3>1. Good(agent') /\ Working(agent')
      BY <2>1, <2>8, Disconnected DEF Mid
    <3>2. QED  BY <1>1, <1>5, <2>8, <3>1
  <2>9. CASE /\ a.state = "Disconnect" /\ Leaves(a, how)
             /\ RunLeft(CancelAllAndDisconnect(a, how), again)
    <3>1. PICK d : d = CancelAllAndDisconnect(a, how)
      OBVIOUS
    <3>2. d \in Agents /\ d.op \in {"none", "failed"} /\ d.state = "Completed"
      BY <2>1, <2>9, <3>1, Disconnected DEF Mid, Good
    <3>3. QED  BY <1>6, <2>9, <3>1, <3>2
  <2>10. CASE a.state = "Completed" /\ OperationCompleted(a, again)
    BY <2>1, <2>10, Told DEF Ran
  <2>11. CASE a.state = "Idle" /\ agent' = a /\ UNCHANGED <<settings, logic, failures>>
    <3>1. Good(agent') /\ (logic.state = "SyncOngoing" => agent'.left)
      BY <1>1, <1>4, <2>1, <2>11 DEF Mid, Good
    <3>2. QED  BY <1>1, <2>11, <3>1 DEF Ran, settings, Served, Working
  <2>12. QED
    BY <2>1, <2>2, <2>3, <2>4, <2>5, <2>6, <2>7, <2>8, <2>9, <2>10, <2>11 DEF RunLWith
<1>9. QED  BY <1>7, <1>8

\* Every step keeps the invariant, and puts the logic to sleep only as WakesUp says.
LEMMA StepInv == Inv /\ [Next]_vars => Inv' /\ WakeStep
<1> SUFFICES ASSUME Inv, [Next]_vars PROVE Inv' /\ WakeStep
  OBVIOUS
<1>1. /\ protocol \in {"IMAP", "POP"} /\ mayRoam \in BOOLEAN /\ succeeded \in BOOLEAN
      /\ reception \in {"on", "off", "nodays"}
      /\ connected \in BOOLEAN /\ noNWOpsAllowed \in BOOLEAN /\ isRoaming \in BOOLEAN
      /\ GoodLogic(logic) /\ logic \in Logics
      /\ events \in 0..MaxEvents /\ failures \in 0..MaxFailures
      /\ Good(agent) /\ agent \in Agents /\ Served(logic, agent)
      /\ logic.state = "Error" => agent.state \in {"Idle", "Completed"}
      /\ MaxEvents \in Nat /\ MaxFailures \in Nat
  BY BoundsType
  DEF Inv, TypeOK, StoppedIsQuiet, OngoingIsServed, GoodLogic, Logics, Served, Working
\* What a step has to show.
<1>2. ASSUME protocol' \in {"IMAP", "POP"}, mayRoam' \in BOOLEAN, succeeded' \in BOOLEAN,
             reception' \in {"on", "off", "nodays"},
             connected' \in BOOLEAN, noNWOpsAllowed' \in BOOLEAN, isRoaming' \in BOOLEAN,
             GoodLogic(logic'), Good(agent'), Served(logic', agent'),
             logic'.state = "Error" => agent'.state \in {"Idle", "Completed"},
             events' \in 0..MaxEvents, failures' \in 0..MaxFailures, Untouched'
      PROVE  Inv'
  BY <1>2
  DEF Inv, TypeOK, StoppedIsQuiet, MarkIsTakenBack, OngoingIsServed, GoodLogic, Logics, Good,
      Served, Working
<1>3. ASSUME UNCHANGED logic PROVE WakeStep
  BY <1>3 DEF WakeStep
<1>4. ASSUME Event PROVE events' \in 0..MaxEvents /\ Untouched'
  BY <1>1, <1>4 DEF Event, Untouched
<1>5. CASE UNCHANGED vars
  BY <1>1, <1>2, <1>3, <1>5 DEF vars, settings, network, Inv, Untouched
<1>6. CASE TimerFired
  <2>1. /\ UNCHANGED <<protocol, mayRoam, succeeded, reception>>
        /\ UNCHANGED <<connected, noNWOpsAllowed, isRoaming, events>> /\ logic.timer
    BY <1>6 DEF TimerFired, settings, network
  <2>2. Untouched'
    BY <2>1 DEF Inv, Untouched
  <2>3. CASE /\ logic' = [logic EXCEPT !.timer = FALSE, !.state = "SyncOngoing"]
             /\ agent' = SetActiveAndCompleteThis(agent) /\ OnHold(agent)
             /\ UNCHANGED failures
    <3>1. GoodLogic(logic') /\ logic'.state # "Error" /\ ~Asleep(logic')
      BY <1>1, <2>3 DEF GoodLogic, Logics, LogicStates, Asleep
    <3>2. Good(agent') /\ Working(agent')
      <4>1. agent.state \in {"ConnectAndSyncOnHold", "PopulateOnHold"}
        BY <2>3 DEF OnHold
      <4>2. /\ agent' \in Agents /\ agent'.active /\ agent'.state = agent.state
        BY <1>1, <2>3, Activated
      <4>3. QED  BY <4>1, <4>2 DEF Good, Working
    <3>3. QED  BY <1>1, <1>2, <2>1, <2>2, <2>3, <3>1, <3>2 DEF WakeStep, Served
  <2>4. CASE CheckScheduling([logic EXCEPT !.timer = FALSE])
    <3> DEFINE l == [logic EXCEPT !.timer = FALSE]
    <3>1. l \in Logics /\ ~l.timer /\ l.state = logic.state
      BY <1>1 DEF Logics
    <3>2. logic.state \in {"WaitSyncStart", "Suspended"}
      BY <1>1, <2>1 DEF GoodLogic
    <3> HIDE DEF l
    <3>3. /\ Good(agent') /\ failures' \in 0..MaxFailures
          /\ GoodLogic(logic') /\ logic'.state # "Error" /\ Served(logic', agent')
          /\ \/ ~Asleep(logic')
             \/ l.state = "Suspended"
             \/ l.state = "WaitSyncStart" /\ (agent.op # "none" \/ failures' # failures)
      BY <2>4, <3>1, <3>2, Scheduled DEF l
    <3>4. WakeStep
      BY <2>1, <3>1, <3>3 DEF WakeStep
    <3>5. QED  BY <1>1, <1>2, <2>1, <2>2, <3>3, <3>4
  <2>5. QED  BY <1>6, <2>3, <2>4 DEF TimerFired
<1>7. CASE RunL
  <2>1. UNCHANGED <<connected, noNWOpsAllowed, isRoaming, events>> /\ Untouched'
    BY <1>7 DEF RunL, network, Inv, Untouched
  <2>2. Ran
    BY <1>7, RunLRan
  <2>3. WakeStep
    BY <2>2 DEF Ran, WakeStep
  <2>4. QED  BY <1>1, <1>2, <2>1, <2>2, <2>3 DEF Ran
<1>8. CASE OperationEnds
  <2>1. PICK result \in Results :
           /\ agent' = [agent EXCEPT !.signal = TRUE, !.result = result]
           /\ connected' \in CASE result = "none" /\ agent.op = "sync" -> {TRUE}
                              [] result = "none" /\ agent.op = "populate" -> {connected}
                              [] result = "none" /\ agent.op = "disconnect" -> {FALSE}
                              [] result # "none" /\ agent.op = "sync" -> BOOLEAN
                              [] OTHER -> {connected, FALSE}
    BY <1>8 DEF OperationEnds
  <2>2. connected' \in BOOLEAN
    BY <1>1, <2>1
  <2>3. /\ UNCHANGED <<protocol, mayRoam, succeeded, reception>> /\ agent.op # "none"
        /\ UNCHANGED <<noNWOpsAllowed, isRoaming, logic, events, failures>>
    BY <1>8 DEF OperationEnds, settings
  <2>4. Good(agent') /\ agent'.state = agent.state /\ Served(logic, agent')
    BY <1>1, <2>1 DEF Good, Agents, Served, Working
  <2>5. Untouched'
    BY <2>3 DEF Inv, Untouched
  <2>6. QED  BY <1>1, <1>2, <1>3, <2>2, <2>3, <2>4, <2>5
<1>9. CASE HandleImapConnectionEvent
  <2>1. /\ UNCHANGED <<protocol, mayRoam, succeeded, reception, connected>>
        /\ UNCHANGED <<noNWOpsAllowed, isRoaming, logic, events, failures>>
        /\ agent.op = "sync" /\ agent' = [agent EXCEPT !.marked = TRUE]
    BY <1>9 DEF HandleImapConnectionEvent, settings, network
  <2>2. Good(agent') /\ agent'.state = agent.state /\ Served(logic, agent')
    BY <1>1, <2>1 DEF Good, Agents, Served, Working
  <2>3. Untouched'
    BY <2>1 DEF Inv, Untouched
  <2>4. QED  BY <1>1, <1>2, <1>3, <2>1, <2>2, <2>3
\* Commands that start and stop the logic.
<1>10. ASSUME NEW roaming \in BOOLEAN, Start(roaming)
       PROVE  /\ GoodLogic(logic') /\ WakeStep /\ failures' \in 0..MaxFailures
              /\ UNCHANGED agent /\ Served(logic', agent)
              /\ logic'.state = "Error" => logic.state = "Error"
  <2>1. CASE logic' = Wait(logic) /\ UNCHANGED <<agent, failures>>
    BY <1>1, <2>1, Waits DEF WakeStep, Served
  <2>2. CASE Leave /\ UNCHANGED <<agent, logic>>
    BY <1>1, <1>3, <2>2, LeaveCounts
  <2>3. CASE UNCHANGED <<agent, logic, failures>>
    BY <1>1, <1>3, <2>3
  <2>4. QED  BY <1>10, <2>1, <2>2, <2>3 DEF Start
<1>11. ASSUME NEW how \in Invocations, Stop(how)
       PROVE  /\ GoodLogic(logic') /\ WakeStep /\ failures' \in 0..MaxFailures
              /\ Good(agent') /\ Served(logic', agent')
              /\ logic'.state = "Error" => agent'.state \in {"Idle", "Completed"}
  <2>1. CASE UNCHANGED <<logic, agent, failures>>
    BY <1>1, <1>3, <2>1
  <2>2. CASE /\ logic' = [logic EXCEPT !.state = "Error", !.timer = FALSE]
             /\ agent' = CancelAllAndDisconnect(agent, how) /\ UNCHANGED failures
    <3>1. GoodLogic(logic') /\ ~Asleep(logic') /\ logic'.state = "Error"
      BY <1>1, <2>2 DEF GoodLogic, Logics, LogicStates, Asleep
    <3>2. Good(agent') /\ agent'.state \in {"Idle", "Completed"}
      BY <1>1, <2>2, DisconnectedGood
    <3>3. QED  BY <1>1, <2>2, <3>1, <3>2 DEF WakeStep, Served
  <2>3. CASE Leave /\ agent' = CancelAllAndDisconnect(agent, how) /\ UNCHANGED logic
    BY <1>1, <1>3, <2>3, LeaveCounts, DisconnectedGood
  <2>4. QED  BY <1>11, <2>1, <2>2, <2>3 DEF Stop
<1>12. CASE PluginStart
  <2>1. Event /\ Start(isRoaming) /\ UNCHANGED <<settings, network>>
    BY <1>12 DEF PluginStart
  <2>2. QED  BY <1>1, <1>2, <1>4, <1>10, <2>1 DEF settings, network
<1>13. CASE PluginStop
  <2>1. PICK how \in Invocations : Event /\ Stop(how) /\ UNCHANGED <<settings, network>>
    BY <1>13 DEF PluginStop
  <2>2. QED  BY <1>1, <1>2, <1>4, <1>11, <2>1 DEF settings, network
<1>14. CASE NWOpsNotAllowed
  <2>1. PICK how \in Invocations : Event /\ Stop(how) /\ noNWOpsAllowed' = TRUE
                                   /\ UNCHANGED <<settings, connected, isRoaming>>
    BY <1>14 DEF NWOpsNotAllowed
  <2>2. QED  BY <1>1, <1>2, <1>4, <1>11, <2>1 DEF settings
<1>15. CASE NWOpsAllowed
  <2>1. Event /\ Start(isRoaming) /\ noNWOpsAllowed' = FALSE
        /\ UNCHANGED <<settings, connected, isRoaming>>
    BY <1>15 DEF NWOpsAllowed
  <2>2. QED  BY <1>1, <1>2, <1>4, <1>10, <2>1 DEF settings
<1>16. CASE StartedRoaming
  <2>1. Event /\ isRoaming' = TRUE /\ UNCHANGED <<settings, connected, noNWOpsAllowed>>
    BY <1>16 DEF StartedRoaming
  <2>2. CASE UNCHANGED <<logic, agent>> /\ failures' \in 0..MaxFailures
    BY <1>1, <1>2, <1>3, <1>4, <2>1, <2>2 DEF settings
  <2>3. ASSUME NEW how \in Invocations, Stop(how) PROVE Inv' /\ WakeStep
    BY <1>1, <1>2, <1>4, <1>11, <2>1, <2>3 DEF settings
  <2>4. QED  BY <1>1, <1>16, <2>2, <2>3, LeaveCounts DEF StartedRoaming
<1>17. CASE StoppedRoaming
  <2>1. Event /\ Start(FALSE) /\ isRoaming' = FALSE
        /\ UNCHANGED <<settings, connected, noNWOpsAllowed>>
    BY <1>17 DEF StoppedRoaming
  <2>2. QED  BY <1>1, <1>2, <1>4, <1>10, <2>1 DEF settings
\* Suspending.
<1>18. CASE Suspend
  <2>1. /\ Event /\ UNCHANGED <<settings, network, failures>>
        /\ agent' = IF logic.state = "SyncOngoing" THEN HoldOperations(agent) ELSE agent
        /\ logic' = [logic EXCEPT !.state = "Suspended", !.timer = TRUE]
    BY <1>18 DEF Suspend
  <2>2. GoodLogic(logic') /\ ~Asleep(logic') /\ logic'.state = "Suspended"
    BY <1>1, <2>1 DEF GoodLogic, Logics, LogicStates, Asleep
  <2>3. Good(HoldOperations(agent))
    <3>1. /\ Cancel(agent) \in Agents /\ Cancel(agent).op \in {"none", "failed"}
          /\ Cancel(agent).marked => agent.marked /\ ~agent.active
          /\ Cancel(agent).panicked = agent.panicked /\ Cancel(agent).left = agent.left
      BY <1>1, Cancelled DEF Good
    <3>2. Cancel(agent).marked => agent.panicked \/ agent.left
      BY <1>1, <3>1 DEF Good
    <3>3. PICK h \in AgentStates : HoldOperations(agent) = [Cancel(agent) EXCEPT !.state = h]
      <4>1. PICK h : h = CASE agent.state = "PopulateAll" -> "PopulateOnHold"
                          [] agent.state = "ConnectAndSync" -> "ConnectAndSyncOnHold"
                          [] OTHER -> "Idle"
        OBVIOUS
      <4>2. h \in AgentStates
        BY <4>1 DEF AgentStates
      <4>3. QED  BY <4>1, <4>2 DEF HoldOperations
    <3> DEFINE g == [Cancel(agent) EXCEPT !.state = h]
    <3>4. /\ g \in Agents /\ g.op \in {"none", "failed"}
          /\ g.marked => agent.panicked \/ agent.left
          /\ g.panicked = agent.panicked /\ g.left = agent.left
      BY <3>1, <3>2 DEF Agents
    <3> HIDE DEF g
    <3>5. Good(g)
      BY <3>4 DEF Good
    <3>6. QED  BY <3>3, <3>5 DEF g
  <2>4. Good(agent')
    BY <1>1, <2>1, <2>3
  <2>5. QED  BY <1>1, <1>2, <1>4, <2>1, <2>2, <2>4 DEF settings, network, WakeStep, Served
<1>19. CASE Continue
  <2>1. /\ Event /\ UNCHANGED <<settings, network, agent, failures>>
        /\ logic.state = "Suspended" /\ logic' = [logic EXCEPT !.timer = TRUE]
    BY <1>19 DEF Continue
  <2>2. GoodLogic(logic') /\ ~Asleep(logic') /\ logic'.state = "Suspended"
    BY <1>1, <2>1 DEF GoodLogic, Logics, LogicStates, Asleep
  <2>3. QED  BY <1>1, <1>2, <1>4, <2>1, <2>2 DEF settings, network, WakeStep, Served
\* Commands to synchronise.
<1>20. CASE EMNReceived
  <2>1. /\ Event /\ reception' = "off" /\ UNCHANGED <<protocol, mayRoam, succeeded, network>>
        /\ StartSyncCommand \/ UNCHANGED <<logic, agent, failures>>
    BY <1>20 DEF EMNReceived
  <2>2. CASE UNCHANGED <<logic, agent, failures>>
    BY <1>1, <1>2, <1>3, <1>4, <2>1, <2>2 DEF network
  <2>3. CASE logic.state = "WaitSyncStart" /\ LogicStartsSync([logic EXCEPT !.timer = FALSE])
    <3> DEFINE l == [logic EXCEPT !.timer = FALSE]
    <3>1. l \in Logics /\ ~l.timer /\ l.state = "WaitSyncStart"
      BY <1>1, <2>3 DEF Logics
    <3> HIDE DEF l
    <3>2. /\ Good(agent') /\ failures' \in 0..MaxFailures
          /\ GoodLogic(logic') /\ logic'.state # "Error" /\ Served(logic', agent')
          /\ \/ ~Asleep(logic')
             \/ logic' = l /\ (agent.op # "none" \/ failures' # failures)
      BY <2>3, <3>1, LogicStarts DEF l
    <3>3. WakeStep
      BY <2>3, <3>2 DEF WakeStep
    <3>4. QED  BY <1>1, <1>2, <1>4, <2>1, <3>2, <3>3 DEF network
  <2>4. CASE logic.state = "IdleAndWaitCommands" /\ LogicStartsSync(logic)
    <3>1. ~logic.timer /\ ~Asleep(logic)
      BY <1>1, <2>4 DEF GoodLogic, Asleep
    <3>2. /\ Good(agent') /\ failures' \in 0..MaxFailures
          /\ GoodLogic(logic') /\ logic'.state # "Error" /\ Served(logic', agent')
          /\ \/ ~Asleep(logic')
             \/ logic' = logic /\ (agent.op # "none" \/ failures' # failures)
      BY <1>1, <2>4, <3>1, LogicStarts
    <3>3. WakeStep
      BY <3>1, <3>2 DEF WakeStep
    <3>4. QED  BY <1>1, <1>2, <1>4, <2>1, <3>2, <3>3 DEF network
  <2>5. CASE logic' = Wait(logic) /\ UNCHANGED <<agent, failures>>
    BY <1>1, <1>2, <1>4, <2>1, <2>5, Waits DEF network, WakeStep, Served
  <2>6. QED  BY <2>1, <2>2, <2>3, <2>4, <2>5 DEF StartSyncCommand
<1>21. CASE EntriesCreated
  <2> DEFINE l == [logic EXCEPT !.state = "WaitSyncStart"]
  <2>1. /\ Event /\ events = 0 /\ UNCHANGED <<settings, network>>
        /\ LogicStartsSync(l) \/ (Leave /\ UNCHANGED <<logic, agent>>)
    BY <1>21 DEF EntriesCreated
  <2>2. ~logic.timer /\ agent.op = "none"
    BY <2>1 DEF Inv, Untouched
  <2>3. l \in Logics /\ ~l.timer /\ l.state = "WaitSyncStart"
    BY <1>1, <2>2 DEF Logics, LogicStates
  <2> HIDE DEF l
  <2>4. CASE LogicStartsSync(l)
    <3>1. /\ Good(agent') /\ failures' \in 0..MaxFailures
          /\ GoodLogic(logic') /\ logic'.state # "Error" /\ Served(logic', agent')
          /\ \/ ~Asleep(logic')
             \/ logic' = l /\ (agent.op # "none" \/ failures' # failures)
      BY <2>3, <2>4, LogicStarts
    <3>2. WakeStep
      BY <2>2, <3>1 DEF WakeStep
    <3>3. QED  BY <1>1, <1>2, <1>4, <2>1, <3>1, <3>2 DEF settings, network
  <2>5. CASE Leave /\ UNCHANGED <<logic, agent>>
    <3>1. failures' \in 0..MaxFailures
      BY <1>1, <2>5, LeaveCounts
    <3>2. QED  BY <1>1, <1>2, <1>3, <1>4, <2>1, <2>5, <3>1 DEF settings, network
  <2>6. QED  BY <2>1, <2>4, <2>5
\* Commands that cancel.  The timer is stopped first, and what follows may leave.
<1>22. ASSUME GoesToNextInterval, \A l : Served(l, agent) => Served(l, agent'),
              Good(agent'), agent.state = "Idle" => agent'.state = "Idle",
              agent.state # "Idle" => agent'.state = "Completed"
       PROVE  /\ GoodLogic(logic') /\ WakeStep /\ failures' \in 0..MaxFailures
              /\ Served(logic', agent')
              /\ logic'.state = "Error" => agent'.state \in {"Idle", "Completed"}
  <2>1. CASE logic' = CalculateToNextInterval(logic) /\ UNCHANGED failures
    BY <1>1, <2>1, Waits DEF WakeStep, Served
  <2>2. CASE logic' = [logic EXCEPT !.timer = FALSE] /\ Leave
    <3>1. logic' \in Logics /\ ~logic'.timer /\ logic'.state = logic.state
      BY <1>1, <2>2 DEF Logics
    <3>2. failures' \in 0..MaxFailures /\ failures' # failures
      BY <1>1, <2>2, LeaveCounts
    <3>3. Served(logic', agent)
      BY <1>1, <3>1 DEF Served
    <3>4. QED  BY <1>22, <3>1, <3>2, <3>3 DEF GoodLogic, WakeStep
  <2>3. QED  BY <1>22, <2>1, <2>2 DEF GoesToNextInterval
<1>23. CASE CancelAllAndDisconnectCommand
  <2>1. PICK how \in Invocations :
           /\ agent' = CancelAllAndDisconnect(agent, how)
           /\ (Leave /\ UNCHANGED logic) \/ GoesToNextInterval
    BY <1>23 DEF CancelAllAndDisconnectCommand
  <2>2. Event /\ UNCHANGED <<settings, network>>
    BY <1>23 DEF CancelAllAndDisconnectCommand
  <2>3. /\ Good(agent') /\ \A l : Served(l, agent) => Served(l, agent')
        /\ agent.state = "Idle" => agent'.state = "Idle"
        /\ agent.state # "Idle" => agent'.state = "Completed"
    BY <1>1, <2>1, DisconnectedGood, Disconnected DEF Good
  <2>4. /\ GoodLogic(logic') /\ WakeStep /\ failures' \in 0..MaxFailures
        /\ Served(logic', agent')
        /\ logic'.state = "Error" => agent'.state \in {"Idle", "Completed"}
    <3>1. CASE GoesToNextInterval
      BY <1>22, <2>3, <3>1
    <3>2. CASE Leave /\ UNCHANGED logic
      BY <1>1, <1>3, <2>3, <3>2, LeaveCounts
    <3>3. QED  BY <2>1, <3>1, <3>2
  <2>5. QED  BY <1>1, <1>2, <1>4, <2>2, <2>3, <2>4 DEF settings, network
<1>24. CASE CancelAllAndDoNotDisconnectCommand
  <2>1. /\ Event /\ GoesToNextInterval /\ agent.state # "Idle"
        /\ agent' = CancelAllAndDoNotDisconnect(agent)
        /\ UNCHANGED <<settings, network>>
    BY <1>24 DEF CancelAllAndDoNotDisconnectCommand
  <2> DEFINE c == [Cancel(agent) EXCEPT !.doNotDisconnect = TRUE, !.marked = FALSE,
                                        !.state = "Completed"]
  <2>2. Cancel(agent) \in Agents /\ Cancel(agent).op \in {"none", "failed"}
    BY <1>1, Cancelled DEF Good
  <2>3. c \in Agents /\ c.op \in {"none", "failed"} /\ c.state = "Completed"
    BY <2>2 DEF Agents, AgentStates
  <2>4. agent' = SetActiveAndCompleteThis(c)
    BY <2>1 DEF CancelAllAndDoNotDisconnect
  <2> HIDE DEF c
  <2>5. Good(agent') /\ Working(agent') /\ agent'.state = "Completed"
    BY <2>3, <2>4, Activated DEF Good, Working
  <2>6. \A l : Served(l, agent) => Served(l, agent')
    BY <2>5 DEF Served
  <2>7. /\ GoodLogic(logic') /\ WakeStep /\ failures' \in 0..MaxFailures
        /\ Served(logic', agent')
    BY <1>22, <2>1, <2>5, <2>6
  <2>8. QED  BY <1>1, <1>2, <1>4, <2>1, <2>5, <2>7 DEF settings, network
<1>25. ASSUME NEW b \in BOOLEAN, NEW m \in BOOLEAN, m => agent.marked,
              agent' = [agent EXCEPT !.doNotDisconnect = b, !.marked = m]
       PROVE  /\ Good(agent') /\ agent'.state = agent.state /\ Served(logic, agent')
              /\ agent'.op = agent.op /\ agent'.active = agent.active
  BY <1>1, <1>25 DEF Good, Agents, Served, Working
<1>26. CASE DoNotDisconnect
  <2>1. /\ Event /\ agent' = [agent EXCEPT !.doNotDisconnect = TRUE]
        /\ UNCHANGED <<settings, network, logic, failures>>
    BY <1>26 DEF DoNotDisconnect
  <2>2. Good(agent') /\ agent'.state = agent.state /\ Served(logic, agent')
    BY <1>1, <2>1 DEF Good, Agents, Served, Working
  <2>3. QED  BY <1>1, <1>2, <1>3, <1>4, <2>1, <2>2 DEF settings, network
<1>27. CASE EntriesChanged
  <2>1. /\ agent' = [agent EXCEPT !.doNotDisconnect = FALSE,
                                  !.marked = agent.marked /\ protocol = "IMAP"]
        /\ UNCHANGED <<settings, network, logic, events, failures>>
    BY <1>27 DEF EntriesChanged
  <2>2. PICK m \in BOOLEAN : m = (agent.marked /\ protocol = "IMAP")
    OBVIOUS
  <2>3. /\ Good(agent') /\ agent'.state = agent.state /\ Served(logic, agent')
        /\ agent'.op = agent.op /\ agent'.active = agent.active
    BY <1>25, <2>1, <2>2
  <2>4. Untouched'
    BY <2>1, <2>3 DEF Inv, Untouched
  <2>5. QED  BY <1>1, <1>2, <1>3, <2>1, <2>3, <2>4 DEF settings, network
<1>28. CASE ConnectionChanges \/ SettingsChange
  <2>1. Event /\ UNCHANGED <<logic, agent, failures, protocol, mayRoam, succeeded>>
    BY <1>28 DEF ConnectionChanges, SettingsChange, settings
  <2>2. /\ connected' \in BOOLEAN /\ noNWOpsAllowed' \in BOOLEAN /\ isRoaming' \in BOOLEAN
        /\ reception' \in {"on", "off", "nodays"}
    BY <1>1, <1>28 DEF ConnectionChanges, SettingsChange, settings, network
  <2>3. QED  BY <1>1, <1>2, <1>3, <1>4, <2>1, <2>2
<1>29. QED
  BY <1>5, <1>6, <1>7, <1>8, <1>9, <1>12, <1>13, <1>14, <1>15, <1>16, <1>17, <1>18, <1>19,
     <1>20, <1>21, <1>23, <1>24, <1>26, <1>27, <1>28 DEF Next, Command

\* The invariant, as the theorems use it.
LEMMA Always == Spec => []Inv /\ [][WakeStep]_vars
<1>1. Inv /\ [Next]_vars => [WakeStep]_vars
  BY StepInv
<1>2. QED  BY <1>1, InitInv, StepInv, PTL DEF Spec

-----------------------------------------------------------------------------
(* Theorems.                                                                  *)

\* Every variable keeps its type, an operation that goes on always has the agent active,
\* and only a logic that waits has a timer.
THEOREM TypeCorrect == Spec => []TypeOK
<1>1. Inv => TypeOK
  BY DEF Inv
<1>2. QED  BY <1>1, Always, PTL

\* However commands, completions and errors follow each other, and whatever leaves, once
\* the logic has stopped its agent does nothing but disconnect.
THEOREM StoppedLogicIsQuiet == Spec => []StoppedIsQuiet
<1>1. Inv => StoppedIsQuiet
  BY DEF Inv
<1>2. QED  BY <1>1, Always, PTL

\* A mailbox is not left marked as being synchronised by an agent that is not active: for
\* any number of functions that leave, only one that nobody took up leaves the mark (RunL,
\* and then the disconnection RunError asks for).
THEOREM MarksTakenBack == Spec => []MarkIsTakenBack
<1>1. Inv => MarkIsTakenBack
  BY DEF Inv
<1>2. QED  BY <1>1, Always, PTL

\* A logic that takes a synchronisation to be ongoing has an agent that is at work, whatever
\* operations fail and RunError takes up: only a function that left and that nobody took up
\* leaves it waiting.
THEOREM OngoingServed == Spec => []OngoingIsServed
<1>1. Inv => OngoingIsServed
  BY DEF Inv
<1>2. QED  BY <1>1, Always, PTL

\* The logic gets to wait without a timer only in the ways that WakesUp names.
THEOREM LogicWakesUp == Spec => WakesUp
<1>1. [WakeStep]_vars => [ (Asleep(logic') /\ ~Asleep(logic)) =>
                               \/ logic.state = "Suspended" /\ logic.timer
                               \/ logic.state = "WaitSyncStart" /\ agent.op # "none"
                               \/ failures' # failures ]_vars
  BY DEF WakeStep
<1>2. QED  BY <1>1, Always, PTL DEF WakesUp

=============================================================================
