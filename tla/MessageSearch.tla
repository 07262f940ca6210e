--------------------------- MODULE MessageSearch ---------------------------
(***************************************************************************)
(* Searching the message store.  Each session of the server has at most one *)
(* search handler (CContainerStoreSearchHandler), a low-priority active     *)
(* object that looks at one message per run and hands what matches to its   *)
(* session, which keeps it for the client or answers the client's           *)
(* GetMatches.  What was found out about a message is kept in one table for *)
(* all sessions (CContainerStoreSearchResultTable), so that the same search  *)
(* can be repeated in another order without reading the contents again.     *)
(*                                                                          *)
(* The client is CMsgStoreSearchHandler, an active object with a GetMatches *)
(* outstanding, under CMsgStoreMailBox.  Its callbacks may cancel the       *)
(* search and start another one.                                            *)
(*                                                                          *)
(* Of a message only its folder is kept and which search criteria it meets; *)
(* the order in which a folder is searched is left open.  A session has one *)
(* mailbox.                                                                 *)
(***************************************************************************)
EXTENDS Integers, Sequences, FiniteSets

CONSTANTS
    Sessions,           \* sessions of the server, each with its client
    Messages,           \* ids of messages
    Folders,            \* ids of folders
    FolderOf,           \* the folder of each message
    Criteria,           \* lists of search strings
    FolderLists,        \* the lists of folders that are searched
    BufferMatches,      \* matches that fit at most into a match buffer of the client
    Large,              \* messages whose properties do not fit into it
    NoHandler,          \* there is no search handler
    MaxEvents           \* bound on searches, locks and changes of messages

ASSUME MessagesType == /\ FolderOf \in [Messages -> Folders] /\ Large \subseteq Messages
                       /\ \A l \in FolderLists : l \in Seq(Folders)
ASSUME SizesType == BufferMatches \in Nat \ {0} /\ MaxEvents \in Nat

Handlers == [criteria : Criteria, new : BOOLEAN, active : BOOLEAN,
             rows : SUBSET Messages, folders : Seq(Folders)]

ASSUME NoHandlerType == NoHandler \notin Handlers

VARIABLES
    available,          \* the container store is open
    stored,             \* messages in the store
    meets,              \* the criteria each message meets
    results,            \* rows of the search result table
    server,             \* the server process: "running" or "panicked"
    handler,            \* iSearchHandler of each session
    matches,            \* iMatchMessages of each session
    request,            \* where each client's GetMatches message is
    reply,              \* what it was completed with
    searching,          \* iContext.iSearchHandler: "no", "prepared" in its ConstructL, "yes"
    told,               \* iContext.iSearchClient is not NULL
    giving,             \* matches RunL has still to hand to the client
    ending,             \* RunL is in the client's SearchCompleted
    crashed,            \* clients that called a NULL pointer
    search,             \* what the client's latest search is for
    found,              \* matches handed to the client in it
    outcome,            \* how it ended
    again,              \* it uses the results of an earlier one
    fresh,              \* messages that did not change since the handler was made
    events              \* counter of the bound

world  == <<available, stored, meets>>
serve  == <<server, results, handler, matches>>
wire   == <<request, reply>>
client == <<searching, told, giving, ending, crashed>>
ghost  == <<search, found, outcome, again, fresh>>
vars   == <<world, serve, wire, client, ghost, events>>

Event == events < MaxEvents /\ events' = events + 1

RangeOf(s) == {s[i] : i \in 1..Len(s)}

-----------------------------------------------------------------------------
(* The search handler.                                                      *)

NoReply == [ids |-> <<>>, error |-> FALSE]

RowsOf(folder) == {m \in stored : FolderOf[m] = folder}

\* SortNextFolderL until there is a row: the messages of a folder are sorted when the
\* search gets to it.
AtNextRow(h) ==
    IF h.rows # {} THEN h
    ELSE LET nonEmpty == {i \in 1..Len(h.folders) : RowsOf(h.folders[i]) # {}}
         IN IF nonEmpty = {} THEN [h EXCEPT !.folders = <<>>]
            ELSE LET i == CHOOSE i \in nonEmpty : \A j \in nonEmpty : i <= j
                 IN [h EXCEPT !.rows = RowsOf(h.folders[i]),
                              !.folders = SubSeq(@, i + 1, Len(@))]

\* The client's buffer takes what fits, in order: some matches, as their properties are
\* longer or shorter.  If not even the first fits, the message is completed with an error
\* and nothing is removed.
Fitting(ms) ==
    {n \in 0..Len(ms) :
        /\ n <= BufferMatches /\ \A i \in 1..n : ms[i] \notin Large
        /\ n = 0 => ms = <<>> \/ ms[1] \in Large}

Answer(s, ms) ==
    \E n \in Fitting(ms) :
        /\ request' = [request EXCEPT ![s] = "completed"]
        /\ reply' = [reply EXCEPT ![s] = [ids |-> SubSeq(ms, 1, n), error |-> ms # <<>> /\ n = 0]]
        /\ matches' = [matches EXCEPT ![s] = SubSeq(ms, n + 1, Len(ms))]

\* Mutant of SendMatchesToClient: the client is answered at the end only.
SendMatchesToClient_AtEnd(s, ms, always) ==
    IF request[s] = "held" /\ always
    THEN Answer(s, ms)
    ELSE matches' = [matches EXCEPT ![s] = ms] /\ UNCHANGED wire

\* The list ms becomes the session's; if the client waits and there is a match, or the
\* end has to be told, it is answered.
SendMatchesToClient(s, ms, always) ==
    IF request[s] = "held" /\ (always \/ ms # <<>>)
    THEN Answer(s, ms)
    ELSE matches' = [matches EXCEPT ![s] = ms] /\ UNCHANGED wire

\* SearchL of a message.  In a repeated search the flag of its row says whether it matches
\* (of any row, if there are several); else the message says it, and a row is added.  A
\* message that was deleted since its folder was sorted cannot be read and does not match.
SearchL(h, m, table) ==
    LET rows == {row \in table : row.id = m}
        is == h.criteria \in meets[m]
    IN IF ~h.new /\ rows # {}
       THEN {[match |-> row.match /\ m \in stored, table |-> table] : row \in rows}
       ELSE IF m \in stored
            THEN {[match |-> is, table |-> table \cup {[id |-> m, match |-> is]}]}
            ELSE {[match |-> FALSE, table |-> table]}

\* Mutant of DoNextSearch: SearchComplete is not called.
DoNextSearch_Silent(s, h, table, ms) ==
    LET at == AtNextRow(h)
    IN \/ /\ at.rows = {}
          /\ handler' = [handler EXCEPT ![s] = at]
          /\ results' = table
          /\ SendMatchesToClient(s, ms, FALSE)
       \/ \E m \in at.rows : \E result \in SearchL(h, m, table) :
             /\ handler' = [handler EXCEPT ![s] = [at EXCEPT !.active = TRUE, !.rows = @ \ {m}]]
             /\ results' = result.table
             /\ SendMatchesToClient(s, IF result.match THEN Append(ms, m) ELSE ms, FALSE)

\* The handler h of session s goes on, with the table and the session's matches as they
\* are given: the next message is looked at and the handler scheduled again, or the search
\* is complete, and what there is is sent.
DoNextSearch(s, h, table, ms) ==
    LET at == AtNextRow(h)
    IN \/ /\ at.rows = {}
          /\ handler' = [handler EXCEPT ![s] = at]
          /\ results' = table
          /\ SendMatchesToClient(s, ms, TRUE)
       \/ \E m \in at.rows : \E result \in SearchL(h, m, table) :
             /\ handler' = [handler EXCEPT ![s] = [at EXCEPT !.active = TRUE, !.rows = @ \ {m}]]
             /\ results' = result.table
             /\ SendMatchesToClient(s, IF result.match THEN Append(ms, m) ELSE ms, FALSE)

InProgress(s) == handler[s] # NoHandler /\ handler[s].active

\* The scheduler of the server runs the handler, which is then not active.
RunL(s) ==
    /\ server = "running" /\ InProgress(s)
    /\ DoNextSearch(s, [handler[s] EXCEPT !.active = FALSE], results, matches[s])
    /\ UNCHANGED <<world, server, client, search, found, outcome, again, fresh, events>>

-----------------------------------------------------------------------------
(* The session's requests.  Those a client waits for are served after the GetMatches it   *)
(* sent before.                                                                           *)

Served(s) == server = "running" /\ request[s] # "posted"

Nothing == [t \in Sessions |-> {}]

\* The search of session s for criteria c in the folders of l, with the handler that is
\* there (same) or a new one.
StartSearch(s, c, l, same) ==
    LET h == [criteria |-> c, new |-> ~same, active |-> same /\ handler[s].active,
              rows |-> {}, folders |-> l]
    IN IF h.active /\ AtNextRow(h).rows # {}
       THEN server' = "panicked" /\ UNCHANGED <<results, handler, matches, wire, again, fresh>>
       ELSE /\ UNCHANGED server
            /\ DoNextSearch(s, h, IF same THEN results ELSE {}, <<>>)
            /\ again' = [again EXCEPT ![s] = same]
            /\ fresh' = IF same THEN fresh ELSE [fresh EXCEPT ![s] = Messages]

\* Mutant of DoPrepareSearch: the results of another search are used.
DoPrepareSearch_AnyCriteria(s, c, l) == StartSearch(s, c, l, handler[s] # NoHandler)

\* The matches of the last search are dropped.  The same criteria are searched for again
\* with the handler there is, which keeps the table; for others a new handler is made, and
\* the destructor of the old one and ConstructL empty the table.  The search starts with
\* the first message at once, and sets the handler active: twice is a panic.
DoPrepareSearch(s, c, l) ==
    StartSearch(s, c, l, handler[s] # NoHandler /\ handler[s].criteria = c)

\* The server gets to the client's GetMatches: it is answered when there are matches, or no
\* search is in progress.
GetMatches(s) ==
    /\ server = "running" /\ request[s] = "posted"
    /\ \/ /\ matches[s] = <<>> /\ InProgress(s)
          /\ request' = [request EXCEPT ![s] = "held"]
          /\ UNCHANGED <<reply, matches>>
       \/ /\ matches[s] # <<>> \/ ~InProgress(s)
          /\ Answer(s, matches[s])
    /\ UNCHANGED <<world, server, results, handler, client, ghost, events>>

\* The store is closed by a lock: each session's handler is deleted, and so is what was
\* found.  A message the session keeps is not completed.
StoreUnavailable ==
    /\ server = "running" /\ available
    /\ Event
    /\ available' = FALSE
    /\ handler' = [s \in Sessions |-> NoHandler]
    /\ matches' = [s \in Sessions |-> <<>>]
    /\ results' = IF \A s \in Sessions : handler[s] = NoHandler THEN results ELSE {}
    /\ fresh' = Nothing
    /\ UNCHANGED <<stored, meets, server, wire, client, search, found, outcome, again>>

StoreAvailable ==
    /\ server = "running" /\ ~available
    /\ available' = TRUE
    /\ UNCHANGED <<stored, meets, serve, wire, client, ghost, events>>

\* Another client adds or deletes a message: what was found out about it stays.
MessageChanged(m) ==
    /\ server = "running" /\ available
    /\ Event
    /\ \/ stored' = stored \cup {m} /\ \E cs \in SUBSET Criteria : meets' = [meets EXCEPT ![m] = cs]
       \/ m \in stored /\ stored' = stored \ {m} /\ UNCHANGED meets
    /\ fresh' = [s \in Sessions |-> fresh[s] \ {m}]
    /\ UNCHANGED <<available, serve, wire, client, search, found, outcome, again>>

-----------------------------------------------------------------------------
(* The client.                                                              *)

\* Its thread is in a callback, or in none: it may call the mailbox, and the server gets to
\* that after the GetMatches it sent before.
Calls(s) == s \notin crashed /\ searching[s] # "prepared" /\ Served(s)

\* SearchL of the mailbox: refused while a search is under way or the store is closed.
Search(s, c, l) ==
    /\ Calls(s) /\ available /\ searching[s] = "no"
    /\ Event
    /\ DoPrepareSearch(s, c, l)
    /\ searching' = [searching EXCEPT ![s] = "prepared"]
    /\ search' = [search EXCEPT ![s] = [criteria |-> c, folders |-> l]]
    /\ found' = [found EXCEPT ![s] = <<>>]
    /\ outcome' = [outcome EXCEPT ![s] = "none"]
    /\ UNCHANGED <<world, told, giving, ending, crashed>>

\* ConstructL asks for matches, and SearchL stores the client.
AskForMatches(s) ==
    /\ server = "running" /\ searching[s] = "prepared"
    /\ request' = [request EXCEPT ![s] = "posted"]
    /\ searching' = [searching EXCEPT ![s] = "yes"]
    /\ told' = [told EXCEPT ![s] = TRUE]
    /\ UNCHANGED <<world, serve, reply, giving, ending, crashed, ghost, events>>

\* The client's MatchFound is called for the first of ids.
MatchFound(s, ids) ==
    IF told[s]
    THEN /\ found' = [found EXCEPT ![s] = Append(@, ids[1])]
         /\ giving' = [giving EXCEPT ![s] = Tail(ids)]
         /\ UNCHANGED crashed
    ELSE crashed' = crashed \cup {s} /\ UNCHANGED <<found, giving>>

Completed(s) ==
    /\ server = "running" /\ s \notin crashed
    /\ searching[s] = "yes" /\ request[s] = "completed"
    /\ giving[s] = <<>> /\ ~ending[s]

\* RunL of the client's handler has matches: it asks for more, into the other buffer, and
\* calls the client with the first.
RunLMatches(s) ==
    /\ Completed(s) /\ ~reply[s].error /\ reply[s].ids # <<>>
    /\ request' = [request EXCEPT ![s] = "posted"]
    /\ reply' = [reply EXCEPT ![s] = NoReply]
    /\ MatchFound(s, reply[s].ids)
    /\ UNCHANGED <<world, serve, searching, told, ending, search, outcome, again, fresh, events>>

\* The client returned and is called with the next match.
RunLNextMatch(s) ==
    /\ server = "running" /\ s \notin crashed /\ searching[s] = "yes" /\ giving[s] # <<>>
    /\ MatchFound(s, giving[s])
    /\ UNCHANGED <<world, serve, wire, searching, told, ending, search, outcome, again, fresh, events>>

\* There are none, or an error: the mailbox puts the handler aside and calls the client's
\* SearchCompleted, in which it may search again.
RunLCompleted(s) ==
    /\ Completed(s) /\ (reply[s].error \/ reply[s].ids = <<>>)
    /\ request' = [request EXCEPT ![s] = "none"]
    /\ reply' = [reply EXCEPT ![s] = NoReply]
    /\ searching' = [searching EXCEPT ![s] = "no"]
    /\ outcome' = [outcome EXCEPT ![s] = IF reply[s].error THEN "error" ELSE "complete"]
    /\ IF told[s] THEN ending' = [ending EXCEPT ![s] = TRUE] /\ UNCHANGED crashed
                  ELSE crashed' = crashed \cup {s} /\ UNCHANGED ending
    /\ UNCHANGED <<world, serve, told, giving, search, found, again, fresh, events>>

\* The client returns from SearchCompleted, and the mailbox forgets it.
SearchCompleted(s) ==
    /\ server = "running" /\ ending[s] /\ searching[s] # "prepared"
    /\ ending' = [ending EXCEPT ![s] = FALSE]
    /\ told' = [told EXCEPT ![s] = FALSE]
    /\ UNCHANGED <<world, serve, wire, searching, giving, crashed, ghost, events>>

\* Mutant of CancelSearch: the search goes on in the server.
CancelSearch_ServerGoesOn(s) ==
    /\ Calls(s) /\ searching[s] = "yes"
    /\ request' = [request EXCEPT ![s] = "none"]
    /\ reply' = [reply EXCEPT ![s] = NoReply]
    /\ searching' = [searching EXCEPT ![s] = "no"]
    /\ told' = [told EXCEPT ![s] = FALSE]
    /\ giving' = [giving EXCEPT ![s] = <<>>]
    /\ outcome' = [outcome EXCEPT ![s] = "cancelled"]
    /\ UNCHANGED <<world, serve, ending, crashed, search, found, again, fresh, events>>

\* Mutant of CancelSearch: the matches that were received are handed over all the same.
CancelSearch_StillGives(s) ==
    /\ Calls(s) /\ searching[s] = "yes"
    /\ matches' = [matches EXCEPT ![s] = <<>>]
    /\ handler' = [handler EXCEPT ![s] = IF @ = NoHandler THEN @ ELSE [@ EXCEPT !.active = FALSE]]
    /\ request' = [request EXCEPT ![s] = "none"]
    /\ reply' = [reply EXCEPT ![s] = NoReply]
    /\ searching' = [searching EXCEPT ![s] = "no"]
    /\ told' = [told EXCEPT ![s] = FALSE]
    /\ outcome' = [outcome EXCEPT ![s] = "cancelled"]
    /\ UNCHANGED <<world, server, results, giving, ending, crashed, search, found, again, fresh, events>>

\* CancelSearch of the mailbox: the server stops the handler but keeps it, drops the
\* matches and completes the GetMatches it has; the client's handler is deleted, so that
\* RunL, if it is in a callback, ends.
CancelSearch(s) ==
    /\ Calls(s) /\ searching[s] = "yes"
    /\ matches' = [matches EXCEPT ![s] = <<>>]
    /\ handler' = [handler EXCEPT ![s] = IF @ = NoHandler THEN @ ELSE [@ EXCEPT !.active = FALSE]]
    /\ request' = [request EXCEPT ![s] = "none"]
    /\ reply' = [reply EXCEPT ![s] = NoReply]
    /\ searching' = [searching EXCEPT ![s] = "no"]
    /\ told' = [told EXCEPT ![s] = FALSE]
    /\ giving' = [giving EXCEPT ![s] = <<>>]
    /\ outcome' = [outcome EXCEPT ![s] = "cancelled"]
    /\ UNCHANGED <<world, server, results, ending, crashed, search, found, again, fresh, events>>

\* ClearSearchResultCache of the mailbox cancels first; the server deletes the handler.
ClearSearchResultCache(s) ==
    /\ Calls(s) /\ searching[s] = "no" /\ handler[s] # NoHandler
    /\ handler' = [handler EXCEPT ![s] = NoHandler]
    /\ results' = {}
    /\ UNCHANGED <<world, server, matches, wire, client, ghost, events>>

-----------------------------------------------------------------------------
Init ==
    /\ available = TRUE
    /\ stored = Messages
    /\ meets \in [Messages -> SUBSET Criteria]
    /\ server = "running"
    /\ results = {}
    /\ handler = [s \in Sessions |-> NoHandler]
    /\ matches = [s \in Sessions |-> <<>>]
    /\ request = [s \in Sessions |-> "none"]
    /\ reply = [s \in Sessions |-> NoReply]
    /\ searching = [s \in Sessions |-> "no"]
    /\ told = [s \in Sessions |-> FALSE]
    /\ giving = [s \in Sessions |-> <<>>]
    /\ ending = [s \in Sessions |-> FALSE]
    /\ crashed = {}
    /\ search = [s \in Sessions |-> [criteria |-> CHOOSE c \in Criteria : TRUE, folders |-> <<>>]]
    /\ found = [s \in Sessions |-> <<>>]
    /\ outcome = [s \in Sessions |-> "none"]
    /\ again = [s \in Sessions |-> FALSE]
    /\ fresh = Nothing
    /\ events = 0

ClientRunL(s) == AskForMatches(s) \/ RunLMatches(s) \/ RunLNextMatch(s)
                     \/ RunLCompleted(s) \/ SearchCompleted(s)

Next ==
    \/ \E s \in Sessions :
          \/ RunL(s) \/ GetMatches(s) \/ ClientRunL(s)
          \/ \E c \in Criteria, l \in FolderLists : Search(s, c, l)
          \/ CancelSearch(s) \/ ClearSearchResultCache(s)
    \/ StoreUnavailable \/ StoreAvailable
    \/ \E m \in Messages : MessageChanged(m)

Spec == Init /\ [][Next]_vars

\* The server's and the client's schedulers run the active objects that are ready, and a
\* client returns from its callbacks.
Fairness == \A s \in Sessions : /\ WF_vars(RunL(s)) /\ WF_vars(GetMatches(s))
                                /\ WF_vars(ClientRunL(s))

FairSpec == Spec /\ Fairness

-----------------------------------------------------------------------------
(* Properties.                                                              *)

\* Every variable keeps its type, no answer outgrows the client's buffer, and a match that
\* is still to be handed over belongs to the search under way.
TypeOK ==
    /\ available \in BOOLEAN /\ stored \subseteq Messages
    /\ meets \in [Messages -> SUBSET Criteria]
    /\ results \subseteq [id : Messages, match : BOOLEAN]
    /\ server \in {"running", "panicked"}
    /\ handler \in [Sessions -> Handlers \cup {NoHandler}]
    /\ matches \in [Sessions -> Seq(Messages)]
    /\ request \in [Sessions -> {"none", "posted", "held", "completed"}]
    /\ reply \in [Sessions -> [ids : Seq(Messages), error : BOOLEAN]]
    /\ \A s \in Sessions : Len(reply[s].ids) <= BufferMatches
    /\ searching \in [Sessions -> {"no", "prepared", "yes"}]
    /\ told \in [Sessions -> BOOLEAN] /\ ending \in [Sessions -> BOOLEAN]
    /\ giving \in [Sessions -> Seq(Messages)] /\ found \in [Sessions -> Seq(Messages)]
    /\ \A s \in Sessions : giving[s] # <<>> => searching[s] = "yes"
    /\ crashed \subseteq Sessions
    /\ outcome \in [Sessions -> {"none", "complete", "error", "cancelled"}]
    /\ again \in [Sessions -> BOOLEAN]
    /\ fresh \in [Sessions -> SUBSET Messages]
    /\ events \in 0..MaxEvents

Wanted(s) == {m \in stored : /\ FolderOf[m] \in RangeOf(search[s].folders)
                             /\ search[s].criteria \in meets[m]}

Times(m, ms) == Cardinality({i \in 1..Len(ms) : ms[i] = m})

\* Session s was given those of the messages that match, each once, and nothing else, as
\* far as no one changed them since its handler was made.
GivenMatches(s) ==
    \A m \in fresh[s] :
        /\ Times(m, found[s]) <= IF m \in Wanted(s) THEN 1 ELSE 0
        /\ outcome[s] = "complete" => Times(m, found[s]) = IF m \in Wanted(s) THEN 1 ELSE 0

\* A client is given matching messages only, and none twice, in a first search and in one
\* that is repeated with the results of an earlier, perhaps cancelled one; and when it is
\* told that the search is complete it was given all.  A repeated search is right about it
\* as long as no other session uses the table.
GivesMatches ==
    \A s \in Sessions : (again[s] => Sessions = {s}) => GivenMatches(s)

\* A session without a handler that keeps a message: the store was locked in the search.
Forgotten(s) == request[s] = "held" /\ handler[s] = NoHandler

\* A client waits in the server only while a search is in progress that has not found
\* anything it was not given yet.
NothingHeldBack ==
    \A s \in Sessions :
        (server = "running" /\ request[s] = "held") =>
            matches[s] = <<>> /\ (InProgress(s) \/ Forgotten(s))

\* A search ends: its client is told so, over batches, cancelled and repeated
\* searches, unless the store was locked while the client waited.
SearchEnds ==
    \A s \in Sessions :
        searching[s] # "no" ~>
            (searching[s] = "no" \/ Forgotten(s) \/ s \in crashed \/ server = "panicked")

\* A search may be repeated when it is over, with the same strings, and the server lives.
\* (MsgStoreMailBox.h, SearchL, of the same search string in another order.)
ServerRuns == server = "running"

\* Also a repeated search is right, whatever other sessions search for.
\* (MsgStoreMailBox.h, SearchL: the store caches the results of the same search string.)
GivesMatchesAgain == \A s \in Sessions : GivenMatches(s)
=============================================================================
