--------------------------- MODULE ContainerStore ---------------------------
(***************************************************************************)
(* The container store of the message server (CContainerStore and the      *)
(* tables it owns): one database of rows, each a mailbox, a folder, a       *)
(* message or a message part, linked by a parent column.  A container is    *)
(* created under the special parent KUncommittedContainers, becomes visible *)
(* when it is moved to its real parent, and is deleted by moving it to      *)
(* KToBeDeletedContainers, from where a low-priority active object erases   *)
(* its rows one at a time.  The account table keeps the message totals of   *)
(* a mailbox, the sorting table one row per message, the folders the counts *)
(* of their children: all are maintained by deltas, none is recomputed.     *)
(*                                                                          *)
(* The server is one thread and a request runs to completion, so a request  *)
(* is one action.  A database transaction that fails is rolled back, which  *)
(* is a stuttering step; where a request runs two transactions the second   *)
(* may fail alone, and that outcome is an action of its own (...Fails).     *)
(***************************************************************************)
EXTENDS Integers, FiniteSets, Sequences

CONSTANTS
    MailBoxes, Folders, Messages, Parts,  \* container ids, by type bits
    Owner,              \* the mailbox whose API a folder or message belongs to
    SystemFolder,       \* the folder created together with each mailbox
    FolderMoves,        \* pairs <<folder, destination>> clients ask to move
    WithContent,        \* messages and parts that have a content file
    Encrypted,          \* encryption on: messages under creation are not buffered
    MaxRestarts,        \* bound on server restarts
    MaxFailures,        \* bound on unexpected errors of the delete handler
    Root,               \* KMsgStoreRootMailBoxId
    Uncommitted,        \* KUncommittedContainers
    ToBeDeleted,        \* KToBeDeletedContainers
    ToRetryDelete,      \* KToRetryDeleteContainers
    Invalid,            \* KContainerInvalidId
    None                \* no row

Users      == MailBoxes \cup Folders \cup Messages \cup Parts
Containers == Users \cup {Root}
Specials   == {Uncommitted, ToBeDeleted, ToRetryDelete, Invalid, None}

ASSUME DistinctTypes ==
    /\ MailBoxes \cap (Folders \cup Messages \cup Parts) = {}
    /\ Folders \cap (Messages \cup Parts) = {}
    /\ Messages \cap Parts = {}
    /\ Root \notin Users
    /\ Specials \cap Containers = {}
ASSUME DistinctSpecials ==
    /\ Uncommitted \notin {ToBeDeleted, ToRetryDelete, Invalid, None}
    /\ ToBeDeleted \notin {ToRetryDelete, Invalid, None}
    /\ ToRetryDelete \notin {Invalid, None}
    /\ Invalid # None
ASSUME FiniteIds == IsFiniteSet(Users)
ASSUME OwnerType ==
    /\ Owner \in [Folders \cup Messages -> MailBoxes]
    /\ SystemFolder \in [MailBoxes -> Folders]
    /\ \A mb \in MailBoxes : Owner[SystemFolder[mb]] = mb
    /\ FolderMoves \subseteq Folders \X (Folders \cup MailBoxes)
    /\ WithContent \subseteq Messages \cup Parts
    /\ Encrypted \in BOOLEAN
    /\ MaxRestarts \in Nat
    /\ MaxFailures \in Nat

VARIABLES
    parent,         \* the parent column of each row, None where there is no row
    unread,         \* messages whose flags say unread
    childrenCount,  \* number of children a row records
    childCounts,    \* messages and unread messages among those children
    accounts,       \* mailboxes that have a row in the account table
    totals,         \* the totals the account table records for a mailbox
    sorting,        \* the folder column of a message's sorting-table row
    marked,         \* the ids marked for deletion in the sorting table, in order
    used,           \* ids handed out (the persistent counter never goes back)
    draft,          \* the folder of a message a client has not committed yet
    handler,        \* the state of the delete handler
    stack,          \* the containers on the delete handler's stack
    open,           \* containers whose content file a client holds open
    restarts,       \* how often the server was restarted
    failures        \* how often the delete handler met an unexpected error

rows  == <<parent, unread, childrenCount, childCounts>>
dvars == <<handler, stack>>
vars  == <<rows, accounts, totals, sorting, marked, used, draft, dvars, open,
           restarts, failures>>

Counts   == [messages : Int, unread : Int]
Zero     == [messages |-> 0, unread |-> 0]
Plus(a, b)  == [messages |-> a.messages + b.messages, unread |-> a.unread + b.unread]
Minus(a, b) == [messages |-> a.messages - b.messages, unread |-> a.unread - b.unread]

\* The counts column of a container: a message counts itself.
OwnCounts(c) ==
    [messages |-> IF c \in Messages THEN 1 ELSE 0,
     unread   |-> IF c \in unread THEN 1 ELSE 0]

IsRow(c) == c \in Containers /\ parent[c] # None

ChildrenOf(c) == {x \in Users : parent[x] = c}

-----------------------------------------------------------------------------
(* Walking the tree.                                                        *)

\* The containers from which following the parent column stays on rows until it
\* meets one of the given ends.  (On a cycle of folders HierarchyL never returns;
\* only the run about FolderMoves reaches one, and stops there.)
Closed(S, ends) == \A c \in S : IsRow(c) /\ parent[c] \in S \cup ends

Reaching(ends) ==
    UNION {S \in SUBSET {c \in Containers :
                            parent[c] \notin {None, ToBeDeleted, ToRetryDelete}} :
             Closed(S, ends)}

\* HierarchyL succeeds: the end is the root's parent or KUncommittedContainers;
\* any other end leaves with KErrNotFound.
Live(c) == c \in Reaching({Invalid, Uncommitted})

\* Committed and not deleted, as are all of its ancestors.
Visible(c) == c \in Reaching({Invalid})

\* Mutant of FoldersBelow: the search goes on only below folders with two children.
FoldersBelow_OffByOne(c) ==
    {f \in Folders :
        \A S \in SUBSET Folders :
            (\A g \in Folders : \/ parent[g] = c
                                \/ parent[g] \in S /\ childrenCount[parent[g]] > 1
                                => g \in S)
            => f \in S}

\* ListChildrenL(EMsgStoreFolderBits, recursive): folders below c, searching on
\* below a folder only if it records children.
FoldersBelow(c) ==
    {f \in Folders :
        \A S \in SUBSET Folders :
            (\A g \in Folders : \/ parent[g] = c
                                \/ parent[g] \in S /\ childrenCount[parent[g]] > 0
                                => g \in S)
            => f \in S}

\* A sum of counts over a finite set.
SumCounts(count(_), S) ==
    LET Sum[T \in SUBSET S] ==
            IF T = {} THEN Zero
            ELSE LET x == CHOOSE x \in T : TRUE IN Plus(count(x), Sum[T \ {x}])
    IN  Sum[S]

\* ChildrenCountsL(recursive): what the container and the folders below it record.
DescendantCounts(c) ==
    LET Recorded(x) == childCounts[x]
    IN  Plus(childCounts[c], SumCounts(Recorded, FoldersBelow(c)))

-----------------------------------------------------------------------------
(* Moving rows.                                                             *)

\* Mutant of Recount: the old parent is not decremented.
Recount_NoDecrement(c, from, to) ==
    /\ childrenCount' = [x \in Containers |->
           childrenCount[x] + (IF x = to THEN 1 ELSE 0)]
    /\ childCounts' = [x \in Containers |->
           Plus(childCounts[x], IF x = to THEN OwnCounts(c) ELSE Zero)]

\* The counts of the containers after c moved from one parent to another; the
\* special parents have no row and no counts.
Recount(c, from, to) ==
    /\ childrenCount' = [x \in Containers |->
           childrenCount[x] + (IF x = to THEN 1 ELSE 0) - (IF x = from THEN 1 ELSE 0)]
    /\ childCounts' = [x \in Containers |->
           Minus(Plus(childCounts[x], IF x = to THEN OwnCounts(c) ELSE Zero),
                 IF x = from THEN OwnCounts(c) ELSE Zero)]

\* Mutant of MoveL: the new parent is not sought.
MoveL_NoSeek(c, to) ==
    /\ parent' = [parent EXCEPT ![c] = to]
    /\ Recount(c, parent[c], to)
    /\ UNCHANGED unread

\* CContainerStoreContainersTable::MoveL: the new parent must have a row, but
\* nothing asks whether that row is itself deleted.
MoveL(c, to) ==
    /\ to \in Containers => IsRow(to)
    /\ parent' = [parent EXCEPT ![c] = to]
    /\ Recount(c, parent[c], to)
    /\ UNCHANGED unread

\* Mutant of TotalCountsDelta: what is below the container is left out.
TotalCountsDelta_OwnOnly(c, to) ==
    Minus(IF parent[c] = Uncommitted THEN OwnCounts(c) ELSE Zero,
          IF to = ToBeDeleted THEN OwnCounts(c) ELSE Zero)

\* What MoveL reports to be added to the totals of the mailbox.
TotalCountsDelta(c, to) ==
    LET own == Plus(OwnCounts(c), DescendantCounts(c))
    IN  Minus(IF parent[c] = Uncommitted THEN own ELSE Zero,
              IF to = ToBeDeleted THEN own ELSE Zero)

\* TotalCountsL and UpdateTotalCountsL: a mailbox without an account row leaves.
UpdateTotals(mb, delta) ==
    /\ mb \in accounts
    /\ totals' = [totals EXCEPT ![mb] = Plus(@, delta)]

\* The columns of a row without children, and of no row.
NewRow(c, isUnread) ==
    /\ unread' = IF isUnread THEN unread \cup {c} ELSE unread \ {c}
    /\ childrenCount' = [childrenCount EXCEPT ![c] = 0]
    /\ childCounts' = [childCounts EXCEPT ![c] = Zero]

\* The mailbox a client names in a request about c: the one whose API it uses.
MailBoxOf(c) == CASE c \in MailBoxes -> c
                  [] c \in Parts     -> Owner[parent[c]]
                  [] OTHER           -> Owner[c]

Drafts == {m \in Messages : draft[m] # None}

\* A container a client can name: an id some call returned.  A row that a failed
\* second transaction left uncommitted was never reported to anyone.
Known(c) ==
    /\ c \in used
    /\ parent[c] = Uncommitted => c \in Drafts
    /\ parent[c] \in Messages /\ parent[parent[c]] = Uncommitted => parent[c] \in Drafts

StartDeleteHandler ==
    /\ handler' = IF handler = "Idle" THEN "RetryDelete" ELSE handler
    /\ UNCHANGED stack

-----------------------------------------------------------------------------
(* Accounts.                                                                *)

Init ==
    /\ parent = [c \in Containers |-> IF c = Root THEN Invalid ELSE None]
    /\ unread = {}
    /\ childrenCount = [c \in Containers |-> 0]
    /\ childCounts = [c \in Containers |-> Zero]
    /\ accounts = {}
    /\ totals = [mb \in MailBoxes |-> Zero]
    /\ sorting = [m \in Messages |-> None]
    /\ marked = <<>>
    /\ used = {}
    /\ draft = [m \in Messages |-> None]
    /\ handler = "RetryDelete"
    /\ stack = {}
    /\ open = {}
    /\ restarts = 0
    /\ failures = 0

\* One transaction creates the mailbox, commits it below the root and creates its
\* system folder.
CreateAccount(mb) ==
    LET f == SystemFolder[mb]
    IN  /\ {mb, f} \cap used = {}
        /\ used' = used \cup {mb, f}
        /\ parent' = [parent EXCEPT ![mb] = Root, ![f] = mb]
        /\ childrenCount' = [childrenCount EXCEPT ![Root] = @ + 1, ![mb] = 1, ![f] = 0]
        /\ childCounts' = [childCounts EXCEPT ![mb] = Zero, ![f] = Zero]
        /\ accounts' = accounts \cup {mb}
        /\ totals' = [totals EXCEPT ![mb] = Zero]
        /\ UNCHANGED <<unread, sorting, marked, draft, dvars, open, restarts, failures>>

\* What the sorting table does about a deleted container: a message's row goes at
\* once, a folder or mailbox is marked and its rows are deleted in the background.
ForgetSorting(c) ==
    /\ sorting' = IF c \in Messages THEN [sorting EXCEPT ![c] = None] ELSE sorting
    /\ marked'  = IF c \in Folders \cup MailBoxes THEN Append(marked, c) ELSE marked

\* The account's row goes in the transaction that deletes its mailbox.
DeleteAccount(mb) ==
    /\ mb \in accounts
    /\ Live(mb)
    /\ MoveL(mb, ToBeDeleted)
    /\ ForgetSorting(mb)
    /\ accounts' = accounts \ {mb}
    /\ totals' = [totals EXCEPT ![mb] = Zero]
    /\ StartDeleteHandler
    /\ UNCHANGED <<used, draft, open, restarts, failures>>

-----------------------------------------------------------------------------
(* Creating and committing.                                                 *)

\* CreateContainerL of a message, not to be committed yet.  While encryption is
\* off the session buffers the request and writes nothing (EnqueueL): the folder
\* is not looked at.
CreateMessage(m, f, isUnread) ==
    /\ m \notin used /\ Known(f) /\ Owner[f] = Owner[m]
    /\ used' = used \cup {m}
    /\ draft' = [draft EXCEPT ![m] = f]
    /\ IF Encrypted
       THEN /\ Live(f)
            /\ parent' = [parent EXCEPT ![m] = Uncommitted]
            /\ NewRow(m, isUnread)
       ELSE /\ unread' = IF isUnread THEN unread \cup {m} ELSE unread
            /\ UNCHANGED <<parent, childrenCount, childCounts>>
    /\ UNCHANGED <<accounts, totals, sorting, marked, dvars, open, restarts, failures>>

\* CommitContainerL of a message whose row exists.  Should the folder be deleted,
\* the client is told KErrNotFound, after the transaction.
CommitMessage(m) ==
    LET f == draft[m]
    IN  /\ m \in Drafts
        /\ Live(m) /\ parent[m] = Uncommitted
        /\ MoveL(m, f)
        /\ UpdateTotals(Owner[m], TotalCountsDelta(m, f))
        /\ sorting' = [sorting EXCEPT ![m] = f]
        /\ draft' = [draft EXCEPT ![m] = None]
        /\ UNCHANGED <<accounts, marked, used, dvars, open, restarts, failures>>

\* CommitMessagesImplL: one transaction creates the buffered message, commits it
\* and does the same with its parts.
CommitBufferedMessage(m, ps) ==
    LET f == draft[m]
    IN  /\ ~Encrypted
        /\ m \in Drafts
        /\ Live(f)
        /\ ps \cap used = {}
        /\ used' = used \cup ps
        /\ parent' = [c \in Containers |-> IF c = m THEN f ELSE
                                           IF c \in ps THEN m ELSE parent[c]]
        /\ childrenCount' = [childrenCount EXCEPT ![f] = @ + 1, ![m] = Cardinality(ps)]
        /\ childCounts' = [childCounts EXCEPT ![f] = Plus(@, OwnCounts(m))]
        /\ UpdateTotals(Owner[m], OwnCounts(m))
        /\ sorting' = [sorting EXCEPT ![m] = f]
        /\ draft' = [draft EXCEPT ![m] = None]
        /\ UNCHANGED <<unread, accounts, marked, dvars, open, restarts, failures>>

\* The client or its session goes away, or a buffered commit fails and ResetL
\* drops the buffer: a row under KUncommittedContainers stays behind.
LoseDraft(m) ==
    /\ m \in Drafts
    /\ draft' = [draft EXCEPT ![m] = None]
    /\ unread' = IF Encrypted THEN unread ELSE unread \ {m}
    /\ UNCHANGED <<parent, childrenCount, childCounts, accounts, totals, sorting, marked,
                   used, dvars, open, restarts, failures>>

\* AbandonContainerL; the delete handler is not started.
AbandonMessage(m) ==
    /\ m \in Drafts
    /\ Live(m) /\ parent[m] = Uncommitted
    /\ MoveL(m, ToBeDeleted)
    /\ draft' = [draft EXCEPT ![m] = None]
    /\ UNCHANGED <<accounts, totals, sorting, marked, used, dvars, open, restarts, failures>>

\* Folders and parts are created and committed by one request that runs two
\* transactions: both succeed...
CreateAndCommit(c, p) ==
    /\ c \notin used /\ Known(p) /\ Live(p)
    /\ IF c \in Folders
       THEN p \in MailBoxes \cup Folders /\ MailBoxOf(p) = Owner[c]
       ELSE c \in Parts /\ p \in Messages
    /\ MailBoxOf(p) \in accounts
    /\ used' = used \cup {c}
    /\ parent' = [parent EXCEPT ![c] = p]
    /\ childrenCount' = [childrenCount EXCEPT ![p] = @ + 1, ![c] = 0]
    /\ childCounts' = [childCounts EXCEPT ![c] = Zero]
    /\ UNCHANGED <<unread, accounts, totals, sorting, marked, draft, dvars, open,
                   restarts, failures>>

\* ...or only the first does, and the row stays uncommitted.
CreateAndCommitFails(c, p) ==
    /\ c \notin used /\ Known(p) /\ Live(p)
    /\ IF c \in Folders
       THEN p \in MailBoxes \cup Folders /\ MailBoxOf(p) = Owner[c]
       ELSE c \in Parts /\ p \in Messages
    /\ used' = used \cup {c}
    /\ parent' = [parent EXCEPT ![c] = Uncommitted]
    /\ NewRow(c, FALSE)
    /\ UNCHANGED <<accounts, totals, sorting, marked, draft, dvars, open,
                   restarts, failures>>

-----------------------------------------------------------------------------
(* Deleting, moving, copying, updating.                                     *)

\* DeleteContainerL.  A client names the parent it knows; a part may be deleted
\* from a message that is not committed yet.
DeleteContainer(c) ==
    /\ Known(c) /\ Live(c)
    /\ c \notin MailBoxes /\ parent[c] # Uncommitted
    /\ MoveL(c, ToBeDeleted)
    /\ UpdateTotals(MailBoxOf(c), TotalCountsDelta(c, ToBeDeleted))
    /\ ForgetSorting(c)
    /\ StartDeleteHandler
    /\ UNCHANGED <<accounts, used, draft, open, restarts, failures>>

\* Mutant of MoveContainer: a message may go directly below its mailbox.
MoveContainer_AnyParent(c, to) ==
    /\ Known(c) /\ Known(to) /\ Live(to) /\ Live(c)
    /\ parent[c] # Uncommitted
    /\ MailBoxOf(to) = Owner[c]
    /\ MoveL(c, to)
    /\ IF c \in Messages
       THEN sorting[c] # None /\ sorting' = [sorting EXCEPT ![c] = to]
       ELSE <<c, to>> \in FolderMoves /\ UNCHANGED sorting
    /\ UNCHANGED <<accounts, totals, marked, used, draft, dvars, open, restarts, failures>>

\* Mutant of MoveContainer: the sorting row keeps the old folder.
MoveContainer_StaleSorting(c, to) ==
    /\ Known(c) /\ Known(to) /\ Live(to) /\ Live(c)
    /\ parent[c] # Uncommitted
    /\ MailBoxOf(to) = Owner[c]
    /\ MoveL(c, to)
    /\ IF c \in Messages THEN to \in Folders ELSE <<c, to>> \in FolderMoves
    /\ UNCHANGED <<accounts, totals, sorting, marked, used, draft, dvars, open,
                   restarts, failures>>

\* Mutant of MoveContainer: the row of the moved container is sought, not its
\* hierarchy.
MoveContainer_NoHierarchy(c, to) ==
    /\ Known(c) /\ Known(to) /\ Live(to) /\ IsRow(c)
    /\ parent[c] # Uncommitted
    /\ MailBoxOf(to) = Owner[c]
    /\ MoveL(c, to)
    /\ IF c \in Messages
       THEN to \in Folders /\ sorting' = [sorting EXCEPT ![c] = to]
       ELSE <<c, to>> \in FolderMoves /\ UNCHANGED sorting
    /\ UNCHANGED <<accounts, totals, marked, used, draft, dvars, open, restarts, failures>>

\* MoveContainerL: the totals stay, the sorting row of a message follows it.
MoveContainer(c, to) ==
    /\ Known(c) /\ Known(to) /\ Live(to) /\ Live(c)
    /\ parent[c] # Uncommitted
    /\ MailBoxOf(to) = Owner[c]
    /\ MoveL(c, to)
    /\ IF c \in Messages
       THEN to \in Folders /\ sorting[c] # None /\ sorting' = [sorting EXCEPT ![c] = to]
       ELSE <<c, to>> \in FolderMoves /\ UNCHANGED sorting
    /\ UNCHANGED <<accounts, totals, marked, used, draft, dvars, open, restarts, failures>>

\* RecursiveCopyL: a message and, under it, a copy of each of its parts; g names
\* the copies.
Copied(m, n, g, to) ==
    /\ n \notin used
    /\ \A p, q \in DOMAIN g : g[p] \notin used /\ (g[p] = g[q] => p = q)
    /\ LET copies == {g[p] : p \in DOMAIN g}
       IN  /\ used' = used \cup {n} \cup copies
           /\ parent' = [c \in Containers |-> IF c = n THEN to ELSE
                                              IF c \in copies THEN n ELSE parent[c]]
    /\ unread' = IF m \in unread THEN unread \cup {n} ELSE unread

Copyable(m, f, n) ==
    /\ Known(f) /\ Live(f)
    /\ Known(m) /\ Live(m) /\ parent[m] # Uncommitted
    /\ Owner[f] = Owner[m] /\ Owner[n] = Owner[m]

\* CopyContainerL of a message, both transactions.
CopyMessage(m, f, n, g) ==
    /\ Copyable(m, f, n)
    /\ Copied(m, n, g, f)
    /\ childrenCount' = [childrenCount EXCEPT ![f] = @ + 1, ![n] = Cardinality(DOMAIN g)]
    /\ childCounts' = [childCounts EXCEPT ![f] = Plus(@, OwnCounts(m))]
    /\ UpdateTotals(Owner[m], OwnCounts(m))
    /\ sorting' = [sorting EXCEPT ![n] = f]
    /\ UNCHANGED <<accounts, marked, draft, dvars, open, restarts, failures>>

\* The copy is made and its commit fails.
CopyMessageFails(m, f, n, g) ==
    /\ Copyable(m, f, n)
    /\ Copied(m, n, g, Uncommitted)
    /\ childrenCount' = [childrenCount EXCEPT ![n] = Cardinality(DOMAIN g)]
    /\ UNCHANGED <<childCounts, accounts, totals, sorting, marked, draft, dvars, open,
                   restarts, failures>>

\* UpdatePropertiesL: the new properties flip the unread flag of a message; the
\* parent's counts and the totals follow unless the parent is KUncommitted.
UpdateProperties(m) ==
    LET flip == IF m \in unread THEN -1 ELSE 1
        delta == [messages |-> 0, unread |-> flip]
    IN  /\ Known(m) /\ Live(m)
        /\ Owner[m] \in accounts
        /\ unread' = IF m \in unread THEN unread \ {m} ELSE unread \cup {m}
        /\ childCounts' = [c \in Containers |->
               IF c = parent[m] THEN Plus(childCounts[c], delta) ELSE childCounts[c]]
        /\ totals' = IF parent[m] = Uncommitted THEN totals
                     ELSE [totals EXCEPT ![Owner[m]] = Plus(@, delta)]
        /\ UNCHANGED <<parent, childrenCount, accounts, sorting, marked, used, draft,
                       dvars, open, restarts, failures>>

\* OpenContentFileL hands out a file handle that outlives the container, and a
\* restart of the server: it belongs to the file server.  It refuses a row that is
\* encrypted, which is left out: while encryption is on a row may not be encrypted yet.
OpenContent(c) ==
    /\ Known(c) /\ Live(c) /\ c \notin open
    /\ open' = open \cup {c}
    /\ UNCHANGED <<rows, accounts, totals, sorting, marked, used, draft, dvars,
                   restarts, failures>>

CloseContent(c) ==
    /\ c \in open
    /\ open' = open \ {c}
    /\ UNCHANGED <<rows, accounts, totals, sorting, marked, used, draft, dvars,
                   restarts, failures>>

-----------------------------------------------------------------------------
(* The delete handler, an active object of low priority: between two requests  *)
(* it erases one row, or one row of the sorting table.  In all of its states   *)
(* but "RetryDelete" it looks below KToBeDeletedContainers first.              *)

\* c and the containers above it.
Ancestors(c) ==
    {x \in Users :
        \A S \in SUBSET Users :
            c \in S /\ (\A y \in S : parent[y] \in Users => parent[y] \in S) => x \in S}

\* Mutant of SearchRoot: every state looks for the retried containers only.
SearchRoot_RetryOnly == ToRetryDelete

SearchRoot == IF handler = "RetryDelete" THEN ToRetryDelete ELSE ToBeDeleted

\* FindContainerToDeleteL: from the top of the stack, or from the search root if
\* the stack is empty, down to a container without children.
Candidates ==
    {c \in Users :
        /\ parent[c] # None /\ ChildrenOf(c) = {}
        /\ IF stack = {} THEN \E x \in Ancestors(c) : parent[x] = SearchRoot
                         ELSE stack \subseteq Ancestors(c)}

\* Mutant of DeleteIndividualContainer: the container stays on the stack.
DeleteIndividualContainer_NoPop(c) ==
    /\ handler # "Idle"
    /\ c \in Candidates
    /\ stack' = Ancestors(c)
    /\ parent' = [parent EXCEPT ![c] = IF c \in open THEN ToRetryDelete ELSE None]
    /\ UNCHANGED <<unread, childrenCount, childCounts, accounts, totals, sorting, marked,
                   used, draft, handler, open, restarts, failures>>

\* DeleteIndividualContainerL: a content file that is open keeps the row, which
\* is moved to KToRetryDeleteContainers.  No parent's count is updated.
DeleteIndividualContainer(c) ==
    /\ handler # "Idle"
    /\ c \in Candidates
    /\ stack' = Ancestors(c) \ {c}
    /\ IF c \in open
       THEN /\ parent' = [parent EXCEPT ![c] = ToRetryDelete]
            /\ UNCHANGED <<unread, childrenCount, childCounts>>
       ELSE /\ parent' = [parent EXCEPT ![c] = None]
            /\ NewRow(c, FALSE)
    /\ UNCHANGED <<accounts, totals, sorting, marked, used, draft, handler, open,
                   restarts, failures>>

\* What follows when there is nothing to erase.
RetryDeleteDone ==
    /\ handler = "RetryDelete"
    /\ Candidates = {}
    /\ handler' = "DeleteFromSortingTable"
    /\ UNCHANGED <<rows, accounts, totals, sorting, marked, used, draft, stack, open,
                   restarts, failures>>

\* DeleteNextContainerMarkedForDeletionL: a row of the first marked container, or,
\* when it has none left, the mark itself; without more marks the state changes.
RowsOfFirstMark ==
    {m \in Messages : IF Head(marked) \in Folders THEN sorting[m] = Head(marked)
                      ELSE sorting[m] # None /\ Owner[m] = Head(marked)}

\* Mutant of NextMarked: the mark goes with the first of its rows.
NextMarked_FirstRow ==
    \/ /\ marked = <<>>
       /\ handler' = "Delete"
       /\ UNCHANGED <<sorting, marked>>
    \/ /\ marked # <<>>
       /\ sorting' \in {sorting} \cup {[sorting EXCEPT ![m] = None] : m \in RowsOfFirstMark}
       /\ RowsOfFirstMark # {} => sorting' # sorting
       /\ marked' = Tail(marked)
       /\ handler' = IF Tail(marked) = <<>> THEN "Delete" ELSE handler

NextMarked ==
    \/ /\ marked = <<>>
       /\ handler' = "Delete"
       /\ UNCHANGED <<sorting, marked>>
    \/ /\ marked # <<>>
       /\ \E m \in RowsOfFirstMark : sorting' = [sorting EXCEPT ![m] = None]
       /\ UNCHANGED <<handler, marked>>
    \/ /\ marked # <<>> /\ RowsOfFirstMark = {}
       /\ marked' = Tail(marked)
       /\ handler' = IF Tail(marked) = <<>> THEN "Delete" ELSE handler
       /\ UNCHANGED sorting

DeleteFromSortingTable ==
    /\ handler = "DeleteFromSortingTable"
    /\ Candidates = {}
    /\ NextMarked
    /\ UNCHANGED <<rows, accounts, totals, used, draft, stack, open, restarts, failures>>

\* BackgroundOperationsCompleted.
DeleteDone ==
    /\ handler = "Delete"
    /\ Candidates = {}
    /\ handler' = "Idle"
    /\ UNCHANGED <<rows, accounts, totals, sorting, marked, used, draft, stack, open,
                   restarts, failures>>

\* Erasing a row fails with an error nobody expected: the stack stays, and the
\* handler goes on as if there had been nothing to erase.
DeleteFails(c) ==
    /\ failures < MaxFailures
    /\ failures' = failures + 1
    /\ c \in Candidates
    /\ stack' = Ancestors(c)
    /\ \/ handler = "RetryDelete" /\ handler' = "DeleteFromSortingTable"
                                  /\ UNCHANGED <<sorting, marked>>
       \/ handler = "DeleteFromSortingTable" /\ NextMarked
       \/ handler = "Delete" /\ handler' = "Idle" /\ UNCHANGED <<sorting, marked>>
    /\ UNCHANGED <<rows, accounts, totals, used, draft, open, restarts>>

DeleteHandler ==
    \/ \E c \in Users : DeleteIndividualContainer(c)
    \/ RetryDeleteDone
    \/ DeleteFromSortingTable
    \/ DeleteDone

\* The server is stopped or crashes and is started again: ConstructL abandons what
\* is uncommitted and starts the delete handler.  Buffers are lost.
Restart ==
    /\ restarts < MaxRestarts
    /\ restarts' = restarts + 1
    /\ parent' = [c \in Containers |->
                     IF parent[c] = Uncommitted THEN ToBeDeleted ELSE parent[c]]
    /\ draft' = IF Encrypted THEN draft ELSE [m \in Messages |-> None]
    /\ unread' = {m \in unread : parent[m] # None}
    /\ handler' = "RetryDelete"
    /\ stack' = {}
    /\ UNCHANGED <<childrenCount, childCounts, accounts, totals, sorting, marked, used,
                   open, failures>>

-----------------------------------------------------------------------------
Next ==
    \/ \E mb \in MailBoxes : CreateAccount(mb) \/ DeleteAccount(mb)
    \/ \E m \in Messages, f \in Folders, u \in BOOLEAN : CreateMessage(m, f, u)
    \/ \E m \in Messages : \/ CommitMessage(m)
                           \/ LoseDraft(m)
                           \/ AbandonMessage(m)
                           \/ UpdateProperties(m)
    \/ \E m \in Messages, ps \in SUBSET Parts : CommitBufferedMessage(m, ps)
    \/ \E c \in Folders \cup Parts, p \in Users :
           CreateAndCommit(c, p) \/ CreateAndCommitFails(c, p)
    \/ \E c \in Folders \cup Messages \cup Parts : DeleteContainer(c)
    \/ \E c \in Folders \cup Messages, to \in MailBoxes \cup Folders : MoveContainer(c, to)
    \/ \E m, n \in Messages, f \in Folders :
           \E g \in [ChildrenOf(m) -> Parts] :
               CopyMessage(m, f, n, g) \/ CopyMessageFails(m, f, n, g)
    \/ \E c \in WithContent : OpenContent(c) \/ CloseContent(c)
    \/ \E c \in Users : DeleteFails(c)
    \/ DeleteHandler
    \/ Restart

Spec == Init /\ [][Next]_vars

\* The scheduler runs the delete handler when no request is waiting, and clients
\* close their file handles.
Fairness == /\ WF_vars(DeleteHandler)
            /\ \A c \in WithContent : WF_vars(CloseContent(c))

FairSpec == Spec /\ Fairness

-----------------------------------------------------------------------------
(* Properties.                                                              *)

Rows == {c \in Containers : parent[c] # None}

\* Every variable keeps its type (that of the totals follows from TotalsExact).
TypeOK ==
    /\ parent \in [Containers -> Containers \cup Specials]
    /\ parent[Root] = Invalid
    /\ unread \subseteq Messages
    /\ childrenCount \in [Containers -> Int]
    /\ childCounts \in [Containers -> Counts]
    /\ accounts \subseteq MailBoxes
    /\ DOMAIN totals = MailBoxes
    /\ sorting \in [Messages -> Folders \cup {None}]
    /\ marked \in Seq(Folders \cup MailBoxes)
    /\ used \subseteq Users
    /\ draft \in [Messages -> Folders \cup {None}]
    /\ handler \in {"Idle", "RetryDelete", "DeleteFromSortingTable", "Delete"}
    /\ stack \subseteq Users
    /\ open \subseteq WithContent
    /\ restarts \in Nat /\ failures \in Nat

\* No orphans: the row a row names as its parent exists, although rows are
\* erased one at a time in the background, a commit does not ask whether its
\* folder is deleted, and a restart may come between any two steps.
ParentsExist ==
    \A c \in Users : parent[c] \in {None, Uncommitted, ToBeDeleted, ToRetryDelete} \cup Rows

\* Ids are handed out before anything uses them, and a buffered message has no row.
IdsUsed ==
    /\ \A c \in Users : parent[c] # None => c \in used
    /\ \A m \in Drafts : m \in used /\ (Encrypted \/ parent[m] = None)

\* The counts a container records by deltas are those of its children, in every
\* container that a request can still reach.
FolderCountsExact ==
    \A c \in Containers : Live(c) =>
        LET kids == ChildrenOf(c)
        IN  /\ childrenCount[c] = Cardinality(kids)
            /\ childCounts[c].messages = Cardinality(kids \cap Messages)
            /\ childCounts[c].unread = Cardinality(kids \cap Messages \cap unread)

\* The totals of an account, maintained by deltas, are the numbers of messages and
\* unread messages a client can find in its mailbox.
TotalsExact ==
    \A mb \in accounts :
        LET shown == {m \in Messages : Visible(m) /\ Owner[m] = mb}
        IN  totals[mb] = [messages |-> Cardinality(shown),
                          unread |-> Cardinality(shown \cap unread)]

\* A message a client can find is in the sorting table, under its folder; one not
\* committed yet, or dropped before its commit, is not.
SortingExact ==
    \A m \in Messages :
        /\ Visible(m) => sorting[m] = parent[m]
        /\ parent[m] = Uncommitted \/ m \in Drafts => sorting[m] = None

\* The row of m in the sorting table is going to be deleted: its folder or mailbox is
\* marked.
Awaiting(m) == \E i \in DOMAIN marked : marked[i] \in {sorting[m], Owner[m]}

\* A row of the sorting table outlives its message only on the way to be deleted: when
\* the message, its folder or its mailbox is deleted the row goes at once or a mark leads
\* to it, and the mark stays, over restarts and failures, until the row went.  (Messages
\* of a folder within the one deleted get no mark, and their rows stay.)
SortingRowsAccounted ==
    [][\A m \in Messages : sorting[m] # None /\ sorting'[m] # None =>
          /\ Awaiting(m) => Awaiting(m)'
          /\ \A c \in {m, sorting[m], Owner[m]} :
                Live(c) /\ ~Live(c)' /\ parent'[c] # parent[c] => Awaiting(m)']_vars

\* The delete handler's stack holds deleted containers that still have their row,
\* whatever failed or restarted while they were on it: it goes to their bookmarks.
StackDead == \A c \in stack : c \in Rows /\ ~Live(c)

\* What was deleted stays deleted: no sequence of requests brings a container back
\* whose hierarchy leads to KToBeDeletedContainers or KToRetryDeleteContainers.
NoResurrection ==
    [][\A c \in used : parent[c] # None /\ ~Live(c) => ~Live(c)']_vars

\* FoldersL lists "all folders in the message store, recursively".
Below(c) == {f \in Folders : f \in FoldersBelow(c)}
FoldersListed ==
    \A f \in Folders : Live(f) /\ parent[f] # Uncommitted => f \in Below(Owner[f])

\* While the delete handler runs and meets no unexpected error, a container below
\* KToBeDeletedContainers whose file nobody holds open loses its row: no other
\* container's open file, new deletion or restart keeps it for ever.
PurgedEventually ==
    \A c \in Users, k \in 0..MaxFailures :
        (/\ handler # "Idle" /\ c \notin open /\ failures = k
         /\ \E x \in Ancestors(c) : parent[x] = ToBeDeleted)
        ~> (parent[c] = None \/ failures > k)
=============================================================================
