------------------------ MODULE ContainerStore_proofs ------------------------
(* Theorems about the container store, for every set of mailboxes, folders,     *)
(* messages and parts.                                                          *)
EXTENDS ContainerStore, LeastNumbers, FiniteSetTheorems, TLAPS

USE DistinctTypes, DistinctSpecials, OwnerType

-----------------------------------------------------------------------------
(* Type correctness.                                                           *)

LEMMA CountsClosed ==
    /\ Zero \in Counts
    /\ \A a, b \in Counts : Plus(a, b) \in Counts /\ Minus(a, b) \in Counts
BY DEF Counts, Plus, Minus, Zero

LEMMA OwnCountsType ==
    ASSUME NEW c PROVE OwnCounts(c) \in Counts
BY DEF Counts, OwnCounts

\* Recount keeps the types of the counts columns.
LEMMA RecountType ==
    ASSUME TypeOK, NEW c, NEW from, NEW to, Recount(c, from, to)
    PROVE  /\ childrenCount' \in [Containers -> Int]
           /\ childCounts' \in [Containers -> Counts]
<1>1. \A x \in Containers : childrenCount[x] \in Int /\ childCounts[x] \in Counts
    BY DEF TypeOK
<1>2. childrenCount' \in [Containers -> Int]
    BY <1>1 DEF Recount
<1>3. ASSUME NEW x \in Containers
      PROVE  Minus(Plus(childCounts[x], IF x = to THEN OwnCounts(c) ELSE Zero),
                   IF x = from THEN OwnCounts(c) ELSE Zero) \in Counts
    <2>1. (IF x = to THEN OwnCounts(c) ELSE Zero) \in Counts
        BY OwnCountsType DEF Zero, Counts
    <2>2. (IF x = from THEN OwnCounts(c) ELSE Zero) \in Counts
        BY OwnCountsType DEF Zero, Counts
    <2>. QED BY <1>1, <2>1, <2>2, CountsClosed
<1>. QED BY <1>2, <1>3 DEF Recount

\* NewRow keeps the types of the columns it resets.
LEMMA NewRowType ==
    ASSUME TypeOK, NEW c \in Users, NEW b \in BOOLEAN, b => c \in Messages, NewRow(c, b)
    PROVE  /\ unread' \subseteq Messages
           /\ childrenCount' \in [Containers -> Int]
           /\ childCounts' \in [Containers -> Counts]
<1>1. unread' \subseteq Messages
    BY DEF NewRow, TypeOK
<1>2. childrenCount' \in [Containers -> Int]
    <2>1. childrenCount \in [Containers -> Int] /\ childrenCount' = [childrenCount EXCEPT ![c] = 0]
        BY DEF NewRow, TypeOK
    <2>2. \A x \in Containers : childrenCount'[x] = IF x = c THEN 0 ELSE childrenCount[x]
        BY <2>1
    <2>3. DOMAIN childrenCount' = Containers
        BY <2>1
    <2>4. \A x \in Containers : childrenCount'[x] \in Int
        BY <2>1, <2>2
    <2>. QED BY <2>1, <2>3, <2>4
<1>3. childCounts' \in [Containers -> Counts]
    BY CountsClosed DEF NewRow, TypeOK
<1>. QED BY <1>1, <1>2, <1>3

\* MoveL keeps the types of the containers table.
LEMMA MoveLType ==
    ASSUME TypeOK, NEW c \in Users, NEW to \in Containers \cup Specials, MoveL(c, to)
    PROVE  /\ parent' \in [Containers -> Containers \cup Specials]
           /\ parent'[Root] = Invalid
           /\ unread' \subseteq Messages
           /\ childrenCount' \in [Containers -> Int]
           /\ childCounts' \in [Containers -> Counts]
<1>1. Recount(c, parent[c], to)
    BY DEF MoveL
<1>. QED BY <1>1, RecountType DEF MoveL, TypeOK, Containers, Users

LEMMA ForgetSortingType ==
    ASSUME TypeOK, NEW c \in Users, ForgetSorting(c)
    PROVE  /\ sorting' \in [Messages -> Folders \cup {None}]
           /\ marked' \in Seq(Folders \cup MailBoxes)
BY DEF TypeOK, ForgetSorting

LEMMA NextMarkedType ==
    ASSUME TypeOK, NextMarked
    PROVE  /\ sorting' \in [Messages -> Folders \cup {None}]
           /\ marked' \in Seq(Folders \cup MailBoxes)
           /\ handler' \in {"Delete", handler}
<1>1. CASE marked = <<>> /\ handler' = "Delete" /\ UNCHANGED <<sorting, marked>>
    BY <1>1 DEF TypeOK
<1>2. CASE /\ \E m \in RowsOfFirstMark : sorting' = [sorting EXCEPT ![m] = None]
           /\ UNCHANGED <<handler, marked>>
    BY <1>2 DEF TypeOK, RowsOfFirstMark
<1>3. CASE /\ marked # <<>>
           /\ marked' = Tail(marked)
           /\ handler' = IF Tail(marked) = <<>> THEN "Delete" ELSE handler
           /\ UNCHANGED sorting
    BY <1>3 DEF TypeOK
<1>. QED BY <1>1, <1>2, <1>3 DEF NextMarked

LEMMA AncestorsType ==
    ASSUME TypeOK, NEW c \in Users
    PROVE  Ancestors(c) \subseteq Users
BY DEF Ancestors

LEMMA TypeInit == Init => TypeOK
BY DEF Init, TypeOK, Counts, Zero, Containers, Users, Specials

LEMMA TypeStep == TypeOK /\ [Next]_vars => TypeOK'
<1>. SUFFICES ASSUME TypeOK, [Next]_vars PROVE TypeOK'
    OBVIOUS
<1>1. ASSUME NEW mb \in MailBoxes, CreateAccount(mb) PROVE TypeOK'
    <2>1. /\ mb \in Containers /\ SystemFolder[mb] \in Containers
          /\ mb # Root /\ SystemFolder[mb] # Root /\ {mb, SystemFolder[mb]} \subseteq Users
        BY DEF Containers, Users
    <2>2. parent' \in [Containers -> Containers \cup Specials] /\ parent'[Root] = Invalid
        BY <1>1, <2>1 DEF CreateAccount, TypeOK, Containers
    <2>3. childrenCount' \in [Containers -> Int]
        BY <1>1, <2>1 DEF CreateAccount, TypeOK, Containers
    <2>4. childCounts' \in [Containers -> Counts]
        BY <1>1, <2>1, CountsClosed DEF CreateAccount, TypeOK
    <2>. QED BY <1>1, <2>1, <2>2, <2>3, <2>4 DEF CreateAccount, TypeOK, dvars
<1>2. ASSUME NEW mb \in MailBoxes, DeleteAccount(mb) PROVE TypeOK'
    <2>1. mb \in Users /\ ToBeDeleted \in Containers \cup Specials
        BY DEF Users, Specials
    <2>2. MoveL(mb, ToBeDeleted) /\ ForgetSorting(mb)
        BY <1>2 DEF DeleteAccount
    <2>. QED BY <1>2, <2>1, <2>2, MoveLType, ForgetSortingType
             DEF DeleteAccount, StartDeleteHandler, TypeOK
<1>3. ASSUME NEW m \in Messages, NEW f \in Folders, NEW u \in BOOLEAN, CreateMessage(m, f, u)
      PROVE  TypeOK'
    <2>1. m \in Containers /\ m # Root /\ m \in Users /\ Uncommitted \in Specials
        BY DEF Containers, Users, Specials
    <2>2. /\ parent' \in [Containers -> Containers \cup Specials] /\ parent'[Root] = Invalid
          /\ unread' \subseteq Messages
          /\ childrenCount' \in [Containers -> Int]
          /\ childCounts' \in [Containers -> Counts]
        <3>1. CASE Encrypted
            <4>1. /\ parent' = [parent EXCEPT ![m] = Uncommitted]
                  /\ NewRow(m, u)
                BY <1>3, <3>1 DEF CreateMessage
            <4>. QED BY <2>1, <4>1, NewRowType DEF TypeOK
        <3>2. CASE ~Encrypted
            BY <1>3, <2>1, <3>2 DEF CreateMessage, TypeOK
        <3>. QED BY <3>1, <3>2
    <2>3. used' \subseteq Users /\ draft' \in [Messages -> Folders \cup {None}]
        BY <1>3, <2>1 DEF CreateMessage, TypeOK
    <2>. QED BY <1>3, <2>2, <2>3 DEF CreateMessage, TypeOK, dvars
<1>4. ASSUME NEW m \in Messages, CommitMessage(m) PROVE TypeOK'
    <2>1. draft[m] \in Folders
        BY <1>4 DEF CommitMessage, Drafts, TypeOK
    <2>2. m \in Users /\ draft[m] \in Containers \cup Specials
        BY <2>1 DEF Users, Containers
    <2>3. MoveL(m, draft[m])
        BY <1>4 DEF CommitMessage
    <2>4. DOMAIN totals' = MailBoxes
        BY <1>4 DEF CommitMessage, UpdateTotals, TypeOK
    <2>. QED BY <1>4, <2>1, <2>2, <2>3, <2>4, MoveLType DEF CommitMessage, TypeOK, dvars
<1>5. ASSUME NEW m \in Messages, LoseDraft(m) PROVE TypeOK'
    BY <1>5 DEF LoseDraft, TypeOK, dvars
<1>6. ASSUME NEW m \in Messages, AbandonMessage(m) PROVE TypeOK'
    <2>1. m \in Users /\ ToBeDeleted \in Containers \cup Specials
        BY DEF Users, Specials
    <2>2. MoveL(m, ToBeDeleted)
        BY <1>6 DEF AbandonMessage
    <2>. QED BY <1>6, <2>1, <2>2, MoveLType DEF AbandonMessage, TypeOK, dvars
<1>7. ASSUME NEW m \in Messages, UpdateProperties(m) PROVE TypeOK'
    <2>1. childCounts' \in [Containers -> Counts]
        BY <1>7 DEF UpdateProperties, TypeOK, Counts, Plus
    <2>2. unread' \subseteq Messages
        BY <1>7 DEF UpdateProperties, TypeOK
    <2>3. DOMAIN totals' = MailBoxes
        BY <1>7 DEF UpdateProperties, TypeOK
    <2>. QED BY <1>7, <2>1, <2>2, <2>3 DEF UpdateProperties, TypeOK, dvars
<1>8. ASSUME NEW m \in Messages, NEW ps \in SUBSET Parts, CommitBufferedMessage(m, ps)
      PROVE  TypeOK'
    <2>1. draft[m] \in Folders /\ draft[m] \in Containers
        BY <1>8 DEF CommitBufferedMessage, Drafts, TypeOK, Containers, Users
    <2>2. parent' \in [Containers -> Containers \cup Specials] /\ parent'[Root] = Invalid
        BY <1>8, <2>1 DEF CommitBufferedMessage, TypeOK, Containers, Users
    <2>3. childCounts' \in [Containers -> Counts]
        <3>1. Plus(childCounts[draft[m]], OwnCounts(m)) \in Counts
            BY <2>1, OwnCountsType, CountsClosed DEF TypeOK
        <3>. QED BY <1>8, <2>1, <3>1 DEF CommitBufferedMessage, TypeOK
    <2>4. childrenCount' \in [Containers -> Int]
        <3>1. Cardinality(ps) \in Int
            BY FiniteIds, FS_Subset, FS_CardinalityType DEF Users
        <3>2. childrenCount[draft[m]] \in Int
            BY <2>1 DEF TypeOK
        <3>3. childrenCount' = [childrenCount EXCEPT ![draft[m]] = @ + 1,
                                                     ![m] = Cardinality(ps)]
            BY <1>8 DEF CommitBufferedMessage
        <3>4. childrenCount \in [Containers -> Int]
            BY DEF TypeOK
        <3>5. childrenCount[draft[m]] + 1 \in Int
            BY <3>2
        <3>6. \A x \in Containers : childrenCount'[x] \in {childrenCount[x], Cardinality(ps),
                                                            childrenCount[draft[m]] + 1}
            BY <3>3, <3>4
        <3>. QED BY <3>1, <3>3, <3>4, <3>5, <3>6
    <2>5. DOMAIN totals' = MailBoxes
        BY <1>8 DEF CommitBufferedMessage, UpdateTotals, TypeOK
    <2>. QED BY <1>8, <2>1, <2>2, <2>3, <2>4, <2>5
             DEF CommitBufferedMessage, TypeOK, Users, dvars
<1>9. ASSUME NEW c \in Folders \cup Parts, NEW p \in Users, CreateAndCommit(c, p)
      PROVE  TypeOK'
    <2>1. c \in Containers /\ p \in Containers /\ c # Root
        BY DEF Containers, Users
    <2>. QED BY <1>9, <2>1 DEF CreateAndCommit, TypeOK, Users, Counts, Zero, dvars
<1>10. ASSUME NEW c \in Folders \cup Parts, NEW p \in Users, CreateAndCommitFails(c, p)
       PROVE  TypeOK'
    <2>1. c \in Containers /\ c # Root /\ c \in Users
        BY DEF Containers, Users
    <2>2. unread' \subseteq Messages
        BY <1>10 DEF CreateAndCommitFails, NewRow, TypeOK
    <2>. QED BY <1>10, <2>1, <2>2
             DEF CreateAndCommitFails, NewRow, TypeOK, Specials, Counts, Zero, dvars
<1>11. ASSUME NEW c \in Folders \cup Messages \cup Parts, DeleteContainer(c) PROVE TypeOK'
    <2>1. c \in Users /\ ToBeDeleted \in Containers \cup Specials
        BY DEF Users, Specials
    <2>2. MoveL(c, ToBeDeleted) /\ ForgetSorting(c)
        BY <1>11 DEF DeleteContainer
    <2>3. DOMAIN totals' = MailBoxes
        BY <1>11 DEF DeleteContainer, UpdateTotals, TypeOK
    <2>. QED BY <1>11, <2>1, <2>2, <2>3, MoveLType, ForgetSortingType
             DEF DeleteContainer, StartDeleteHandler, TypeOK
<1>12. ASSUME NEW c \in Folders \cup Messages, NEW to \in MailBoxes \cup Folders,
              MoveContainer(c, to)
       PROVE  TypeOK'
    <2>1. c \in Users /\ to \in Containers \cup Specials
        BY DEF Users, Containers
    <2>2. MoveL(c, to)
        BY <1>12 DEF MoveContainer
    <2>3. sorting' \in [Messages -> Folders \cup {None}]
        BY <1>12 DEF MoveContainer, TypeOK
    <2>. QED BY <1>12, <2>1, <2>2, <2>3, MoveLType DEF MoveContainer, TypeOK, dvars
<1>13. ASSUME NEW m \in Messages, NEW n \in Messages, NEW f \in Folders,
              NEW g \in [ChildrenOf(m) -> Parts], CopyMessage(m, f, n, g)
       PROVE  TypeOK'
    <2>1. f \in Containers /\ n \in Containers /\ n # Root /\ Root \notin Parts
        BY DEF Containers, Users
    <2>2. Copied(m, n, g, f)
        BY <1>13 DEF CopyMessage
    <2>3. parent' \in [Containers -> Containers \cup Specials] /\ parent'[Root] = Invalid
        BY <2>1, <2>2 DEF Copied, TypeOK, Containers
    <2>4. unread' \subseteq Messages /\ used' \subseteq Users
        BY <2>2 DEF Copied, TypeOK, Users
    <2>5. childCounts' \in [Containers -> Counts]
        <3>1. Plus(childCounts[f], OwnCounts(m)) \in Counts
            BY <2>1, OwnCountsType, CountsClosed DEF TypeOK
        <3>. QED BY <1>13, <2>1, <3>1 DEF CopyMessage, TypeOK
    <2>6. childrenCount' \in [Containers -> Int]
        <3>1. Cardinality(DOMAIN g) \in Int
            BY FiniteIds, FS_Subset, FS_CardinalityType DEF ChildrenOf
        <3>. QED BY <1>13, <2>1, <3>1 DEF CopyMessage, TypeOK
    <2>7. DOMAIN totals' = MailBoxes
        BY <1>13 DEF CopyMessage, UpdateTotals, TypeOK
    <2>. QED BY <1>13, <2>3, <2>4, <2>5, <2>6, <2>7 DEF CopyMessage, TypeOK, dvars
<1>14. ASSUME NEW m \in Messages, NEW n \in Messages, NEW f \in Folders,
              NEW g \in [ChildrenOf(m) -> Parts], CopyMessageFails(m, f, n, g)
       PROVE  TypeOK'
    <2>1. n \in Containers /\ n # Root /\ Root \notin Parts /\ Uncommitted \in Specials
        BY DEF Containers, Users, Specials
    <2>2. Copied(m, n, g, Uncommitted)
        BY <1>14 DEF CopyMessageFails
    <2>3. parent' \in [Containers -> Containers \cup Specials] /\ parent'[Root] = Invalid
        BY <2>1, <2>2 DEF Copied, TypeOK, Containers
    <2>4. unread' \subseteq Messages /\ used' \subseteq Users
        BY <2>2 DEF Copied, TypeOK, Users
    <2>5. childrenCount' \in [Containers -> Int]
        <3>1. Cardinality(DOMAIN g) \in Int
            BY FiniteIds, FS_Subset, FS_CardinalityType DEF ChildrenOf
        <3>. QED BY <1>14, <2>1, <3>1 DEF CopyMessageFails, TypeOK
    <2>. QED BY <1>14, <2>3, <2>4, <2>5 DEF CopyMessageFails, TypeOK, dvars
<1>15. ASSUME NEW c \in WithContent, OpenContent(c) \/ CloseContent(c) PROVE TypeOK'
    BY <1>15 DEF OpenContent, CloseContent, TypeOK, rows, dvars
<1>16. ASSUME NEW c \in Users, DeleteFails(c) PROVE TypeOK'
    <2>1. /\ sorting' \in [Messages -> Folders \cup {None}]
          /\ marked' \in Seq(Folders \cup MailBoxes)
          /\ handler' \in {"Idle", "RetryDelete", "DeleteFromSortingTable", "Delete"}
        BY <1>16, NextMarkedType DEF DeleteFails, TypeOK
    <2>2. stack' \subseteq Users
        BY <1>16, AncestorsType DEF DeleteFails, Candidates
    <2>. QED BY <1>16, <2>1, <2>2 DEF DeleteFails, TypeOK, rows
<1>17. ASSUME NEW c \in Users, DeleteIndividualContainer(c) PROVE TypeOK'
    <2>1. stack' \subseteq Users
        BY <1>17, AncestorsType DEF DeleteIndividualContainer
    <2>2. c \in Containers /\ c # Root /\ {ToRetryDelete, None} \subseteq Specials
        BY DEF Containers, Users, Specials
    <2>3. /\ parent' \in [Containers -> Containers \cup Specials] /\ parent'[Root] = Invalid
          /\ unread' \subseteq Messages
          /\ childrenCount' \in [Containers -> Int]
          /\ childCounts' \in [Containers -> Counts]
        <3>1. CASE c \in open
            <4>1. /\ parent' = [parent EXCEPT ![c] = ToRetryDelete]
                  /\ UNCHANGED <<unread, childrenCount, childCounts>>
                BY <1>17, <3>1 DEF DeleteIndividualContainer
            <4>. QED BY <2>2, <4>1 DEF TypeOK
        <3>2. CASE c \notin open
            <4>1. /\ parent' = [parent EXCEPT ![c] = None]
                  /\ NewRow(c, FALSE)
                BY <1>17, <3>2 DEF DeleteIndividualContainer
            <4>2. parent' \in [Containers -> Containers \cup Specials] /\ parent'[Root] = Invalid
                BY <2>2, <4>1 DEF TypeOK
            <4>. QED BY <4>1, <4>2, NewRowType
        <3>. QED BY <3>1, <3>2
    <2>. QED BY <1>17, <2>1, <2>3 DEF DeleteIndividualContainer, TypeOK
<1>18. ASSUME RetryDeleteDone \/ DeleteDone PROVE TypeOK'
    BY <1>18 DEF RetryDeleteDone, DeleteDone, TypeOK, rows
<1>19. ASSUME DeleteFromSortingTable PROVE TypeOK'
    BY <1>19, NextMarkedType DEF DeleteFromSortingTable, TypeOK, rows
<1>20. ASSUME Restart PROVE TypeOK'
    <2>1. parent' \in [Containers -> Containers \cup Specials] /\ parent'[Root] = Invalid
        BY <1>20 DEF Restart, TypeOK, Containers, Specials
    <2>2. unread' \subseteq Messages /\ draft' \in [Messages -> Folders \cup {None}]
        BY <1>20 DEF Restart, TypeOK
    <2>. QED BY <1>20, <2>1, <2>2 DEF Restart, TypeOK
<1>21. CASE UNCHANGED vars
    BY <1>21 DEF vars, rows, dvars, TypeOK
<1>. QED BY <1>1, <1>2, <1>3, <1>4, <1>5, <1>6, <1>7, <1>8, <1>9, <1>10, <1>11, <1>12,
            <1>13, <1>14, <1>15, <1>16, <1>17, <1>18, <1>19, <1>20, <1>21
         DEF Next, DeleteHandler

\* In every reachable state every variable has its type.
THEOREM TypeCorrect == Spec => []TypeOK
BY TypeInit, TypeStep, PTL DEF Spec

-----------------------------------------------------------------------------
(* Hierarchies.                                                                *)

Ends == {Invalid, Uncommitted}

\* Being live, by a set of rows that the parent column does not leave.
LEMMA LiveByClosed ==
    ASSUME NEW c
    PROVE  Live(c) <=> \E S \in SUBSET Containers : c \in S /\ Closed(S, Ends)
<1>1. ASSUME NEW S \in SUBSET Containers, Closed(S, Ends)
      PROVE  S \in SUBSET {x \in Containers : parent[x] \notin {None, ToBeDeleted, ToRetryDelete}}
    BY <1>1 DEF Closed, IsRow, Ends, Specials
<1>. QED BY <1>1 DEF Live, Reaching, Ends

\* The same of the next state.
LEMMA LiveByClosedPrime ==
    ASSUME NEW c
    PROVE  Live(c)' <=> \E S \in SUBSET Containers : c \in S /\ Closed(S, Ends)'
<1>1. ASSUME NEW S \in SUBSET Containers, Closed(S, Ends)'
      PROVE  S \in SUBSET {x \in Containers : parent'[x] \notin {None, ToBeDeleted, ToRetryDelete}}
    BY <1>1 DEF Closed, IsRow, Ends, Specials
<1>. QED BY <1>1 DEF Live, Reaching, Closed, IsRow, Ends

LEMMA LiveIsRow ==
    ASSUME NEW c, Live(c) PROVE c \in Rows
BY LiveByClosed DEF Closed, IsRow, Rows

\* A row below a live one is live.
LEMMA LiveChild ==
    ASSUME NEW c \in Users, parent[c] # None, Live(parent[c])
    PROVE  Live(c)
<1>1. PICK S \in SUBSET Containers : parent[c] \in S /\ Closed(S, Ends)
    BY LiveByClosed
<1>2. Closed(S \cup {c}, Ends)
    BY <1>1 DEF Closed, IsRow, Containers
<1>3. c \in S \cup {c} /\ S \cup {c} \in SUBSET Containers
    BY <1>1 DEF Containers
<1>. QED BY <1>2, <1>3, LiveByClosed

LEMMA LiveParent ==
    ASSUME NEW c, Live(c), parent[c] \in Containers
    PROVE  Live(parent[c])
<1>1. PICK S \in SUBSET Containers : c \in S /\ Closed(S, Ends)
    BY LiveByClosed
<1>2. parent[c] \in S
    BY <1>1 DEF Closed, Ends, Specials
<1>. QED BY <1>1, <1>2, LiveByClosed

\* Moving a row that is live, or to where deleted rows are, makes nothing live.
LEMMA MoveResurrectsNothing ==
    ASSUME NEW x \in Users, NEW to,
           parent \in [Containers -> Containers \cup Specials],
           parent' = [parent EXCEPT ![x] = to],
           Live(x) \/ to \in {ToBeDeleted, ToRetryDelete, None},
           NEW c, Live(c)'
    PROVE  Live(c)
<1>1. PICK S \in SUBSET Containers : c \in S /\ Closed(S, Ends)'
    BY LiveByClosedPrime
<1>2. \A y \in S : parent'[y] # None /\ parent'[y] \in S \cup Ends
    BY <1>1 DEF Closed, IsRow
<1>3. CASE Live(x)
    <2>1. PICK T \in SUBSET Containers : x \in T /\ Closed(T, Ends)
        BY <1>3, LiveByClosed
    <2>2. Closed(S \cup T, Ends)
        <3>1. ASSUME NEW y \in S, y # x PROVE IsRow(y) /\ parent[y] \in S \cup T \cup Ends
            BY <1>2, <3>1 DEF IsRow
        <3>2. ASSUME NEW y \in T PROVE IsRow(y) /\ parent[y] \in S \cup T \cup Ends
            BY <2>1 DEF Closed
        <3>. QED BY <2>1, <3>1, <3>2 DEF Closed
    <2>. QED BY <1>1, <2>2, LiveByClosed
<1>4. CASE to \in {ToBeDeleted, ToRetryDelete, None}
    <2>1. x \notin S
        BY <1>2, <1>4 DEF Ends, Specials, Containers
    <2>2. Closed(S, Ends)
        BY <1>2, <2>1 DEF Closed, IsRow
    <2>. QED BY <1>1, <2>2, LiveByClosed
<1>. QED BY <1>3, <1>4

\* Nor do new rows make a row live that was there before them.
LEMMA CreationResurrectsNothing ==
    ASSUME NEW N \in SUBSET Users, N \cap Rows = {},
           parent[Root] = Invalid, ParentsExist,
           \A x \in Containers \ N : parent'[x] = parent[x],
           NEW c \in Rows, Live(c)'
    PROVE  Live(c)
<1>1. PICK S \in SUBSET Containers : c \in S /\ Closed(S, Ends)'
    BY LiveByClosedPrime
<1>2. Closed(S \ N, Ends)
    <2>. SUFFICES ASSUME NEW y \in S \ N PROVE IsRow(y) /\ parent[y] \in (S \ N) \cup Ends
        BY DEF Closed
    <2>1. IsRow(y) /\ parent[y] \in S \cup Ends
        BY <1>1 DEF Closed, IsRow
    <2>2. parent[y] \notin N
        BY <2>1 DEF ParentsExist, Containers, Specials, Rows
    <2>. QED BY <2>1, <2>2
<1>. QED BY <1>1, <1>2, LiveByClosed

-----------------------------------------------------------------------------
(* What a step may do to the parent column: leave it alone, move a live row or  *)
(* one below the deleted rows, erase a row without children, add rows, or mark  *)
(* at a restart what is uncommitted.                                            *)

MovesRow ==
    \E x \in Users, to \in Containers \cup Specials :
        /\ parent' = [parent EXCEPT ![x] = to]
        /\ Live(x) \/ to \in {ToBeDeleted, ToRetryDelete}
        /\ to \in Rows \cup {Uncommitted, ToBeDeleted, ToRetryDelete}
        /\ x \in Rows

ErasesRow ==
    \E x \in Users : /\ ChildrenOf(x) = {} /\ DeleteIndividualContainer(x)
                    /\ parent' = [parent EXCEPT ![x] = None]

AddsRows ==
    \E N \in SUBSET Users :
        /\ N \cap Rows = {}
        /\ \A x \in Containers \ N : parent'[x] = parent[x]
        /\ \A x \in N : parent'[x] \in Rows \cup N \cup {Uncommitted} /\ parent'[x] # None

MarksUncommitted ==
    parent' = [c \in Containers |-> IF parent[c] = Uncommitted THEN ToBeDeleted ELSE parent[c]]

Inv == TypeOK /\ ParentsExist /\ IdsUsed

LEMMA MoveLMovesRow ==
    ASSUME Inv, NEW c \in Users, Live(c), NEW to \in Containers \cup {ToBeDeleted}, MoveL(c, to)
    PROVE  MovesRow
<1>1. c \in Rows
    BY LiveIsRow
<1>2. to \in Rows \cup {ToBeDeleted} /\ to \in Containers \cup Specials
    BY DEF MoveL, IsRow, Rows, Specials
<1>3. parent' = [parent EXCEPT ![c] = to]
    BY DEF MoveL
<1>. QED BY <1>1, <1>2, <1>3 DEF MovesRow

LEMMA AddsRowsIntro ==
    ASSUME NEW N \in SUBSET Users, N \cap Rows = {},
           \A x \in Containers \ N : parent'[x] = parent[x],
           \A x \in N : parent'[x] \in Rows \cup N \cup {Uncommitted} /\ parent'[x] # None
    PROVE  AddsRows
BY DEF AddsRows

LEMMA CreatesOneRow ==
    ASSUME TypeOK, NEW c \in Users, {c} \cap Rows = {}, NEW to \in Rows \cup {Uncommitted},
           parent' = [parent EXCEPT ![c] = to]
    PROVE  AddsRows
<1>. DEFINE N == {c}
<1>1. N \in SUBSET Users /\ N \cap Rows = {}
    OBVIOUS
<1>2. \A x \in Containers \ N : parent'[x] = parent[x]
    BY DEF TypeOK
<1>3. parent'[c] = to /\ to # None
    BY DEF TypeOK, Containers, Rows, Specials
<1>4. \A x \in N : parent'[x] \in Rows \cup N \cup {Uncommitted} /\ parent'[x] # None
    BY <1>3
<1>. HIDE DEF N
<1>. QED BY <1>1, <1>2, <1>4, AddsRowsIntro

LEMMA StepKinds ==
    ASSUME Inv, [Next]_vars
    PROVE  MovesRow \/ ErasesRow \/ AddsRows \/ MarksUncommitted \/ UNCHANGED parent
<1>. DEFINE Goal == MovesRow \/ ErasesRow \/ AddsRows \/ MarksUncommitted \/ UNCHANGED parent
<1>. SUFFICES Goal
    OBVIOUS
<1>t. TypeOK
    BY DEF Inv
<1>1. ASSUME NEW mb \in MailBoxes, CreateAccount(mb) PROVE Goal
    <2>. DEFINE f == SystemFolder[mb]  N == {mb, f}
    <2>1. N \in SUBSET Users /\ N \cap Rows = {} /\ mb # f /\ mb # Root /\ f # Root
        BY <1>1 DEF CreateAccount, Inv, IdsUsed, Rows, Users
    <2>2. parent' = [parent EXCEPT ![mb] = Root, ![f] = mb]
        BY <1>1 DEF CreateAccount
    <2>3. Root \in Rows
        BY <1>t DEF TypeOK, Rows, Containers, Specials
    <2>4. parent'[mb] = Root /\ parent'[f] = mb
        BY <1>t, <2>1, <2>2 DEF TypeOK, Containers
    <2>5. mb # None /\ Root # None
        BY DEF Specials, Containers, Users
    <2>6. \A x \in Containers \ N : parent'[x] = parent[x]
        BY <1>t, <2>2 DEF TypeOK
    <2>7. \A x \in N : parent'[x] \in Rows \cup N \cup {Uncommitted} /\ parent'[x] # None
        BY <2>3, <2>4, <2>5
    <2>. QED BY <2>1, <2>6, <2>7, AddsRowsIntro
<1>2. ASSUME NEW mb \in MailBoxes, DeleteAccount(mb) PROVE Goal
    <2>1. Live(mb) /\ MoveL(mb, ToBeDeleted) /\ mb \in Users
        BY <1>2 DEF DeleteAccount, Users
    <2>. QED BY <2>1, MoveLMovesRow
<1>3. ASSUME NEW m \in Messages, NEW f \in Folders, NEW u \in BOOLEAN, CreateMessage(m, f, u)
      PROVE  Goal
    <2>1. CASE Encrypted
        <3>1. m \in Users /\ {m} \cap Rows = {}
            BY <1>3 DEF CreateMessage, Inv, IdsUsed, Rows, Users
        <3>2. parent' = [parent EXCEPT ![m] = Uncommitted]
            BY <1>3, <2>1 DEF CreateMessage
        <3>. QED BY <1>t, <3>1, <3>2, CreatesOneRow
    <2>2. CASE ~Encrypted
        BY <1>3, <2>2 DEF CreateMessage
    <2>. QED BY <2>1, <2>2
<1>4. ASSUME NEW m \in Messages, CommitMessage(m) PROVE Goal
    <2>1. draft[m] \in Containers /\ m \in Users
        BY <1>4, <1>t DEF CommitMessage, Drafts, TypeOK, Containers, Users
    <2>2. Live(m) /\ MoveL(m, draft[m])
        BY <1>4 DEF CommitMessage
    <2>. QED BY <2>1, <2>2, MoveLMovesRow
<1>5. ASSUME NEW m \in Messages, LoseDraft(m) \/ UpdateProperties(m) PROVE Goal
    BY <1>5 DEF LoseDraft, UpdateProperties
<1>6. ASSUME NEW m \in Messages, AbandonMessage(m) PROVE Goal
    <2>1. Live(m) /\ MoveL(m, ToBeDeleted) /\ m \in Users
        BY <1>6 DEF AbandonMessage, Users
    <2>. QED BY <2>1, MoveLMovesRow
<1>7. ASSUME NEW m \in Messages, NEW ps \in SUBSET Parts, CommitBufferedMessage(m, ps)
      PROVE  Goal
    <2>. DEFINE N == {m} \cup ps
    <2>1. N \in SUBSET Users /\ N \cap Rows = {} /\ m \notin ps
        BY <1>7 DEF CommitBufferedMessage, Inv, IdsUsed, Rows, Users
    <2>2. draft[m] \in Rows
        BY <1>7, LiveIsRow DEF CommitBufferedMessage
    <2>3. parent' = [c \in Containers |-> IF c = m THEN draft[m] ELSE
                                          IF c \in ps THEN m ELSE parent[c]]
        BY <1>7 DEF CommitBufferedMessage
    <2>4. m # None /\ draft[m] # None
        BY <1>7 DEF CommitBufferedMessage, Drafts, Specials, Containers, Users
    <2>5. /\ \A x \in Containers \ N : parent'[x] = parent[x]
          /\ \A x \in N : parent'[x] \in Rows \cup N /\ parent'[x] # None
        BY <2>1, <2>2, <2>3, <2>4 DEF Containers
    <2>6. \A x \in N : parent'[x] \in Rows \cup N \cup {Uncommitted} /\ parent'[x] # None
        BY <2>5
    <2>. HIDE DEF N
    <2>. QED BY <2>1, <2>5, <2>6, AddsRowsIntro
<1>8. ASSUME NEW c \in Folders \cup Parts, NEW p \in Users,
             CreateAndCommit(c, p) \/ CreateAndCommitFails(c, p)
      PROVE  Goal
    <2>1. c \in Users /\ {c} \cap Rows = {}
        BY <1>8 DEF CreateAndCommit, CreateAndCommitFails, Inv, IdsUsed, Rows, Users
    <2>2. p \in Rows
        BY <1>8, LiveIsRow DEF CreateAndCommit, CreateAndCommitFails
    <2>3. PICK to \in {p, Uncommitted} : parent' = [parent EXCEPT ![c] = to]
        BY <1>8 DEF CreateAndCommit, CreateAndCommitFails
    <2>. QED BY <1>t, <2>1, <2>2, <2>3, CreatesOneRow
<1>9. ASSUME NEW c \in Folders \cup Messages \cup Parts, DeleteContainer(c) PROVE Goal
    <2>1. Live(c) /\ MoveL(c, ToBeDeleted) /\ c \in Users
        BY <1>9 DEF DeleteContainer, Users
    <2>. QED BY <2>1, MoveLMovesRow
<1>10. ASSUME NEW c \in Folders \cup Messages, NEW to \in MailBoxes \cup Folders,
              MoveContainer(c, to)
       PROVE  Goal
    <2>1. Live(c) /\ MoveL(c, to) /\ c \in Users /\ to \in Containers
        BY <1>10 DEF MoveContainer, Users, Containers
    <2>. QED BY <2>1, MoveLMovesRow
<1>11. ASSUME NEW m \in Messages, NEW n \in Messages, NEW f \in Folders,
              NEW g \in [ChildrenOf(m) -> Parts],
              CopyMessage(m, f, n, g) \/ CopyMessageFails(m, f, n, g)
       PROVE  Goal
    <2>1. PICK to \in {f, Uncommitted} : Copied(m, n, g, to)
        BY <1>11 DEF CopyMessage, CopyMessageFails
    <2>. DEFINE copies == {g[p] : p \in DOMAIN g}
                N == {n} \cup copies
    <2>2. copies \subseteq Parts
        OBVIOUS
    <2>3. N \in SUBSET Users /\ N \cap Rows = {} /\ n \notin copies
        BY <2>1, <2>2 DEF Copied, Inv, IdsUsed, Rows, Users
    <2>4. parent' = [c \in Containers |-> IF c = n THEN to ELSE
                                          IF c \in copies THEN n ELSE parent[c]]
        BY <2>1 DEF Copied
    <2>5. to \in Rows \cup {Uncommitted} /\ to # None /\ n # None
        <3>1. f \in Rows
            BY <1>11, LiveIsRow DEF CopyMessage, CopyMessageFails, Copyable
        <3>. QED BY <3>1 DEF Specials, Containers, Users
    <2>6. /\ \A x \in Containers \ N : parent'[x] = parent[x]
          /\ \A x \in N : parent'[x] \in Rows \cup N \cup {Uncommitted} /\ parent'[x] # None
        BY <2>3, <2>4, <2>5 DEF Containers
    <2>. QED BY <2>3, <2>6 DEF AddsRows
<1>12. ASSUME NEW c \in WithContent, OpenContent(c) \/ CloseContent(c) PROVE Goal
    BY <1>12 DEF OpenContent, CloseContent, rows
<1>13. ASSUME NEW c \in Users, DeleteFails(c) PROVE Goal
    BY <1>13 DEF DeleteFails, rows
<1>14. ASSUME NEW c \in Users, DeleteIndividualContainer(c) PROVE Goal
    <2>1. parent[c] # None /\ ChildrenOf(c) = {} /\ c \in Rows
        BY <1>14 DEF DeleteIndividualContainer, Candidates, Rows, Containers
    <2>2. CASE parent' = [parent EXCEPT ![c] = ToRetryDelete]
        BY <2>1, <2>2 DEF MovesRow, Specials
    <2>3. CASE parent' = [parent EXCEPT ![c] = None]
        BY <1>14, <2>1, <2>3 DEF ErasesRow
    <2>. QED BY <1>14, <2>2, <2>3 DEF DeleteIndividualContainer
<1>15. ASSUME RetryDeleteDone \/ DeleteDone \/ DeleteFromSortingTable PROVE Goal
    BY <1>15 DEF RetryDeleteDone, DeleteDone, DeleteFromSortingTable, rows
<1>16. ASSUME Restart PROVE Goal
    BY <1>16 DEF Restart, MarksUncommitted
<1>17. CASE UNCHANGED vars
    BY <1>17 DEF vars, rows
<1>. QED BY <1>1, <1>2, <1>3, <1>4, <1>5, <1>6, <1>7, <1>8, <1>9, <1>10, <1>11, <1>12,
            <1>13, <1>14, <1>15, <1>16, <1>17
         DEF Next, DeleteHandler

-----------------------------------------------------------------------------
(* Ids are used once, and no row is orphaned.                                  *)

LEMMA IdsUsedStep == Inv /\ [Next]_vars => IdsUsed'
<1>. SUFFICES ASSUME Inv, [Next]_vars PROVE IdsUsed'
    OBVIOUS
<1>t. TypeOK /\ IdsUsed
    BY DEF Inv
\* A row that is moved was a row, and its id was used.
<1>m. ASSUME NEW c \in Users, NEW to, Live(c), MoveL(c, to), used' = used,
             \A m \in Messages : draft'[m] \in {draft[m], None},
             c \in Drafts => Encrypted \/ draft'[c] = None
      PROVE  IdsUsed'
    <2>1. c \in used /\ parent[c] # None
        BY <1>m, <1>t, LiveIsRow DEF IdsUsed, Rows
    <2>2. parent' = [parent EXCEPT ![c] = to]
        BY <1>m DEF MoveL
    <2>3. \A x \in Users : parent'[x] # None => x \in used'
        BY <1>m, <1>t, <2>1, <2>2 DEF IdsUsed, TypeOK, Containers
    <2>4. ASSUME NEW m \in Drafts' PROVE m \in used' /\ (Encrypted \/ parent'[m] = None)
        <3>1. m \in Drafts /\ m \in Users
            BY <1>m, <2>4 DEF Drafts, Users
        <3>2. m = c => Encrypted
            BY <1>m, <2>4, <3>1 DEF Drafts
        <3>. QED BY <1>m, <1>t, <2>2, <3>1, <3>2 DEF IdsUsed, TypeOK
    <2>. QED BY <2>3, <2>4 DEF IdsUsed
\* New rows have new ids, and draft and used say so.
<1>n. ASSUME NEW N \in SUBSET Users, used \cup N \subseteq used',
             \A x \in Users \ N : parent'[x] = parent[x] \/ parent'[x] = None,
             \A m \in Messages : draft'[m] # None =>
                 draft[m] # None /\ m \notin N
      PROVE  IdsUsed'
    <2>1. \A x \in Users : parent'[x] # None => x \in used'
        BY <1>n, <1>t DEF IdsUsed
    <2>2. ASSUME NEW m \in Drafts' PROVE m \in used' /\ (Encrypted \/ parent'[m] = None)
        <3>1. m \in Drafts /\ m \in Users /\ m \notin N
            BY <1>n, <2>2 DEF Drafts, Users
        <3>. QED BY <1>n, <1>t, <3>1 DEF IdsUsed
    <2>. QED BY <2>1, <2>2 DEF IdsUsed
<1>d. \A m \in Messages : draft[m] # None => m \in used
    BY <1>t DEF IdsUsed, Drafts
<1>1. ASSUME NEW mb \in MailBoxes, CreateAccount(mb) PROVE IdsUsed'
    <2>. DEFINE N == {mb, SystemFolder[mb]}
    <2>1. N \in SUBSET Users /\ used \cup N \subseteq used' /\ Messages \cap N = {}
        BY <1>1 DEF CreateAccount, Users
    <2>2. \A x \in Users \ N : parent'[x] = parent[x]
        BY <1>1, <1>t DEF CreateAccount, TypeOK, Containers
    <2>3. draft' = draft
        BY <1>1 DEF CreateAccount
    <2>. HIDE DEF N
    <2>. QED BY <2>1, <2>2, <2>3, <1>n
<1>2. ASSUME NEW mb \in MailBoxes, DeleteAccount(mb) PROVE IdsUsed'
    <2>1. mb \in Users /\ mb \notin Drafts
        BY DEF Users, Drafts
    <2>. QED BY <1>2, <2>1, <1>m DEF DeleteAccount
<1>3. ASSUME NEW m \in Messages, NEW f \in Folders, NEW u \in BOOLEAN, CreateMessage(m, f, u)
      PROVE  IdsUsed'
    <2>1. used' = used \cup {m} /\ m \notin used /\ m \in Users
        BY <1>3 DEF CreateMessage, Users
    <2>2. \A x \in Users : parent'[x] # parent[x] => Encrypted /\ x = m
        BY <1>3, <1>t DEF CreateMessage, TypeOK, Containers
    <2>3. Drafts' \subseteq Drafts \cup {m}
        BY <1>3, <1>t DEF CreateMessage, Drafts, TypeOK
    <2>4. \A x \in Users : parent'[x] # None => x \in used'
        BY <1>t, <2>1, <2>2 DEF IdsUsed
    <2>5. Encrypted \/ parent[m] = None
        BY <2>1, <1>t DEF IdsUsed
    <2>6. \A x \in Drafts' : x \in used' /\ (Encrypted \/ parent'[x] = None)
        BY <1>t, <2>1, <2>2, <2>3, <2>5 DEF IdsUsed, Drafts, Users
    <2>. QED BY <2>4, <2>6 DEF IdsUsed
<1>4. ASSUME NEW m \in Messages, CommitMessage(m) PROVE IdsUsed'
    <2>1. m \in Users
        BY DEF Users
    <2>. QED BY <1>4, <2>1, <1>m, <1>t DEF CommitMessage, TypeOK
<1>5. ASSUME NEW m \in Messages, LoseDraft(m) PROVE IdsUsed'
    <2>1. used' = used /\ parent' = parent /\ \A n \in Messages : draft'[n] \in {draft[n], None}
        BY <1>5, <1>t DEF LoseDraft, TypeOK
    <2>. QED BY <2>1, <1>n
<1>6. ASSUME NEW m \in Messages, UpdateProperties(m) PROVE IdsUsed'
    <2>1. used' = used /\ parent' = parent /\ draft' = draft
        BY <1>6 DEF UpdateProperties
    <2>. QED BY <2>1, <1>n
<1>7. ASSUME NEW m \in Messages, AbandonMessage(m) PROVE IdsUsed'
    <2>1. m \in Users
        BY DEF Users
    <2>. QED BY <1>7, <2>1, <1>m, <1>t DEF AbandonMessage, TypeOK
<1>8. ASSUME NEW m \in Messages, NEW ps \in SUBSET Parts, CommitBufferedMessage(m, ps)
      PROVE  IdsUsed'
    <2>. DEFINE N == {m} \cup ps
    <2>1. N \in SUBSET Users /\ ps \cap Messages = {}
        BY DEF Users
    <2>2. used \cup N \subseteq used'
        BY <1>8, <1>d DEF CommitBufferedMessage, Drafts
    <2>3. \A x \in Users \ N : parent'[x] = parent[x]
        BY <1>8 DEF CommitBufferedMessage, Containers
    <2>4. draft' = [draft EXCEPT ![m] = None]
        BY <1>8 DEF CommitBufferedMessage
    <2>5. \A x \in Messages : draft'[x] # None => draft[x] # None /\ x \notin N
        BY <1>t, <2>1, <2>4 DEF TypeOK
    <2>. HIDE DEF N
    <2>. QED BY <2>1, <2>2, <2>3, <2>5, <1>n
<1>9. ASSUME NEW c \in Folders \cup Parts, NEW p \in Users,
             CreateAndCommit(c, p) \/ CreateAndCommitFails(c, p)
      PROVE  IdsUsed'
    <2>1. {c} \in SUBSET Users /\ c \notin Messages
        BY DEF Users
    <2>2. used \cup {c} \subseteq used' /\ draft' = draft
        BY <1>9 DEF CreateAndCommit, CreateAndCommitFails
    <2>3. \A x \in Users \ {c} : parent'[x] = parent[x]
        BY <1>9, <1>t DEF CreateAndCommit, CreateAndCommitFails, TypeOK, Containers
    <2>4. \A m \in Messages : draft'[m] # None => draft[m] # None /\ m \notin {c}
        BY <2>1, <2>2
    <2>. QED BY <2>1, <2>2, <2>3, <2>4, <1>n
<1>10. ASSUME NEW c \in Folders \cup Messages \cup Parts, DeleteContainer(c) PROVE IdsUsed'
    <2>1. c \in Users /\ (c \in Drafts => Encrypted)
        BY <1>10, <1>t, LiveIsRow DEF DeleteContainer, Users, IdsUsed, Rows
    <2>. QED BY <1>10, <2>1, <1>m DEF DeleteContainer
<1>11. ASSUME NEW c \in Folders \cup Messages, NEW to \in MailBoxes \cup Folders,
              MoveContainer(c, to)
       PROVE  IdsUsed'
    <2>1. c \in Users /\ (c \in Drafts => Encrypted)
        BY <1>11, <1>t, LiveIsRow DEF MoveContainer, Users, IdsUsed, Rows
    <2>. QED BY <1>11, <2>1, <1>m DEF MoveContainer
<1>12. ASSUME NEW m \in Messages, NEW n \in Messages, NEW f \in Folders,
              NEW g \in [ChildrenOf(m) -> Parts],
              CopyMessage(m, f, n, g) \/ CopyMessageFails(m, f, n, g)
       PROVE  IdsUsed'
    <2>1. PICK to \in {f, Uncommitted} : Copied(m, n, g, to)
        BY <1>12 DEF CopyMessage, CopyMessageFails
    <2>. DEFINE N == {n} \cup {g[p] : p \in DOMAIN g}
    <2>2. N \in SUBSET Users /\ N \cap Messages = {n} /\ n \notin used
        BY <2>1 DEF Users, Copied
    <2>3. used \cup N \subseteq used'
        BY <2>1 DEF Copied
    <2>4. \A x \in Users \ N : parent'[x] = parent[x]
        BY <2>1 DEF Copied, Containers
    <2>5. draft' = draft
        BY <1>12 DEF CopyMessage, CopyMessageFails
    <2>6. \A x \in Messages : draft'[x] # None => draft[x] # None /\ x \notin N
        BY <1>d, <2>2, <2>5
    <2>. HIDE DEF N
    <2>. QED BY <2>2, <2>3, <2>4, <2>6, <1>n
<1>13. ASSUME NEW c \in WithContent, OpenContent(c) \/ CloseContent(c) PROVE IdsUsed'
    <2>1. used' = used /\ parent' = parent /\ draft' = draft
        BY <1>13 DEF OpenContent, CloseContent, rows
    <2>. QED BY <2>1, <1>n
<1>14. ASSUME NEW c \in Users, DeleteFails(c) PROVE IdsUsed'
    <2>1. used' = used /\ parent' = parent /\ draft' = draft
        BY <1>14 DEF DeleteFails, rows
    <2>. QED BY <2>1, <1>n
<1>15. ASSUME NEW c \in Users, DeleteIndividualContainer(c) PROVE IdsUsed'
    <2>1. used' = used /\ draft' = draft /\ c \in used /\ parent[c] # None
        BY <1>15, <1>t DEF DeleteIndividualContainer, Candidates, IdsUsed
    <2>2. \A x \in Users \ {c} : parent'[x] = parent[x]
        <3>1. PICK to \in {ToRetryDelete, None} : parent' = [parent EXCEPT ![c] = to]
            BY <1>15 DEF DeleteIndividualContainer
        <3>. QED BY <3>1, <1>t DEF TypeOK, Containers
    <2>3. \A m \in Drafts : m = c => Encrypted
        BY <1>t, <2>1 DEF IdsUsed
    <2>4. \A x \in Users : parent'[x] # None => x \in used'
        BY <1>t, <2>1, <2>2 DEF IdsUsed
    <2>5. \A m \in Drafts' : m \in used' /\ (Encrypted \/ parent'[m] = None)
        BY <1>t, <2>1, <2>2, <2>3 DEF IdsUsed, Drafts, Users
    <2>. QED BY <2>4, <2>5 DEF IdsUsed
<1>16. ASSUME RetryDeleteDone \/ DeleteDone \/ DeleteFromSortingTable PROVE IdsUsed'
    <2>1. used' = used /\ parent' = parent /\ draft' = draft
        BY <1>16 DEF RetryDeleteDone, DeleteDone, DeleteFromSortingTable, rows
    <2>. QED BY <2>1, <1>n
<1>17. ASSUME Restart PROVE IdsUsed'
    <2>1. used' = used /\ \A x \in Users : parent'[x] # None <=> parent[x] # None
        BY <1>17 DEF Restart, Containers, Specials
    <2>2. Drafts' \subseteq Drafts
        BY <1>17 DEF Restart, Drafts
    <2>. QED BY <2>1, <2>2, <1>t DEF IdsUsed, Drafts, Users
<1>18. CASE UNCHANGED vars
    BY <1>18, <1>t DEF vars, rows, IdsUsed, Drafts
<1>. QED BY <1>1, <1>2, <1>3, <1>4, <1>5, <1>6, <1>7, <1>8, <1>9, <1>10, <1>11, <1>12,
            <1>13, <1>14, <1>15, <1>16, <1>17, <1>18
         DEF Next, DeleteHandler

LEMMA ParentsExistStep == Inv /\ [Next]_vars => ParentsExist'
<1>. SUFFICES ASSUME Inv, [Next]_vars, NEW c \in Users
              PROVE  parent'[c] \in {None, Uncommitted, ToBeDeleted, ToRetryDelete} \cup Rows'
    BY DEF ParentsExist
<1>t. /\ parent \in [Containers -> Containers \cup Specials] /\ parent[Root] = Invalid
      /\ parent[c] \in {None, Uncommitted, ToBeDeleted, ToRetryDelete} \cup Rows
      /\ c \in Containers
    BY DEF Inv, TypeOK, ParentsExist, Containers
<1>1. CASE MovesRow
    <2>1. PICK x \in Users, to \in Containers \cup Specials :
              /\ parent' = [parent EXCEPT ![x] = to]
              /\ to \in Rows \cup {Uncommitted, ToBeDeleted, ToRetryDelete}
        BY <1>1 DEF MovesRow
    <2>2. Rows \subseteq Rows'
        BY <1>t, <2>1 DEF Rows, Containers, Specials
    <2>. QED BY <1>t, <2>1, <2>2
<1>2. CASE ErasesRow
    <2>1. PICK x \in Users : ChildrenOf(x) = {} /\ parent' = [parent EXCEPT ![x] = None]
        BY <1>2 DEF ErasesRow
    <2>2. parent[c] # x /\ Rows \ {x} \subseteq Rows'
        BY <1>t, <2>1 DEF ChildrenOf, Rows
    <2>. QED BY <1>t, <2>1, <2>2
<1>3. CASE AddsRows
    <2>1. PICK N \in SUBSET Users :
              /\ \A x \in Containers \ N : parent'[x] = parent[x]
              /\ \A x \in N : parent'[x] \in Rows \cup N \cup {Uncommitted} /\ parent'[x] # None
        BY <1>3 DEF AddsRows
    <2>2. Rows \cup N \subseteq Rows'
        BY <2>1 DEF Rows, Containers
    <2>. QED BY <1>t, <2>1, <2>2
<1>4. CASE MarksUncommitted
    <2>1. Rows \subseteq Rows'
        BY <1>4 DEF MarksUncommitted, Rows, Specials
    <2>. QED BY <1>4, <1>t, <2>1 DEF MarksUncommitted
<1>5. CASE UNCHANGED parent
    BY <1>5, <1>t DEF Rows
<1>. QED BY <1>1, <1>2, <1>3, <1>4, <1>5, StepKinds

LEMMA Inductive == Spec => []Inv
<1>1. Init => Inv
    <2>1. ASSUME Init PROVE ParentsExist /\ IdsUsed
        BY <2>1 DEF Init, ParentsExist, IdsUsed, Drafts, Containers, Users
    <2>. QED BY <2>1, TypeInit DEF Inv
<1>2. Inv /\ [Next]_vars => Inv'
    BY TypeStep, ParentsExistStep, IdsUsedStep DEF Inv
<1>. QED BY <1>1, <1>2, PTL DEF Spec

\* In every reachable state the parent a row names has a row.
THEOREM NoOrphans == Spec => []ParentsExist
<1>1. Inv => ParentsExist
    BY DEF Inv
<1>. QED BY <1>1, Inductive, PTL

-----------------------------------------------------------------------------
(* What was deleted stays deleted.                                             *)

LEMMA StepResurrectsNothing ==
    ASSUME Inv, [Next]_vars, NEW c \in Rows, Live(c)'
    PROVE  Live(c)
<1>t. parent \in [Containers -> Containers \cup Specials] /\ parent[Root] = Invalid /\ ParentsExist
    BY DEF Inv, TypeOK
<1>1. CASE MovesRow
    BY <1>1, <1>t, MoveResurrectsNothing DEF MovesRow
<1>2. CASE ErasesRow
    BY <1>2, <1>t, MoveResurrectsNothing DEF ErasesRow
<1>3. CASE AddsRows
    BY <1>3, <1>t, CreationResurrectsNothing DEF AddsRows
<1>4. CASE MarksUncommitted
    <2>1. PICK S \in SUBSET Containers : c \in S /\ Closed(S, Ends)'
        BY LiveByClosedPrime
    <2>2. \A y \in S : parent'[y] # None /\ parent'[y] \in S \cup Ends
        BY <2>1 DEF Closed, IsRow
    <2>3. \A y \in S : parent'[y] = IF parent[y] = Uncommitted THEN ToBeDeleted ELSE parent[y]
        BY <1>4 DEF MarksUncommitted
    <2>4. ToBeDeleted \notin S \cup Ends
        BY DEF Ends, Specials
    <2>5. \A y \in S : parent[y] # None /\ parent[y] \in S \cup Ends
        BY <2>2, <2>3, <2>4
    <2>6. Closed(S, Ends)
        BY <2>5 DEF Closed, IsRow
    <2>. QED BY <2>1, <2>6, LiveByClosed
<1>5. CASE UNCHANGED parent
    <2>1. PICK S \in SUBSET Containers : c \in S /\ Closed(S, Ends)'
        BY LiveByClosedPrime
    <2>2. Closed(S, Ends)
        BY <2>1, <1>5 DEF Closed, IsRow
    <2>. QED BY <2>1, <2>2, LiveByClosed
<1>. QED BY <1>1, <1>2, <1>3, <1>4, <1>5, StepKinds

\* No sequence of requests, restarts and background deletes brings a deleted
\* container back.
THEOREM DeletedStaysDeleted == Spec => NoResurrection
<1>1. Inv /\ [Next]_vars => [\A c \in used : parent[c] # None /\ ~Live(c) => ~Live(c)']_vars
    <2>. SUFFICES ASSUME Inv, [Next]_vars, NEW c \in used, parent[c] # None, Live(c)'
                  PROVE  Live(c)
        OBVIOUS
    <2>1. c \in Rows
        BY DEF Inv, TypeOK, Rows, Containers
    <2>. QED BY <2>1, StepResurrectsNothing
<1>. QED BY <1>1, Inductive, PTL DEF Spec, NoResurrection

-----------------------------------------------------------------------------
(* The stack of the delete handler.                                            *)

LEMMA AncestorsDead ==
    ASSUME Inv, NEW c \in Users, c \in Rows, ~Live(c), NEW x \in Ancestors(c)
    PROVE  x \in Rows /\ ~Live(x)
<1>. DEFINE T == {y \in Users : y \in Rows /\ ~Live(y)}
<1>1. ASSUME NEW y \in T, parent[y] \in Users PROVE parent[y] \in T
    <2>1. parent[y] \in Rows
        BY <1>1 DEF Inv, ParentsExist, Specials, Containers, Users
    <2>2. ~Live(parent[y])
        BY <1>1, LiveChild DEF Rows
    <2>. QED BY <1>1, <2>1, <2>2
<1>2. c \in T /\ T \in SUBSET Users
    OBVIOUS
<1>3. x \in T
    BY <1>1, <1>2 DEF Ancestors
<1>. QED BY <1>3

LEMMA LiveAncestors ==
    ASSUME TypeOK, NEW c \in Users, Live(c), NEW x \in Ancestors(c) PROVE Live(x)
<1>1. PICK S \in SUBSET Containers : c \in S /\ Closed(S, Ends)
    BY LiveByClosed
<1>2. \A y \in S \cap Users : parent[y] \in Users => parent[y] \in S \cap Users
    <2>1. Ends \cap Users = {}
        BY DEF Ends, Specials, Containers, Users
    <2>. QED BY <1>1, <2>1 DEF Closed
<1>3. x \in S \cap Users
    BY <1>1, <1>2 DEF Ancestors
<1>. QED BY <1>1, <1>3, LiveByClosed

\* Whether the handler starts from the root of its search or from its stack, it
\* comes to a row that is deleted.
LEMMA CandidateDead ==
    ASSUME Inv, StackDead, NEW c \in Candidates
    PROVE  c \in Users /\ c \in Rows /\ ~Live(c)
<1>1. c \in Users /\ c \in Rows
    BY DEF Candidates, Rows, Containers, Users
<1>2. CASE stack = {}
    <2>1. PICK x \in Ancestors(c) : parent[x] \in {ToBeDeleted, ToRetryDelete}
        BY <1>2 DEF Candidates, SearchRoot
    <2>2. ~Live(x)
        <3>1. SUFFICES ASSUME Live(x) PROVE FALSE
            OBVIOUS
        <3>2. PICK S \in SUBSET Containers : x \in S /\ Closed(S, Ends)
            BY <3>1, LiveByClosed
        <3>3. parent[x] \in S \cup Ends
            BY <3>2 DEF Closed
        <3>. QED BY <2>1, <3>3 DEF Ends, Specials
    <2>. QED BY <1>1, <2>1, <2>2, LiveAncestors DEF Inv
<1>3. CASE stack # {}
    <2>1. PICK x \in stack : TRUE
        BY <1>3
    <2>2. x \in Ancestors(c) /\ ~Live(x)
        BY <1>3, <2>1 DEF Candidates, StackDead
    <2>. QED BY <1>1, <2>2, LiveAncestors DEF Inv
<1>. QED BY <1>2, <1>3

\* The steps that change the stack.
LEMMA StackKinds ==
    ASSUME [Next]_vars
    PROVE  \/ stack' = stack /\ ~ErasesRow
           \/ stack' = {}
           \/ \E c \in Users : DeleteIndividualContainer(c) \/ DeleteFails(c)
BY DEF Next, DeleteHandler, vars, dvars, rows, StartDeleteHandler, ErasesRow, CreateAccount,
       DeleteAccount, CreateMessage, CommitMessage, LoseDraft, AbandonMessage, UpdateProperties,
       CommitBufferedMessage, CreateAndCommit, CreateAndCommitFails, DeleteContainer,
       MoveContainer, CopyMessage, CopyMessageFails, OpenContent, CloseContent,
       RetryDeleteDone, DeleteFromSortingTable, DeleteDone, Restart

\* What stays on the stack, or comes there, is not erased.
LEMMA RowsKept ==
    ASSUME Inv, [Next]_vars, ~ErasesRow PROVE Rows \subseteq Rows'
<1>t. parent \in [Containers -> Containers \cup Specials] /\ None \notin Rows
    BY DEF Inv, TypeOK, Rows, Specials
<1>1. CASE MovesRow
    <2>1. PICK x \in Users, to \in Containers \cup Specials :
              parent' = [parent EXCEPT ![x] = to] /\ to # None
        BY <1>1, <1>t DEF MovesRow, Specials
    <2>. QED BY <1>t, <2>1 DEF Rows
<1>2. CASE AddsRows
    BY <1>2 DEF AddsRows, Rows
<1>3. CASE MarksUncommitted
    BY <1>3 DEF MarksUncommitted, Rows, Specials
<1>4. CASE UNCHANGED parent
    BY <1>4 DEF Rows
<1>. QED BY <1>1, <1>2, <1>3, <1>4, StepKinds

LEMMA StackDeadStep == Inv /\ StackDead /\ [Next]_vars => StackDead'
<1>. SUFFICES ASSUME Inv, StackDead, [Next]_vars, NEW x \in stack'
              PROVE  x \in Rows' /\ ~Live(x)'
    BY DEF StackDead
\* It suffices that it was dead and is not the row that is erased.
<1>1. ASSUME x \in Rows, ~Live(x), x \in Rows' PROVE x \in Rows' /\ ~Live(x)'
    BY <1>1, StepResurrectsNothing
<1>2. CASE stack' = stack /\ ~ErasesRow
    BY <1>1, <1>2, RowsKept DEF StackDead
<1>3. CASE stack' = {}
    BY <1>3
<1>4. ASSUME NEW c \in Users, DeleteIndividualContainer(c) PROVE x \in Rows' /\ ~Live(x)'
    <2>1. c \in Candidates /\ x \in Ancestors(c) /\ x # c
        BY <1>4 DEF DeleteIndividualContainer
    <2>2. x \in Rows /\ ~Live(x)
        BY <2>1, CandidateDead, AncestorsDead
    <2>3. PICK to \in {ToRetryDelete, None} : parent' = [parent EXCEPT ![c] = to]
        BY <1>4 DEF DeleteIndividualContainer
    <2>4. x \in Rows'
        BY <2>1, <2>2, <2>3 DEF Rows, Inv, TypeOK
    <2>. QED BY <1>1, <2>2, <2>4
<1>5. ASSUME NEW c \in Users, DeleteFails(c) PROVE x \in Rows' /\ ~Live(x)'
    <2>1. c \in Candidates /\ x \in Ancestors(c) /\ parent' = parent
        BY <1>5 DEF DeleteFails, rows
    <2>2. x \in Rows /\ ~Live(x)
        BY <2>1, CandidateDead, AncestorsDead
    <2>. QED BY <1>1, <2>1, <2>2 DEF Rows
<1>. QED BY <1>2, <1>3, <1>4, <1>5, StackKinds

\* Whatever failed, was deleted, copied or restarted since it was filled, the stack
\* of the delete handler holds deleted containers that still have their row.
THEOREM StackIsDead == Spec => []StackDead
<1>1. Init => StackDead
    BY DEF Init, StackDead
<1>. QED BY <1>1, StackDeadStep, Inductive, PTL DEF Spec

-----------------------------------------------------------------------------
(* The counts of children.                                                     *)

\* What a container records about its children is so.
ExactAt(c) ==
    /\ childrenCount[c] = Cardinality(ChildrenOf(c))
    /\ childCounts[c].messages = Cardinality(ChildrenOf(c) \cap Messages)
    /\ childCounts[c].unread = Cardinality(ChildrenOf(c) \cap Messages \cap unread)

\* It is where requests can reach it, and what has no row records nothing.
CountsInv ==
    /\ \A c \in Containers : Live(c) => ExactAt(c)
    /\ \A c \in Containers \ Rows : childrenCount[c] = 0 /\ childCounts[c] = Zero

\* Sets of children are finite, before a step and after it.
LEMMA ChildrenFinite ==
    ASSUME NEW x
    PROVE  IsFiniteSet(ChildrenOf(x)) /\ IsFiniteSet(ChildrenOf(x)')
BY FiniteIds, FS_Subset DEF ChildrenOf

\* A container whose children stay, with their flags and what is recorded of them.
LEMMA SameChildren ==
    ASSUME NEW x, ExactAt(x), ChildrenOf(x)' = ChildrenOf(x),
           childrenCount'[x] = childrenCount[x], childCounts'[x] = childCounts[x],
           \A y \in ChildrenOf(x) : y \in unread' <=> y \in unread
    PROVE  ExactAt(x)'
<1>1. ChildrenOf(x) \cap Messages \cap unread' = ChildrenOf(x) \cap Messages \cap unread
    OBVIOUS
<1>. QED BY <1>1 DEF ExactAt

\* One, if c is in S; how many of K are messages, and messages in U.
Has(c, S) == IF c \in S THEN 1 ELSE 0
MessagesOf(K) == Cardinality(K \cap Messages)
UnreadOf(K, U) == Cardinality(K \cap Messages \cap U)

\* One element more.
LEMMA OneMore ==
    ASSUME NEW K, IsFiniteSet(K), NEW S, NEW c, c \notin K, NEW L, L = K \cup {c}
    PROVE  Cardinality(L \cap S) = Cardinality(K \cap S) + Has(c, S)
<1>. DEFINE M == K \cap S
<1>1. IsFiniteSet(M) /\ c \notin M
    BY FS_Subset
<1>2. CASE c \in S
    <2>1. L \cap S = M \cup {c}
        BY <1>2
    <2>. HIDE DEF M
    <2>2. Cardinality(M \cup {c}) = Cardinality(M) + 1
        BY <1>1, FS_AddElement
    <2>3. Cardinality(L \cap S) = Cardinality(M) + 1
        BY <2>1, <2>2, Zenon
    <2>4. Has(c, S) = 1
        BY <1>2 DEF Has
    <2>. QED BY <2>3, <2>4, Zenon DEF M
<1>3. CASE c \notin S
    <2>1. L \cap S = M
        BY <1>3
    <2>. HIDE DEF M
    <2>2. Cardinality(M) \in Nat
        BY <1>1, FS_CardinalityType
    <2>3. Has(c, S) = 0 /\ Cardinality(M) + 0 = Cardinality(M)
        BY <1>3, <2>2 DEF Has
    <2>. QED BY <2>1, <2>3, Zenon DEF M
<1>. QED BY <1>2, <1>3

\* The sizes of a set of children, of its messages and of its unread messages, with one more.
LEMMA SizesWithOneMore ==
    ASSUME NEW K, IsFiniteSet(K), NEW c, c \notin K, NEW U, NEW L, L = K \cup {c}
    PROVE  /\ Cardinality(L) = Cardinality(K) + 1
           /\ MessagesOf(L) = MessagesOf(K) + Has(c, Messages)
           /\ UnreadOf(L, U) = UnreadOf(K, U) + Has(c, Messages \cap U)
<1>2. Cardinality(L) = Cardinality(K) + 1
    BY FS_AddElement
<1>3. MessagesOf(L) = MessagesOf(K) + Has(c, Messages)
    BY OneMore, Zenon DEF MessagesOf
<1>4. UnreadOf(L, U) = UnreadOf(K, U) + Has(c, Messages \cap U)
    <2>1. PICK S : S = Messages \cap U
        OBVIOUS
    <2>2. Cardinality(L \cap S) = Cardinality(K \cap S) + Has(c, S)
        BY OneMore, Zenon
    <2>3. L \cap S = L \cap Messages \cap U /\ K \cap S = K \cap Messages \cap U
        BY <2>1
    <2>. QED BY <2>1, <2>2, <2>3, Zenon DEF UnreadOf
<1>. QED BY <1>2, <1>3, <1>4

\* The same, for all sets at once.
LEMMA SizesGrow ==
    \A K, c, U, L : IsFiniteSet(K) /\ c \notin K /\ L = K \cup {c} =>
        /\ Cardinality(L) = Cardinality(K) + 1
        /\ MessagesOf(L) = MessagesOf(K) + Has(c, Messages)
        /\ UnreadOf(L, U) = UnreadOf(K, U) + Has(c, Messages \cap U)
<1>. TAKE K, c, U, L
<1>. HAVE IsFiniteSet(K) /\ c \notin K /\ L = K \cup {c}
<1>1. Cardinality(L) = Cardinality(K) + 1
    BY SizesWithOneMore
<1>2. MessagesOf(L) = MessagesOf(K) + Has(c, Messages)
    BY SizesWithOneMore
<1>3. UnreadOf(L, U) = UnreadOf(K, U) + Has(c, Messages \cap U)
    BY SizesWithOneMore
<1>. QED BY <1>1, <1>2, <1>3

\* The sizes are numbers.
LEMMA SizesType ==
    \A K, U : IsFiniteSet(K) =>
        Cardinality(K) \in Nat /\ MessagesOf(K) \in Nat /\ UnreadOf(K, U) \in Nat
<1>. TAKE K, U
<1>. HAVE IsFiniteSet(K)
<1>1. IsFiniteSet(K \cap Messages) /\ IsFiniteSet(K \cap Messages \cap U)
    BY FS_Subset
<1>. QED BY <1>1, FS_CardinalityType DEF MessagesOf, UnreadOf

\* A container that gets one more child, whose flags may be new.
LEMMA OneMoreChild ==
    ASSUME TypeOK, NEW x \in Containers, ExactAt(x), NEW c \in Users, c \notin ChildrenOf(x),
           ChildrenOf(x)' = ChildrenOf(x) \cup {c},
           childrenCount'[x] = childrenCount[x] + 1,
           childCounts'[x] = Plus(childCounts[x], OwnCounts(c)'),
           \A y \in ChildrenOf(x) : y \in unread' <=> y \in unread,
           unread' \subseteq Messages
    PROVE  ExactAt(x)'
<1>1. PICK K, L, U : K = ChildrenOf(x) /\ L = ChildrenOf(x)' /\ U = unread'
    OBVIOUS
<1>2. IsFiniteSet(K) /\ c \notin K /\ L = K \cup {c}
    BY <1>1, ChildrenFinite
<1>3. /\ Cardinality(L) = Cardinality(K) + 1
      /\ MessagesOf(L) = MessagesOf(K) + Has(c, Messages)
      /\ UnreadOf(L, U) = UnreadOf(K, U) + Has(c, Messages \cap U)
    <2>1. Cardinality(L) = Cardinality(K) + 1
        BY <1>2, SizesGrow
    <2>2. MessagesOf(L) = MessagesOf(K) + Has(c, Messages)
        BY <1>2, SizesGrow
    <2>3. UnreadOf(L, U) = UnreadOf(K, U) + Has(c, Messages \cap U)
        BY <1>2, SizesGrow
    <2>. QED BY <2>1, <2>2, <2>3
<1>4. K \cap Messages \cap U = K \cap Messages \cap unread
    BY <1>1
<1>5. /\ childCounts'[x].messages = childCounts[x].messages + Has(c, Messages)
      /\ childCounts'[x].unread = childCounts[x].unread + Has(c, Messages \cap U)
    BY <1>1 DEF Plus, OwnCounts, Has
<1>6. /\ childrenCount[x] = Cardinality(K) /\ childCounts[x].messages = MessagesOf(K)
      /\ childCounts[x].unread = UnreadOf(K, U)
    BY <1>1, <1>4, Zenon DEF ExactAt, MessagesOf, UnreadOf
<1>7. /\ childrenCount'[x] = Cardinality(L) /\ childCounts'[x].messages = MessagesOf(L)
      /\ childCounts'[x].unread = UnreadOf(L, U)
    BY <1>3, <1>5, <1>6, Zenon
<1>. QED BY <1>1, <1>7, Zenon DEF ExactAt, MessagesOf, UnreadOf

\* A container that loses one.
LEMMA OneChildLess ==
    ASSUME TypeOK, NEW x \in Containers, ExactAt(x), NEW c \in ChildrenOf(x),
           ChildrenOf(x)' = ChildrenOf(x) \ {c},
           childrenCount'[x] = childrenCount[x] - 1,
           childCounts'[x] = Minus(childCounts[x], OwnCounts(c)),
           unread' = unread
    PROVE  ExactAt(x)'
<1>1. PICK K, L, U : K = ChildrenOf(x)' /\ L = ChildrenOf(x) /\ U = unread
    OBVIOUS
<1>2. IsFiniteSet(K) /\ c \notin K /\ L = K \cup {c}
    BY <1>1, ChildrenFinite
<1>3. /\ Cardinality(L) = Cardinality(K) + 1
      /\ MessagesOf(L) = MessagesOf(K) + Has(c, Messages)
      /\ UnreadOf(L, U) = UnreadOf(K, U) + Has(c, Messages \cap U)
    <2>1. Cardinality(L) = Cardinality(K) + 1
        BY <1>2, SizesGrow
    <2>2. MessagesOf(L) = MessagesOf(K) + Has(c, Messages)
        BY <1>2, SizesGrow
    <2>3. UnreadOf(L, U) = UnreadOf(K, U) + Has(c, Messages \cap U)
        BY <1>2, SizesGrow
    <2>. QED BY <2>1, <2>2, <2>3
<1>n. Cardinality(K) \in Nat /\ MessagesOf(K) \in Nat /\ UnreadOf(K, U) \in Nat
    BY <1>2, SizesType, Zenon
<1>4. c \in unread <=> c \in Messages \cap U
    BY <1>1 DEF TypeOK
<1>5. /\ childCounts'[x].messages = childCounts[x].messages - Has(c, Messages)
      /\ childCounts'[x].unread = childCounts[x].unread - Has(c, Messages \cap U)
    BY <1>4 DEF Minus, OwnCounts, Has
<1>6. /\ childrenCount[x] = Cardinality(L) /\ childCounts[x].messages = MessagesOf(L)
      /\ childCounts[x].unread = UnreadOf(L, U)
    BY <1>1, Zenon DEF ExactAt, MessagesOf, UnreadOf
<1>7. /\ childrenCount'[x] = Cardinality(K) /\ childCounts'[x].messages = MessagesOf(K)
      /\ childCounts'[x].unread = UnreadOf(K, U)
    BY <1>n, <1>3, <1>5, <1>6 DEF Has
<1>. QED BY <1>1, <1>7, Zenon DEF ExactAt, MessagesOf, UnreadOf

\* A new container records its parts, if it has any.
LEMMA NewContainer ==
    ASSUME NEW x, ChildrenOf(x)' \subseteq Parts \cup Folders,
           childrenCount'[x] = Cardinality(ChildrenOf(x)'), childCounts'[x] = Zero
    PROVE  ExactAt(x)'
<1>k. PICK K : K = ChildrenOf(x)'
    OBVIOUS
<1>1. K \cap Messages = {} /\ K \cap Messages \cap unread' = {}
    BY <1>k
<1>2. Cardinality({}) = 0
    BY FS_EmptySet
<1>3. childCounts'[x].messages = 0 /\ childCounts'[x].unread = 0
    BY DEF Zero
<1>. QED BY <1>k, <1>1, <1>2, <1>3 DEF ExactAt

\* What has no row has no children.
LEMMA NoRowNoChildren ==
    ASSUME Inv, NEW x \in Users, x \notin Rows
    PROVE  ChildrenOf(x) = {}
<1>. SUFFICES ASSUME NEW y \in ChildrenOf(x) PROVE FALSE
    OBVIOUS
<1>1. y \in Users /\ parent[y] = x
    BY DEF ChildrenOf
<1>2. parent[y] \in {None, Uncommitted, ToBeDeleted, ToRetryDelete} \cup Rows
    BY <1>1 DEF Inv, ParentsExist
<1>. QED BY <1>1, <1>2 DEF Specials, Containers

\* A move keeps the counts.
LEMMA MoveCounts ==
    ASSUME Inv, CountsInv, [Next]_vars, NEW c \in Users, Live(c),
           NEW to \in Containers \cup {ToBeDeleted}, MoveL(c, to)
    PROVE  CountsInv'
<1>. DEFINE from == parent[c]
<1>t. /\ parent \in [Containers -> Containers \cup Specials] /\ c \in Containers
      /\ childrenCount \in [Containers -> Int] /\ childCounts \in [Containers -> Counts]
      /\ unread \subseteq Messages
    BY DEF Inv, TypeOK, Containers
<1>1. /\ parent' = [parent EXCEPT ![c] = to] /\ unread' = unread
      /\ to \in Containers => to \in Rows
    BY DEF MoveL, IsRow, Rows
<1>2. /\ \A x \in Containers : childrenCount'[x] =
             childrenCount[x] + (IF x = to THEN 1 ELSE 0) - (IF x = from THEN 1 ELSE 0)
      /\ \A x \in Containers : childCounts'[x] =
             Minus(Plus(childCounts[x], IF x = to THEN OwnCounts(c) ELSE Zero),
                   IF x = from THEN OwnCounts(c) ELSE Zero)
    BY DEF MoveL, Recount
<1>3. \A x : ChildrenOf(x)' = IF x = to THEN ChildrenOf(x) \cup {c} ELSE ChildrenOf(x) \ {c}
    BY <1>1, <1>t DEF ChildrenOf, Containers
<1>4. \A x \in Containers : c \in ChildrenOf(x) <=> x = from
    BY DEF ChildrenOf
<1>5. \A a \in Counts : /\ Plus(a, Zero) = a /\ Minus(a, Zero) = a
                        /\ Minus(Plus(a, OwnCounts(c)), OwnCounts(c)) = a
    BY DEF Counts, Plus, Minus, Zero, OwnCounts
<1>6. ASSUME NEW x \in Containers, Live(x)' PROVE ExactAt(x)'
    <2>1. x \in Rows
        <3>1. x \in Rows'
            BY <1>6, LiveByClosedPrime DEF Closed, IsRow, Rows
        <3>. QED BY <1>1, <1>t, <3>1, LiveIsRow DEF Rows
    <2>2. ExactAt(x)
        BY <1>6, <2>1, StepResurrectsNothing DEF CountsInv
    <2>3. /\ childCounts[x] \in Counts /\ childrenCount[x] \in Int
        BY <1>t
    <2>4. CASE x = to /\ x # from
        <3>1. /\ c \notin ChildrenOf(x) /\ ChildrenOf(x)' = ChildrenOf(x) \cup {c}
              /\ childrenCount'[x] = childrenCount[x] + 1
            BY <1>2, <1>3, <1>4, <2>3, <2>4
        <3>2. childCounts'[x] = Minus(Plus(childCounts[x], OwnCounts(c)), Zero)
            BY <1>2, <2>4
        <3>3. Plus(childCounts[x], OwnCounts(c)) \in Counts
            BY <2>3, OwnCountsType, CountsClosed
        <3>4. childCounts'[x] = Plus(childCounts[x], OwnCounts(c)')
            BY <1>1, <1>5, <3>2, <3>3 DEF OwnCounts
        <3>. QED BY <1>1, <1>t, <2>2, <3>1, <3>4, OneMoreChild DEF Inv
    <2>5. CASE x # to /\ x = from
        <3>1. /\ c \in ChildrenOf(x) /\ ChildrenOf(x)' = ChildrenOf(x) \ {c}
              /\ childrenCount'[x] = childrenCount[x] - 1
            BY <1>2, <1>3, <1>4, <2>3, <2>5
        <3>2. childCounts'[x] = Minus(childCounts[x], OwnCounts(c))
            BY <1>2, <1>5, <2>3, <2>5
        <3>. QED BY <1>1, <2>2, <3>1, <3>2, OneChildLess DEF Inv
    <2>6. CASE (x = to) = (x = from)
        <3>1. ChildrenOf(x)' = ChildrenOf(x)
            <4>1. CASE x = to
                <5>1. c \in ChildrenOf(x) /\ ChildrenOf(x)' = ChildrenOf(x) \cup {c}
                    BY <1>3, <1>4, <2>6, <4>1
                <5>. QED BY <5>1
            <4>2. CASE x # to
                <5>1. c \notin ChildrenOf(x) /\ ChildrenOf(x)' = ChildrenOf(x) \ {c}
                    BY <1>3, <1>4, <2>6, <4>2
                <5>. QED BY <5>1
            <4>. QED BY <4>1, <4>2
        <3>2. childrenCount'[x] = childrenCount[x]
            BY <1>2, <2>3, <2>6
        <3>3. childCounts'[x] = childCounts[x]
            BY <1>2, <1>5, <2>3, <2>6, CountsClosed
        <3>. QED BY <1>1, <2>2, <3>1, <3>2, <3>3, SameChildren
    <2>. QED BY <2>4, <2>5, <2>6
<1>7. ASSUME NEW x \in Containers \ Rows' PROVE childrenCount'[x] = 0 /\ childCounts'[x] = Zero
    <2>1. x \notin Rows
        BY <1>1, <1>t, <1>7 DEF Rows, Specials, Containers
    <2>2. x # to /\ x # from
        <3>1. x # to
            BY <1>1, <2>1
        <3>2. c \in Rows /\ from \in {None, Uncommitted, ToBeDeleted, ToRetryDelete} \cup Rows
            BY LiveIsRow DEF Inv, ParentsExist
        <3>. QED BY <1>7, <2>1, <3>1, <3>2 DEF Specials
    <2>3. childrenCount[x] = 0 /\ childCounts[x] = Zero
        BY <1>7, <2>1 DEF CountsInv
    <2>4. childrenCount'[x] = 0
        BY <1>2, <1>7, <2>2, <2>3
    <2>5. childCounts'[x] = Minus(Plus(Zero, Zero), Zero)
        BY <1>2, <1>7, <2>2, <2>3
    <2>6. Minus(Plus(Zero, Zero), Zero) = Zero
        BY DEF Minus, Plus, Zero
    <2>. QED BY <2>4, <2>5, <2>6
<1>. QED BY <1>6, <1>7 DEF CountsInv

\* A new container n below p, with the new parts or folders Q below it.
LEMMA NewRows ==
    ASSUME Inv, CountsInv, [Next]_vars,
           NEW n \in Users \ Rows, NEW Q \in SUBSET (Parts \cup Folders), n \notin Q,
           Q \cap Rows = {}, NEW p \in Rows \cup {Uncommitted},
           \A x \in Containers :
               parent'[x] = IF x = n THEN p ELSE IF x \in Q THEN n ELSE parent[x],
           \A x \in Containers :
               childrenCount'[x] = IF x = p THEN childrenCount[x] + 1 ELSE
                                   IF x = n THEN Cardinality(Q) ELSE childrenCount[x],
           \A x \in Containers :
               childCounts'[x] = IF x = p THEN Plus(childCounts[x], OwnCounts(n)') ELSE
                                 IF x = n THEN Zero ELSE childCounts[x],
           unread' \subseteq Messages, \A y \in Rows : y \in unread' <=> y \in unread
    PROVE  CountsInv'
<1>t. /\ parent \in [Containers -> Containers \cup Specials] /\ parent[Root] = Invalid
      /\ Q \subseteq Users /\ Users \subseteq Containers /\ None \notin Containers
      /\ Uncommitted \notin Containers
    BY DEF Inv, TypeOK, Containers, Users, Specials
<1>1. /\ \A x \in Users \ ({n} \cup Q) : parent'[x] = parent[x]
      /\ parent'[n] = p /\ \A x \in Q : parent'[x] = n
      /\ parent[n] = None /\ \A x \in Q : parent[x] = None
    BY <1>t DEF Rows
<1>2. p # n /\ p \notin Q
    BY <1>t
<1>3. Rows' = Rows \cup {n} \cup Q
    <2>1. p # None /\ n # None
        BY <1>t DEF Rows, Specials
    <2>. QED BY <2>1, <1>t, <1>1 DEF Rows
<1>4. ASSUME NEW x \in Rows PROVE \A y \in ChildrenOf(x) : y \in unread' <=> y \in unread
    <2>1. ChildrenOf(x) \subseteq Rows
        BY <1>t DEF ChildrenOf, Rows
    <2>. QED BY <2>1
<1>5. ASSUME NEW x \in Containers, Live(x)' PROVE ExactAt(x)'
    <2>1. x \in Rows'
        BY <1>5, LiveByClosedPrime DEF Closed, IsRow, Rows
    <2>2. ASSUME x \in Rows PROVE ExactAt(x)
        BY <1>5, <2>2, StepResurrectsNothing DEF CountsInv
    <2>3. CASE x \in Rows /\ x = p
        <3>1. n \notin ChildrenOf(x) /\ ChildrenOf(x)' = ChildrenOf(x) \cup {n}
            BY <1>t, <1>1, <1>2, <2>3 DEF ChildrenOf
        <3>2. /\ childrenCount'[x] = childrenCount[x] + 1
              /\ childCounts'[x] = Plus(childCounts[x], OwnCounts(n)')
            BY <2>3
        <3>. QED BY <1>4, <2>2, <2>3, <3>1, <3>2, OneMoreChild DEF Inv
    <2>4. CASE x = n
        <3>1. ChildrenOf(x)' = Q
            <4>1. ChildrenOf(n) = {}
                BY NoRowNoChildren
            <4>. QED BY <1>t, <1>1, <1>2, <2>4, <4>1 DEF ChildrenOf
        <3>2. childrenCount'[x] = Cardinality(ChildrenOf(x)') /\ childCounts'[x] = Zero
            BY <1>2, <2>4, <3>1
        <3>3. ChildrenOf(x)' \subseteq Parts \cup Folders
            BY <3>1
        <3>. QED BY <3>2, <3>3, NewContainer
    <2>5. CASE x \in Q
        <3>1. ChildrenOf(x)' = {}
            <4>1. ChildrenOf(x) = {}
                BY <1>t, <2>5, NoRowNoChildren
            <4>. QED BY <1>t, <1>1, <1>2, <2>5, <4>1 DEF ChildrenOf
        <3>2. childrenCount[x] = 0 /\ childCounts[x] = Zero
            BY <2>5 DEF CountsInv
        <3>3. childrenCount'[x] = 0 /\ childCounts'[x] = Zero
            BY <1>2, <2>5, <3>2
        <3>4. childrenCount'[x] = Cardinality(ChildrenOf(x)')
            BY <3>1, <3>3, FS_EmptySet
        <3>5. ChildrenOf(x)' \subseteq Parts \cup Folders
            BY <3>1
        <3>. QED BY <3>3, <3>4, <3>5, NewContainer
    <2>6. CASE x \in Rows /\ x # p
        <3>1. ChildrenOf(x)' = ChildrenOf(x)
            BY <1>t, <1>1, <1>2, <2>6 DEF ChildrenOf
        <3>2. childrenCount'[x] = childrenCount[x] /\ childCounts'[x] = childCounts[x]
            BY <2>6
        <3>. QED BY <1>4, <2>2, <2>6, <3>1, <3>2, SameChildren
    <2>. QED BY <1>3, <2>1, <2>3, <2>4, <2>5, <2>6
<1>6. ASSUME NEW x \in Containers \ Rows' PROVE childrenCount'[x] = 0 /\ childCounts'[x] = Zero
    <2>1. x \in Containers /\ x \notin Rows /\ x # n /\ x # p
        BY <1>t, <1>3, <1>6
    <2>2. childrenCount[x] = 0 /\ childCounts[x] = Zero
        BY <2>1 DEF CountsInv
    <2>3. childrenCount'[x] = childrenCount[x]
        BY <2>1, Zenon
    <2>4. childCounts'[x] = childCounts[x]
        BY <2>1, Zenon
    <2>. QED BY <2>2, <2>3, <2>4
<1>. QED BY <1>5, <1>6 DEF CountsInv

\* A step that leaves rows and counts alone.
LEMMA SameCounts ==
    ASSUME Inv, CountsInv, [Next]_vars, Rows' = Rows,
           \A x \in Containers : ChildrenOf(x)' = ChildrenOf(x),
           childrenCount' = childrenCount, childCounts' = childCounts,
           \A y \in Rows : y \in unread' <=> y \in unread
    PROVE  CountsInv'
<1>1. ASSUME NEW x \in Containers, Live(x)' PROVE ExactAt(x)'
    <2>1. x \in Rows
        BY <1>1, LiveByClosedPrime DEF Closed, IsRow, Rows
    <2>2. ExactAt(x)
        BY <1>1, <2>1, StepResurrectsNothing DEF CountsInv
    <2>3. ChildrenOf(x) \subseteq Rows
        BY DEF ChildrenOf, Rows, Inv, TypeOK, Containers, Specials
    <2>. QED BY <1>1, <2>2, <2>3, SameChildren
<1>. QED BY <1>1 DEF CountsInv

\* A flag that flips takes the count of unread messages with it.
LEMMA FlipCounts ==
    ASSUME Inv, CountsInv, [Next]_vars, NEW m \in Messages, UpdateProperties(m)
    PROVE  CountsInv'
<1>t. /\ unread \subseteq Messages /\ childCounts \in [Containers -> Counts] /\ m \in Users
    BY DEF Inv, TypeOK, Users
<1>1. parent' = parent /\ childrenCount' = childrenCount /\ m \in Rows
    BY LiveIsRow DEF UpdateProperties
<1>2. Rows' = Rows /\ \A x : ChildrenOf(x)' = ChildrenOf(x)
    BY <1>1 DEF Rows, ChildrenOf
<1>3. ASSUME NEW x \in Containers, Live(x)' PROVE ExactAt(x)'
    <2>1. x \in Rows
        BY <1>2, <1>3, LiveByClosedPrime DEF Closed, IsRow, Rows
    <2>2. ExactAt(x)
        BY <1>3, <2>1, StepResurrectsNothing DEF CountsInv
    <2>3. CASE x # parent[m]
        <3>1. m \notin ChildrenOf(x) /\ childCounts'[x] = childCounts[x]
            BY <2>3 DEF ChildrenOf, UpdateProperties
        <3>2. \A y \in ChildrenOf(x) : y \in unread' <=> y \in unread
            BY <3>1 DEF UpdateProperties
        <3>. QED BY <1>1, <1>2, <2>2, <3>1, <3>2, SameChildren
    <2>4. CASE x = parent[m]
        <3>1. PICK K : K = ChildrenOf(x) \cap Messages \cap unread
            OBVIOUS
        <3>2. PICK L : L = ChildrenOf(x) \cap Messages \cap unread'
            OBVIOUS
        <3>3. IsFiniteSet(K) /\ IsFiniteSet(L) /\ m \in ChildrenOf(x)
            <4>1. IsFiniteSet(ChildrenOf(x))
                BY ChildrenFinite
            <4>. QED BY <1>t, <2>4, <3>1, <3>2, <4>1, FS_Subset DEF ChildrenOf
        <3>4. childCounts[x].unread = Cardinality(K)
            BY <2>2, <3>1 DEF ExactAt
        <3>5. childCounts'[x].messages = childCounts[x].messages
            BY <1>t, <2>4 DEF UpdateProperties, Plus, Counts
        <3>6. childCounts'[x].unread = Cardinality(L)
            <4>1. CASE m \in unread
                <5>1. L = K \ {m} /\ m \in K
                    BY <3>1, <3>2, <3>3, <4>1 DEF UpdateProperties
                <5>2. Cardinality(L) = Cardinality(K) - 1
                    BY <3>3, <5>1, FS_RemoveElement
                <5>3. childCounts'[x].unread = childCounts[x].unread - 1
                    BY <1>t, <2>4, <4>1 DEF UpdateProperties, Plus, Counts
                <5>. QED BY <3>4, <5>2, <5>3
            <4>2. CASE m \notin unread
                <5>1. L = K \cup {m} /\ m \notin K
                    BY <3>1, <3>2, <3>3, <4>2 DEF UpdateProperties
                <5>2. Cardinality(L) = Cardinality(K) + 1
                    BY <3>3, <5>1, FS_AddElement
                <5>3. childCounts'[x].unread = childCounts[x].unread + 1
                    BY <1>t, <2>4, <4>2 DEF UpdateProperties, Plus, Counts
                <5>. QED BY <3>4, <5>2, <5>3
            <4>. QED BY <4>1, <4>2
        <3>. QED BY <1>1, <1>2, <2>2, <3>2, <3>5, <3>6 DEF ExactAt
    <2>. QED BY <2>3, <2>4
<1>4. ASSUME NEW x \in Containers \ Rows' PROVE childrenCount'[x] = 0 /\ childCounts'[x] = Zero
    <2>1. parent[m] \in {None, Uncommitted, ToBeDeleted, ToRetryDelete} \cup Rows
        BY <1>t DEF Inv, ParentsExist
    <2>2. x # parent[m]
        BY <1>2, <1>4, <2>1 DEF Specials
    <2>3. childCounts'[x] = childCounts[x]
        BY <2>2 DEF UpdateProperties
    <2>. QED BY <1>1, <1>2, <1>4, <2>3 DEF CountsInv
<1>. QED BY <1>3, <1>4 DEF CountsInv

\* The delete handler erases rows that are dead, as are their parents: the counts of
\* those are not kept.
LEMMA EraseCounts ==
    ASSUME Inv, StackDead, CountsInv, [Next]_vars, NEW c \in Users, DeleteIndividualContainer(c)
    PROVE  CountsInv'
<1>t. /\ parent \in [Containers -> Containers \cup Specials] /\ c \in Containers
      /\ childrenCount \in [Containers -> Int] /\ childCounts \in [Containers -> Counts]
    BY DEF Inv, TypeOK, Containers
<1>1. c \in Rows /\ ~Live(c)
    BY CandidateDead DEF DeleteIndividualContainer
<1>2. PICK to \in {ToRetryDelete, None} : parent' = [parent EXCEPT ![c] = to]
    BY DEF DeleteIndividualContainer
<1>3. Rows \ {c} \subseteq Rows' /\ Rows' \subseteq Rows
    BY <1>t, <1>1, <1>2 DEF Rows
<1>4. /\ \A x \in Containers \ {c} : childrenCount'[x] = childrenCount[x]
                                   /\ childCounts'[x] = childCounts[x]
      /\ \A y \in Users \ {c} : y \in unread' <=> y \in unread
    BY <1>t DEF DeleteIndividualContainer, NewRow
<1>5. ASSUME NEW x \in Containers, Live(x)' PROVE ExactAt(x)'
    <2>1. x \in Rows
        BY <1>3, <1>5, LiveByClosedPrime DEF Closed, IsRow, Rows
    <2>2. Live(x)
        BY <1>5, <2>1, StepResurrectsNothing
    <2>3. x # c /\ x # parent[c]
        BY <1>1, <2>2, LiveChild DEF Rows
    <2>4. c \notin ChildrenOf(x) /\ ChildrenOf(x)' = ChildrenOf(x)
        BY <1>t, <1>2, <2>3 DEF ChildrenOf, Specials
    <2>5. \A y \in ChildrenOf(x) : y \in unread' <=> y \in unread
        BY <1>4, <2>4 DEF ChildrenOf
    <2>. QED BY <1>4, <2>2, <2>3, <2>4, <2>5, SameChildren DEF CountsInv
<1>6. ASSUME NEW x \in Containers \ Rows' PROVE childrenCount'[x] = 0 /\ childCounts'[x] = Zero
    <2>1. CASE x = c
        <3>1. parent'[c] = None
            BY <1>t, <1>6, <2>1 DEF Rows
        <3>2. NewRow(c, FALSE)
            BY <1>t, <3>1 DEF DeleteIndividualContainer, Specials
        <3>. QED BY <1>t, <2>1, <3>2 DEF NewRow
    <2>2. CASE x # c
        BY <1>3, <1>4, <1>6, <2>2 DEF CountsInv
    <2>. QED BY <2>1, <2>2
<1>. QED BY <1>5, <1>6 DEF CountsInv

\* Only messages whose ids were handed out are unread.
UnreadUsed == unread \subseteq used

LEMMA UnreadUsedStep == TypeOK /\ UnreadUsed /\ [Next]_vars => UnreadUsed'
<1>. SUFFICES ASSUME TypeOK, UnreadUsed, [Next]_vars PROVE UnreadUsed'
    OBVIOUS
<1>1. ASSUME NEW mb \in MailBoxes, CreateAccount(mb) \/ DeleteAccount(mb) PROVE UnreadUsed'
    BY <1>1 DEF UnreadUsed, CreateAccount, DeleteAccount, MoveL
<1>2. ASSUME NEW m \in Messages, NEW f \in Folders, NEW u \in BOOLEAN, CreateMessage(m, f, u)
      PROVE  UnreadUsed'
    BY <1>2 DEF UnreadUsed, CreateMessage, NewRow
<1>3. ASSUME NEW m \in Messages, CommitMessage(m) \/ LoseDraft(m) \/ AbandonMessage(m)
      PROVE  UnreadUsed'
    BY <1>3 DEF UnreadUsed, CommitMessage, LoseDraft, AbandonMessage, MoveL
<1>4. ASSUME NEW m \in Messages, UpdateProperties(m) PROVE UnreadUsed'
    BY <1>4 DEF UnreadUsed, UpdateProperties, Known
<1>5. ASSUME NEW m \in Messages, NEW ps \in SUBSET Parts, CommitBufferedMessage(m, ps)
      PROVE  UnreadUsed'
    BY <1>5 DEF UnreadUsed, CommitBufferedMessage
<1>6. ASSUME NEW c \in Folders \cup Parts, NEW p \in Users,
             CreateAndCommit(c, p) \/ CreateAndCommitFails(c, p)
      PROVE  UnreadUsed'
    BY <1>6 DEF UnreadUsed, CreateAndCommit, CreateAndCommitFails, NewRow
<1>7. ASSUME NEW c \in Folders \cup Messages \cup Parts, DeleteContainer(c) PROVE UnreadUsed'
    BY <1>7 DEF UnreadUsed, DeleteContainer, MoveL
<1>8. ASSUME NEW c \in Folders \cup Messages, NEW to \in MailBoxes \cup Folders,
             MoveContainer(c, to)
      PROVE  UnreadUsed'
    BY <1>8 DEF UnreadUsed, MoveContainer, MoveL
<1>9. ASSUME NEW m \in Messages, NEW n \in Messages, NEW f \in Folders,
             NEW g \in [ChildrenOf(m) -> Parts],
             CopyMessage(m, f, n, g) \/ CopyMessageFails(m, f, n, g)
      PROVE  UnreadUsed'
    <2>1. PICK to \in {f, Uncommitted} : Copied(m, n, g, to)
        BY <1>9 DEF CopyMessage, CopyMessageFails
    <2>2. unread' \subseteq unread \cup {n} /\ used \cup {n} \subseteq used'
        BY <2>1 DEF Copied
    <2>. QED BY <2>2 DEF UnreadUsed
<1>10. ASSUME NEW c \in WithContent, OpenContent(c) \/ CloseContent(c) PROVE UnreadUsed'
    BY <1>10 DEF UnreadUsed, OpenContent, CloseContent, rows
<1>11. ASSUME NEW c \in Users, DeleteFails(c) \/ DeleteIndividualContainer(c) PROVE UnreadUsed'
    BY <1>11 DEF UnreadUsed, DeleteFails, DeleteIndividualContainer, NewRow, rows
<1>12. ASSUME RetryDeleteDone \/ DeleteDone \/ DeleteFromSortingTable PROVE UnreadUsed'
    BY <1>12 DEF UnreadUsed, RetryDeleteDone, DeleteDone, DeleteFromSortingTable, rows
<1>13. ASSUME Restart PROVE UnreadUsed'
    BY <1>13 DEF UnreadUsed, Restart
<1>14. CASE UNCHANGED vars
    BY <1>14 DEF UnreadUsed, vars, rows
<1>. QED BY <1>1, <1>2, <1>3, <1>4, <1>5, <1>6, <1>7, <1>8, <1>9, <1>10, <1>11, <1>12,
            <1>13, <1>14
         DEF Next, DeleteHandler

LEMMA CountsStep ==
    ASSUME Inv, StackDead, UnreadUsed, CountsInv, [Next]_vars PROVE CountsInv'
<1>t. /\ TypeOK /\ IdsUsed
      /\ parent \in [Containers -> Containers \cup Specials] /\ parent[Root] = Invalid
      /\ childrenCount \in [Containers -> Int] /\ childCounts \in [Containers -> Counts]
      /\ unread \subseteq Messages /\ Users \subseteq Containers
      /\ Uncommitted \notin Containers
    BY DEF Inv, TypeOK, Containers, Specials
<1>n. \A x \in Users \ used : x \notin Rows /\ childrenCount[x] = 0 /\ childCounts[x] = Zero
    BY <1>t DEF IdsUsed, Rows, CountsInv
\* The steps that leave everything alone but flags of what has no row.
<1>s. ASSUME parent' = parent, childrenCount' = childrenCount, childCounts' = childCounts,
             \A y \in Rows : y \in unread' <=> y \in unread
      PROVE  CountsInv'
    <2>1. Rows' = Rows /\ \A x \in Containers : ChildrenOf(x)' = ChildrenOf(x)
        BY <1>s DEF Rows, ChildrenOf
    <2>. QED BY <1>s, <2>1, SameCounts
<1>1. ASSUME NEW mb \in MailBoxes, CreateAccount(mb) PROVE CountsInv'
    <2>1. PICK f, Q : f \in Folders /\ f = SystemFolder[mb] /\ Q = {f}
        OBVIOUS
    <2>2. /\ mb \in Users \ used /\ f \in Users \ used /\ mb # f /\ Root # mb /\ Root # f
          /\ mb \notin Messages /\ Root \in Rows
        BY <1>1, <1>t, <2>1 DEF CreateAccount, Users, Rows, Containers, Specials
    <2>3. /\ mb \in Users \ Rows /\ Q \in SUBSET (Parts \cup Folders) /\ mb \notin Q
          /\ Q \cap Rows = {} /\ Root \in Rows \cup {Uncommitted}
        BY <1>n, <2>1, <2>2
    <2>4. \A x \in Containers :
              parent'[x] = IF x = mb THEN Root ELSE IF x \in Q THEN mb ELSE parent[x]
        BY <1>1, <1>t, <2>1, <2>2 DEF CreateAccount
    <2>5. \A x \in Containers :
              childrenCount'[x] = IF x = Root THEN childrenCount[x] + 1 ELSE
                                  IF x = mb THEN Cardinality(Q) ELSE childrenCount[x]
        <3>1. Cardinality(Q) = 1
            BY <2>1, FS_Singleton
        <3>2. childrenCount[f] = 0
            BY <1>n, <2>2
        <3>3. childrenCount' = [childrenCount EXCEPT ![Root] = @ + 1, ![mb] = 1, ![f] = 0]
            BY <1>1, <2>1 DEF CreateAccount
        <3>. QED BY <1>t, <2>2, <3>1, <3>2, <3>3
    <2>6. \A x \in Containers :
              childCounts'[x] = IF x = Root THEN Plus(childCounts[x], OwnCounts(mb)') ELSE
                                IF x = mb THEN Zero ELSE childCounts[x]
        <3>1. childCounts[f] = Zero
            BY <1>n, <2>2
        <3>2. childCounts' = [childCounts EXCEPT ![mb] = Zero, ![f] = Zero]
            BY <1>1, <2>1 DEF CreateAccount
        <3>3. OwnCounts(mb)' = Zero
            BY <1>1, <1>t, <2>2 DEF CreateAccount, OwnCounts, Zero
        <3>4. Plus(childCounts[Root], Zero) = childCounts[Root]
            BY <1>t DEF Plus, Zero, Counts, Containers
        <3>. QED BY <1>t, <2>2, <3>1, <3>2, <3>3, <3>4
    <2>7. unread' \subseteq Messages /\ \A y \in Rows : y \in unread' <=> y \in unread
        BY <1>1, <1>t DEF CreateAccount
    <2>. QED BY <2>3, <2>4, <2>5, <2>6, <2>7, NewRows
<1>2. ASSUME NEW mb \in MailBoxes, DeleteAccount(mb) PROVE CountsInv'
    <2>1. Live(mb) /\ MoveL(mb, ToBeDeleted) /\ mb \in Users
        BY <1>2 DEF DeleteAccount, Users
    <2>. QED BY <2>1, MoveCounts
<1>3. ASSUME NEW m \in Messages, NEW f \in Folders, NEW u \in BOOLEAN, CreateMessage(m, f, u)
      PROVE  CountsInv'
    <2>1. m \in Users \ used
        BY <1>3 DEF CreateMessage, Users
    <2>2. m \notin Rows
        BY <1>n, <2>1
    <2>3. unread' \subseteq Messages /\ \A y \in Rows : y \in unread' <=> y \in unread
        BY <1>3, <1>t, <2>2 DEF CreateMessage, NewRow
    <2>4. CASE Encrypted
        <3>1. PICK Q : Q = {}
            OBVIOUS
        <3>2. /\ m \in Users \ Rows /\ Q \in SUBSET (Parts \cup Folders) /\ m \notin Q
              /\ Q \cap Rows = {} /\ Uncommitted \in Rows \cup {Uncommitted}
            BY <2>1, <2>2, <3>1
        <3>3. /\ parent' = [parent EXCEPT ![m] = Uncommitted]
              /\ childrenCount' = [childrenCount EXCEPT ![m] = 0]
              /\ childCounts' = [childCounts EXCEPT ![m] = Zero]
            BY <1>3, <2>4 DEF CreateMessage, NewRow
        <3>4. \A x \in Containers :
                  parent'[x] = IF x = m THEN Uncommitted ELSE IF x \in Q THEN m ELSE parent[x]
            BY <1>t, <3>1, <3>3
        <3>5. Cardinality(Q) = 0
            BY <3>1, FS_EmptySet
        <3>6. \A x \in Containers :
                  childrenCount'[x] = IF x = Uncommitted THEN childrenCount[x] + 1 ELSE
                                      IF x = m THEN Cardinality(Q) ELSE childrenCount[x]
            BY <1>t, <3>3, <3>5
        <3>7. \A x \in Containers :
                  childCounts'[x] = IF x = Uncommitted THEN Plus(childCounts[x], OwnCounts(m)')
                                    ELSE IF x = m THEN Zero ELSE childCounts[x]
            BY <1>t, <3>3
        <3>. QED BY <2>3, <3>2, <3>4, <3>6, <3>7, NewRows
    <2>5. CASE ~Encrypted
        <3>1. parent' = parent /\ childrenCount' = childrenCount /\ childCounts' = childCounts
            BY <1>3, <2>5 DEF CreateMessage
        <3>. QED BY <2>3, <3>1, <1>s
    <2>. QED BY <2>4, <2>5
<1>4. ASSUME NEW m \in Messages, CommitMessage(m) PROVE CountsInv'
    <2>1. draft[m] \in Containers /\ m \in Users
        BY <1>4, <1>t DEF CommitMessage, Drafts, TypeOK, Containers, Users
    <2>2. Live(m) /\ MoveL(m, draft[m])
        BY <1>4 DEF CommitMessage
    <2>. QED BY <2>1, <2>2, MoveCounts
<1>5. ASSUME NEW m \in Messages, LoseDraft(m) PROVE CountsInv'
    <2>1. Encrypted \/ m \notin Rows
        BY <1>5, <1>t DEF LoseDraft, IdsUsed, Rows
    <2>2. parent' = parent /\ childrenCount' = childrenCount /\ childCounts' = childCounts
        BY <1>5 DEF LoseDraft
    <2>3. \A y \in Rows : y \in unread' <=> y \in unread
        BY <1>5, <2>1 DEF LoseDraft
    <2>. QED BY <2>2, <2>3, <1>s
<1>6. ASSUME NEW m \in Messages, UpdateProperties(m) PROVE CountsInv'
    BY <1>6, FlipCounts
<1>7. ASSUME NEW m \in Messages, AbandonMessage(m) PROVE CountsInv'
    <2>1. Live(m) /\ MoveL(m, ToBeDeleted) /\ m \in Users
        BY <1>7 DEF AbandonMessage, Users
    <2>. QED BY <2>1, MoveCounts
<1>8. ASSUME NEW m \in Messages, NEW ps \in SUBSET Parts, CommitBufferedMessage(m, ps)
      PROVE  CountsInv'
    <2>1. PICK f \in Folders : f = draft[m]
        BY <1>8, <1>t DEF CommitBufferedMessage, Drafts, TypeOK
    <2>2. /\ m \in Users \ Rows /\ f \in Rows /\ ps \cap Rows = {} /\ m \notin ps
          /\ ps \subseteq Users /\ f # m /\ f \notin ps
        BY <1>8, <1>t, <1>n, <2>1, LiveIsRow DEF CommitBufferedMessage, Users, IdsUsed, Rows
    <2>3. \A x \in Containers :
              parent'[x] = IF x = m THEN f ELSE IF x \in ps THEN m ELSE parent[x]
        BY <1>8, <2>1 DEF CommitBufferedMessage
    <2>4. \A x \in Containers :
              childrenCount'[x] = IF x = f THEN childrenCount[x] + 1 ELSE
                                  IF x = m THEN Cardinality(ps) ELSE childrenCount[x]
        <3>1. childrenCount' = [childrenCount EXCEPT ![f] = @ + 1, ![m] = Cardinality(ps)]
            BY <1>8, <2>1 DEF CommitBufferedMessage
        <3>. QED BY <1>t, <2>2, <3>1
    <2>5. unread' = unread
        BY <1>8 DEF CommitBufferedMessage
    <2>6. \A x \in Containers :
              childCounts'[x] = IF x = f THEN Plus(childCounts[x], OwnCounts(m)') ELSE
                                IF x = m THEN Zero ELSE childCounts[x]
        <3>1. childCounts' = [childCounts EXCEPT ![f] = Plus(@, OwnCounts(m))]
            BY <1>8, <2>1 DEF CommitBufferedMessage
        <3>2. childCounts[m] = Zero
            BY <1>t, <2>2 DEF CountsInv
        <3>3. OwnCounts(m)' = OwnCounts(m)
            BY <2>5 DEF OwnCounts
        <3>. QED BY <1>t, <2>2, <3>1, <3>2, <3>3
    <2>7. ps \in SUBSET (Parts \cup Folders) /\ f \in Rows \cup {Uncommitted}
        BY <2>2
    <2>8. unread' \subseteq Messages /\ \A y \in Rows : y \in unread' <=> y \in unread
        BY <1>t, <2>5
    <2>. QED BY <2>2, <2>3, <2>4, <2>6, <2>7, <2>8, NewRows
<1>9. ASSUME NEW c \in Folders \cup Parts, NEW p \in Users,
             CreateAndCommit(c, p) \/ CreateAndCommitFails(c, p)
      PROVE  CountsInv'
    <2>1. PICK Q : Q = {}
        OBVIOUS
    <2>2. /\ c \in Users \ Rows /\ Q \in SUBSET (Parts \cup Folders) /\ c \notin Q
          /\ Q \cap Rows = {} /\ Cardinality(Q) = 0 /\ c \notin Messages
          /\ p \in Rows /\ p # c
        <3>1. c \in Users \ used /\ c \notin Messages
            BY <1>9 DEF CreateAndCommit, CreateAndCommitFails, Users
        <3>2. p \in Rows
            BY <1>9, LiveIsRow DEF CreateAndCommit, CreateAndCommitFails
        <3>3. c \notin Rows
            BY <1>n, <3>1
        <3>4. Cardinality(Q) = 0
            BY <2>1, FS_EmptySet
        <3>. QED BY <2>1, <3>1, <3>2, <3>3, <3>4
    <2>3. unread' \subseteq Messages /\ \A y \in Rows : y \in unread' <=> y \in unread
        BY <1>9, <1>t, <2>2 DEF CreateAndCommit, CreateAndCommitFails, NewRow
    <2>4. OwnCounts(c)' = Zero
        BY <2>2, <2>3 DEF OwnCounts, Zero
    <2>5. CASE CreateAndCommit(c, p)
        <3>1. /\ parent' = [parent EXCEPT ![c] = p]
              /\ childrenCount' = [childrenCount EXCEPT ![p] = @ + 1, ![c] = 0]
              /\ childCounts' = [childCounts EXCEPT ![c] = Zero]
            BY <2>5 DEF CreateAndCommit
        <3>2. \A x \in Containers :
                  parent'[x] = IF x = c THEN p ELSE IF x \in Q THEN c ELSE parent[x]
            BY <1>t, <2>1, <3>1
        <3>3. \A x \in Containers :
                  childrenCount'[x] = IF x = p THEN childrenCount[x] + 1 ELSE
                                      IF x = c THEN Cardinality(Q) ELSE childrenCount[x]
            BY <1>t, <2>2, <3>1
        <3>4. Plus(childCounts[p], Zero) = childCounts[p]
            BY <1>t DEF Plus, Zero, Counts
        <3>5. \A x \in Containers :
                  childCounts'[x] = IF x = p THEN Plus(childCounts[x], OwnCounts(c)') ELSE
                                    IF x = c THEN Zero ELSE childCounts[x]
            BY <1>t, <2>2, <2>4, <3>1, <3>4
        <3>6. p \in Rows \cup {Uncommitted}
            BY <2>2
        <3>. QED BY <2>2, <2>3, <3>2, <3>3, <3>5, <3>6, NewRows
    <2>6. CASE CreateAndCommitFails(c, p)
        <3>1. /\ parent' = [parent EXCEPT ![c] = Uncommitted]
              /\ childrenCount' = [childrenCount EXCEPT ![c] = 0]
              /\ childCounts' = [childCounts EXCEPT ![c] = Zero]
            BY <2>6 DEF CreateAndCommitFails, NewRow
        <3>2. \A x \in Containers :
                  parent'[x] = IF x = c THEN Uncommitted ELSE IF x \in Q THEN c ELSE parent[x]
            BY <1>t, <2>1, <3>1
        <3>3. \A x \in Containers :
                  childrenCount'[x] = IF x = Uncommitted THEN childrenCount[x] + 1 ELSE
                                      IF x = c THEN Cardinality(Q) ELSE childrenCount[x]
            BY <1>t, <2>2, <3>1
        <3>5. \A x \in Containers :
                  childCounts'[x] = IF x = Uncommitted THEN Plus(childCounts[x], OwnCounts(c)')
                                    ELSE IF x = c THEN Zero ELSE childCounts[x]
            BY <1>t, <3>1
        <3>6. Uncommitted \in Rows \cup {Uncommitted}
            OBVIOUS
        <3>. QED BY <2>2, <2>3, <3>2, <3>3, <3>5, <3>6, NewRows
    <2>. QED BY <1>9, <2>5, <2>6
<1>10. ASSUME NEW c \in Folders \cup Messages \cup Parts, DeleteContainer(c) PROVE CountsInv'
    <2>1. Live(c) /\ MoveL(c, ToBeDeleted) /\ c \in Users
        BY <1>10 DEF DeleteContainer, Users
    <2>. QED BY <2>1, MoveCounts
<1>11. ASSUME NEW c \in Folders \cup Messages, NEW to \in MailBoxes \cup Folders,
              MoveContainer(c, to)
       PROVE  CountsInv'
    <2>1. Live(c) /\ MoveL(c, to) /\ c \in Users /\ to \in Containers
        BY <1>11 DEF MoveContainer, Users, Containers
    <2>. QED BY <2>1, MoveCounts
<1>12. ASSUME NEW m \in Messages, NEW n \in Messages, NEW f \in Folders,
              NEW g \in [ChildrenOf(m) -> Parts],
              CopyMessage(m, f, n, g) \/ CopyMessageFails(m, f, n, g)
       PROVE  CountsInv'
    <2>1. PICK to \in {f, Uncommitted} :
              /\ Copied(m, n, g, to)
              /\ \/ to = f /\ CopyMessage(m, f, n, g)
                 \/ to = Uncommitted /\ CopyMessageFails(m, f, n, g)
        BY <1>12 DEF CopyMessage, CopyMessageFails
    <2>2. PICK Q : Q = {g[p] : p \in DOMAIN g} /\ Q \subseteq Parts
        <3>1. {g[p] : p \in DOMAIN g} \subseteq Parts
            OBVIOUS
        <3>. QED BY <3>1
    <2>3. /\ n \in Users \ Rows /\ Q \in SUBSET (Parts \cup Folders) /\ n \notin Q
          /\ Q \cap Rows = {} /\ f \in Rows /\ f # n /\ f \notin Q
        <3>1. n \in Users \ used /\ Q \subseteq Users \ used
            BY <2>1, <2>2 DEF Copied, Users
        <3>2. f \in Rows
            BY <1>12, LiveIsRow DEF CopyMessage, CopyMessageFails, Copyable
        <3>3. n \notin Rows /\ Q \cap Rows = {}
            BY <1>n, <3>1
        <3>4. n \notin Q
            BY <2>2
        <3>. QED BY <2>2, <3>1, <3>2, <3>3, <3>4
    <2>4. Cardinality(Q) = Cardinality(DOMAIN g)
        <3>1. IsFiniteSet(DOMAIN g)
            BY ChildrenFinite
        <3>2. PICK D : D = DOMAIN g
            OBVIOUS
        <3>3. g \in [D -> Q]
            BY <2>2, <3>2
        <3>4. \A a, b \in D : g[a] = g[b] => a = b
            BY <2>1, <3>2 DEF Copied
        <3>5. \A t \in Q : \E s \in D : g[s] = t
            BY <2>2, <3>2
        <3>6. g \in Bijection(D, Q)
            BY <3>3, <3>4, <3>5 DEF Bijection, Injection, Surjection, IsInjective
        <3>7. ExistsBijection(D, Q)
            BY <3>6 DEF ExistsBijection
        <3>. QED BY <3>1, <3>2, <3>7, FS_Bijection
    <2>5. \A x \in Containers :
              parent'[x] = IF x = n THEN to ELSE IF x \in Q THEN n ELSE parent[x]
        BY <2>1, <2>2 DEF Copied
    <2>6. unread' \subseteq Messages /\ \A y \in Rows : y \in unread' <=> y \in unread
        BY <1>t, <2>1, <2>3 DEF Copied
    <2>7. OwnCounts(n)' = OwnCounts(m)
        <3>1. n \notin unread
            BY <2>1 DEF UnreadUsed, Copied
        <3>. QED BY <2>1, <3>1 DEF Copied, OwnCounts
    <2>8. CASE to = f /\ CopyMessage(m, f, n, g)
        <3>1. /\ childrenCount' = [childrenCount EXCEPT ![f] = @ + 1, ![n] = Cardinality(DOMAIN g)]
              /\ childCounts' = [childCounts EXCEPT ![f] = Plus(@, OwnCounts(m))]
            BY <2>8 DEF CopyMessage
        <3>2. childCounts[n] = Zero
            BY <1>t, <2>3 DEF CountsInv
        <3>3. \A x \in Containers :
                  childrenCount'[x] = IF x = f THEN childrenCount[x] + 1 ELSE
                                      IF x = n THEN Cardinality(Q) ELSE childrenCount[x]
            BY <1>t, <2>3, <2>4, <3>1
        <3>4. \A x \in Containers :
                  childCounts'[x] = IF x = f THEN Plus(childCounts[x], OwnCounts(n)') ELSE
                                    IF x = n THEN Zero ELSE childCounts[x]
            BY <1>t, <2>3, <2>7, <3>1, <3>2
        <3>5. f \in Rows \cup {Uncommitted}
            BY <2>3
        <3>. QED BY <2>3, <2>5, <2>6, <2>8, <3>3, <3>4, <3>5, NewRows
    <2>9. CASE to = Uncommitted /\ CopyMessageFails(m, f, n, g)
        <3>1. /\ childrenCount' = [childrenCount EXCEPT ![n] = Cardinality(DOMAIN g)]
              /\ childCounts' = childCounts
            BY <2>9 DEF CopyMessageFails
        <3>2. childCounts[n] = Zero
            BY <1>t, <2>3 DEF CountsInv
        <3>3. \A x \in Containers :
                  childrenCount'[x] = IF x = Uncommitted THEN childrenCount[x] + 1 ELSE
                                      IF x = n THEN Cardinality(Q) ELSE childrenCount[x]
            BY <1>t, <2>3, <2>4, <3>1
        <3>4. \A x \in Containers :
                  childCounts'[x] = IF x = Uncommitted THEN Plus(childCounts[x], OwnCounts(n)')
                                    ELSE IF x = n THEN Zero ELSE childCounts[x]
            BY <1>t, <2>3, <3>1, <3>2
        <3>5. Uncommitted \in Rows \cup {Uncommitted}
            OBVIOUS
        <3>. QED BY <2>3, <2>5, <2>6, <2>9, <3>3, <3>4, <3>5, NewRows
    <2>. QED BY <2>1, <2>8, <2>9
<1>13. ASSUME NEW c \in WithContent, OpenContent(c) \/ CloseContent(c) PROVE CountsInv'
    BY <1>13, <1>s DEF OpenContent, CloseContent, rows
<1>14. ASSUME NEW c \in Users, DeleteFails(c) PROVE CountsInv'
    BY <1>14, <1>s DEF DeleteFails, rows
<1>15. ASSUME NEW c \in Users, DeleteIndividualContainer(c) PROVE CountsInv'
    BY <1>15, EraseCounts
<1>16. ASSUME RetryDeleteDone \/ DeleteDone \/ DeleteFromSortingTable PROVE CountsInv'
    BY <1>16, <1>s DEF RetryDeleteDone, DeleteDone, DeleteFromSortingTable, rows
<1>17. ASSUME Restart PROVE CountsInv'
    <2>1. /\ parent' = [c \in Containers |->
                           IF parent[c] = Uncommitted THEN ToBeDeleted ELSE parent[c]]
          /\ childrenCount' = childrenCount /\ childCounts' = childCounts
          /\ unread' = {m \in unread : parent[m] # None}
        BY <1>17 DEF Restart
    <2>2. Rows' = Rows /\ \A x \in Containers : ChildrenOf(x)' = ChildrenOf(x)
        BY <1>t, <2>1 DEF Rows, ChildrenOf, Specials
    <2>3. \A y \in Rows : y \in unread' <=> y \in unread
        BY <2>1 DEF Rows
    <2>. QED BY <2>1, <2>2, <2>3, SameCounts
<1>18. CASE UNCHANGED vars
    BY <1>18, <1>s DEF vars, rows
<1>. QED BY <1>1, <1>2, <1>3, <1>4, <1>5, <1>6, <1>7, <1>8, <1>9, <1>10, <1>11, <1>12,
            <1>13, <1>14, <1>15, <1>16, <1>17, <1>18
         DEF Next, DeleteHandler

\* They hold in every reachable state.
LEMMA CountsInductive == Spec => [](CountsInv /\ UnreadUsed)
<1>1. Init => CountsInv /\ UnreadUsed
    <2>. SUFFICES ASSUME Init PROVE CountsInv /\ UnreadUsed
        OBVIOUS
    <2>1. \A c \in Containers : ChildrenOf(c) = {} /\ childrenCount[c] = 0 /\ childCounts[c] = Zero
        BY DEF Init, ChildrenOf, Containers, Specials
    <2>2. UnreadUsed /\ unread = {}
        BY DEF Init, UnreadUsed
    <2>3. ASSUME NEW c \in Containers PROVE ExactAt(c)
        <3>1. PICK K : K = ChildrenOf(c)
            OBVIOUS
        <3>2. K \cap Messages = {} /\ K \cap Messages \cap unread = {} /\ K = {}
            BY <2>1, <3>1
        <3>3. Cardinality({}) = 0
            BY FS_EmptySet
        <3>. QED BY <2>1, <3>1, <3>2, <3>3 DEF ExactAt, Zero
    <2>. QED BY <2>1, <2>2, <2>3 DEF CountsInv
<1>2. Inv /\ StackDead /\ CountsInv /\ UnreadUsed /\ [Next]_vars => (CountsInv /\ UnreadUsed)'
    BY CountsStep, UnreadUsedStep DEF Inv
<1>. QED BY <1>1, <1>2, Inductive, StackIsDead, PTL DEF Spec

\* Through every sequence of requests, failed second transactions, background deletes and
\* restarts the counts of a container a request can reach, kept by deltas, are those of
\* its children.
THEOREM CountsAreExact == Spec => []FolderCountsExact
<1>1. CountsInv => FolderCountsExact
    BY DEF CountsInv, ExactAt, FolderCountsExact
<1>. QED BY <1>1, CountsInductive, PTL

-----------------------------------------------------------------------------
(* Where folders and messages are: below a folder of their mailbox.            *)

\* An id that was handed out and whose row is not waiting for its commit.
Given(c) == c \in used /\ parent[c] # Uncommitted

\* An id is handed out after the mailbox it belongs to.
OwnersUsed ==
    /\ \A c \in Folders \cup Messages : c \in used => Owner[c] \in used
    /\ accounts \subseteq used

\* The folder a message is created for is a committed folder of its mailbox.
DraftShape == \A m \in Drafts : Given(draft[m]) /\ Owner[draft[m]] = Owner[m]

\* A folder is below its mailbox, folders and messages below folders of it.
TreeShape ==
    \A c \in Folders \cup Messages :
        \/ parent[c] \in {None, Uncommitted, ToBeDeleted, ToRetryDelete}
        \/ c \in Folders /\ parent[c] = Owner[c]
        \/ /\ parent[c] \in Folders /\ Given(parent[c])
           /\ Owner[parent[c]] = Owner[c]

\* The special parents of rows that are not in the tree.
OutOfTree == {None, ToBeDeleted, ToRetryDelete}

\* The row of c goes below a folder of its mailbox, with its row of the sorting table.
Placed(c) ==
    /\ parent'[c] \in Folders /\ Given(parent'[c])
    /\ Owner[parent'[c]] = Owner[c]
    /\ c \in used' /\ Owner[c] \in used
    /\ c \in Messages => sorting'[c] = parent'[c]
    /\ c \in Messages \/ c \notin used \/ (Given(c) /\ parent[c] # None)

\* What a step may do to the parent of a folder or message.
PlaceKinds(c) ==
    \/ parent'[c] = parent[c]
    \/ parent'[c] \in OutOfTree /\ parent[c] # None
    \/ parent'[c] = Uncommitted /\ c \notin used /\ c \in used'
    \/ /\ c \in Folders /\ parent'[c] = Owner[c] /\ c \in used'
       /\ c \notin used \/ (Given(c) /\ parent[c] # None)
    \/ Placed(c)

\* A folder or mailbox that a client knows is committed.
LEMMA KnownGiven ==
    ASSUME NEW f \in Folders \cup MailBoxes, Known(f) PROVE Given(f)
BY DEF Known, Given, Drafts

\* A move of one row to a special parent.
LEMMA MovedOut ==
    ASSUME TypeOK, NEW x \in Containers, parent[x] # None, NEW to \in OutOfTree,
           parent' = [parent EXCEPT ![x] = to],
           NEW c \in Folders \cup Messages
    PROVE  PlaceKinds(c)
<1>1. c \in Containers
    BY DEF Containers, Users
<1>. QED BY <1>1 DEF TypeOK, PlaceKinds

LEMMA PlacingStep ==
    ASSUME Inv, OwnersUsed, DraftShape, [Next]_vars, NEW c \in Folders \cup Messages
    PROVE  PlaceKinds(c)
<1>t. /\ parent \in [Containers -> Containers \cup Specials] /\ c \in Containers
      /\ draft \in [Messages -> Folders \cup {None}] /\ sorting \in [Messages -> Folders \cup {None}]
      /\ used \subseteq Users /\ TypeOK
    BY DEF Inv, TypeOK, Containers, Users
<1>s. ToBeDeleted \in OutOfTree /\ ToRetryDelete \in OutOfTree /\ None \in OutOfTree
    BY DEF OutOfTree
<1>r. \A x \in Users : parent[x] # None => x \in used
    BY DEF Inv, IdsUsed
<1>0. ASSUME parent' = parent PROVE PlaceKinds(c)
    BY <1>0 DEF PlaceKinds
<1>1. ASSUME NEW mb \in MailBoxes, CreateAccount(mb) PROVE PlaceKinds(c)
    <2>1. parent' = [parent EXCEPT ![mb] = Root, ![SystemFolder[mb]] = mb]
        BY <1>1 DEF CreateAccount
    <2>2. CASE c = SystemFolder[mb]
        <3>1. c \in Folders /\ Owner[c] = mb /\ c # mb
            BY <2>2
        <3>2. parent'[c] = mb
            BY <1>t, <2>1, <2>2
        <3>3. c \notin used /\ c \in used'
            BY <1>1, <2>2 DEF CreateAccount
        <3>. QED BY <3>1, <3>2, <3>3 DEF PlaceKinds
    <2>3. CASE c # SystemFolder[mb]
        <3>1. c # mb
            OBVIOUS
        <3>2. parent'[c] = parent[c]
            BY <1>t, <2>1, <2>3, <3>1
        <3>. QED BY <3>2 DEF PlaceKinds
    <2>. QED BY <2>2, <2>3
<1>2. ASSUME NEW mb \in MailBoxes, DeleteAccount(mb) PROVE PlaceKinds(c)
    <2>1. mb \in Containers /\ parent[mb] # None
        BY <1>2, LiveIsRow DEF DeleteAccount, Rows
    <2>2. parent' = [parent EXCEPT ![mb] = ToBeDeleted]
        BY <1>2 DEF DeleteAccount, MoveL
    <2>. QED BY <1>t, <1>s, <2>1, <2>2, MovedOut
<1>3. ASSUME NEW m \in Messages, NEW f \in Folders, NEW u \in BOOLEAN, CreateMessage(m, f, u)
      PROVE  PlaceKinds(c)
    <2>1. CASE Encrypted /\ c = m
        <3>1. parent'[c] = Uncommitted /\ c \notin used /\ c \in used'
            BY <1>3, <1>t, <2>1 DEF CreateMessage
        <3>. QED BY <3>1 DEF PlaceKinds
    <2>2. CASE ~(Encrypted /\ c = m)
        <3>1. parent'[c] = parent[c]
            BY <1>3, <1>t, <2>2 DEF CreateMessage
        <3>. QED BY <3>1 DEF PlaceKinds
    <2>. QED BY <2>1, <2>2
<1>4. ASSUME NEW m \in Messages, CommitMessage(m) PROVE PlaceKinds(c)
    <2>1. parent' = [parent EXCEPT ![m] = draft[m]] /\ sorting' = [sorting EXCEPT ![m] = draft[m]]
          /\ m \in Drafts /\ used' = used
        BY <1>4 DEF CommitMessage, MoveL
    <2>2. CASE c # m
        BY <1>t, <2>1, <2>2 DEF PlaceKinds
    <2>3. CASE c = m
        <3>1. /\ draft[m] \in Folders /\ Given(draft[m]) /\ Owner[draft[m]] = Owner[m]
              /\ m \in used
            BY <1>t, <2>1 DEF DraftShape, Drafts, Inv, IdsUsed
        <3>2. parent'[c] = draft[m] /\ sorting'[c] = draft[m]
            BY <1>t, <2>1, <2>3
        <3>3. Owner[c] \in used
            BY <2>3, <3>1 DEF OwnersUsed
        <3>. QED BY <2>1, <2>3, <3>1, <3>2, <3>3 DEF PlaceKinds, Placed
    <2>. QED BY <2>2, <2>3
<1>5. ASSUME NEW m \in Messages, LoseDraft(m) \/ UpdateProperties(m) PROVE PlaceKinds(c)
    BY <1>0, <1>5 DEF LoseDraft, UpdateProperties
<1>6. ASSUME NEW m \in Messages, AbandonMessage(m) PROVE PlaceKinds(c)
    <2>1. m \in Containers /\ parent[m] # None
        BY <1>6, LiveIsRow DEF AbandonMessage, Rows
    <2>2. parent' = [parent EXCEPT ![m] = ToBeDeleted]
        BY <1>6 DEF AbandonMessage, MoveL
    <2>. QED BY <1>t, <1>s, <2>1, <2>2, MovedOut
<1>7. ASSUME NEW m \in Messages, NEW ps \in SUBSET Parts, CommitBufferedMessage(m, ps)
      PROVE  PlaceKinds(c)
    <2>1. /\ m \in Drafts /\ used \subseteq used'
          /\ sorting' = [sorting EXCEPT ![m] = draft[m]]
          /\ parent' = [x \in Containers |-> IF x = m THEN draft[m] ELSE
                                             IF x \in ps THEN m ELSE parent[x]]
        BY <1>7 DEF CommitBufferedMessage
    <2>2. CASE c # m
        BY <1>t, <2>1, <2>2 DEF PlaceKinds
    <2>3. CASE c = m
        <3>1. /\ draft[m] \in Folders /\ Given(draft[m]) /\ Owner[draft[m]] = Owner[m]
              /\ m \in used
            BY <1>t, <2>1 DEF DraftShape, Drafts, Inv, IdsUsed
        <3>2. parent'[c] = draft[m] /\ sorting'[c] = draft[m]
            BY <1>t, <2>1, <2>3
        <3>3. Owner[c] \in used
            BY <2>3, <3>1 DEF OwnersUsed
        <3>. QED BY <2>1, <2>3, <3>1, <3>2, <3>3 DEF PlaceKinds, Placed
    <2>. QED BY <2>2, <2>3
<1>8. ASSUME NEW x \in Folders \cup Parts, NEW p \in Users, CreateAndCommit(x, p)
      PROVE  PlaceKinds(c)
    <2>1. parent' = [parent EXCEPT ![x] = p] /\ used' = used \cup {x} /\ x \notin used /\ Known(p)
          /\ (x \in Folders => p \in MailBoxes \cup Folders /\ MailBoxOf(p) = Owner[x])
        BY <1>8 DEF CreateAndCommit
    <2>2. CASE c # x
        BY <1>t, <2>1, <2>2 DEF PlaceKinds
    <2>3. CASE c = x
        <3>1. c \in Folders /\ parent'[c] = p /\ Given(p)
            BY <1>t, <2>1, <2>3, KnownGiven
        <3>2. CASE p \in MailBoxes
            <4>1. parent'[c] = Owner[c]
                BY <2>1, <2>3, <3>1, <3>2 DEF MailBoxOf
            <4>. QED BY <2>1, <2>3, <3>1, <4>1 DEF PlaceKinds
        <3>3. CASE p \in Folders
            <4>1. Owner[p] = Owner[c]
                BY <2>1, <2>3, <3>1, <3>3 DEF MailBoxOf
            <4>2. Owner[c] \in used
                BY <3>1, <3>3, <4>1 DEF OwnersUsed, Given
            <4>. QED BY <2>1, <2>3, <3>1, <3>3, <4>1, <4>2 DEF PlaceKinds, Placed
        <3>. QED BY <2>1, <2>3, <3>1, <3>2, <3>3
    <2>. QED BY <2>2, <2>3
<1>9. ASSUME NEW x \in Folders \cup Parts, NEW p \in Users, CreateAndCommitFails(x, p)
      PROVE  PlaceKinds(c)
    BY <1>9, <1>t DEF CreateAndCommitFails, PlaceKinds
<1>10. ASSUME NEW x \in Folders \cup Messages \cup Parts, DeleteContainer(x)
       PROVE  PlaceKinds(c)
    <2>1. x \in Containers /\ parent[x] # None
        BY <1>10, LiveIsRow DEF DeleteContainer, Rows
    <2>2. parent' = [parent EXCEPT ![x] = ToBeDeleted]
        BY <1>10 DEF DeleteContainer, MoveL
    <2>. QED BY <1>t, <1>s, <2>1, <2>2, MovedOut
<1>11. ASSUME NEW x \in Folders \cup Messages, NEW to \in MailBoxes \cup Folders,
              MoveContainer(x, to)
       PROVE  PlaceKinds(c)
    <2>1. /\ parent' = [parent EXCEPT ![x] = to] /\ used' = used /\ Known(x) /\ Known(to)
          /\ MailBoxOf(to) = Owner[x] /\ parent[x] # Uncommitted
          /\ (x \in Messages => to \in Folders /\ sorting' = [sorting EXCEPT ![x] = to])
        BY <1>11 DEF MoveContainer, MoveL
    <2>2. CASE c # x
        BY <1>t, <2>1, <2>2 DEF PlaceKinds
    <2>3. CASE c = x
        <3>1. parent'[c] = to /\ Given(to) /\ Given(c) /\ c \in used'
            BY <1>t, <2>1, <2>3, KnownGiven DEF Known, Given
        <3>2. parent[c] # None
            BY <1>11, <2>3, LiveIsRow DEF MoveContainer, Rows
        <3>3. CASE to \in MailBoxes
            <4>1. c \in Folders /\ parent'[c] = Owner[c]
                BY <2>1, <2>3, <3>1, <3>3 DEF MailBoxOf
            <4>. QED BY <3>1, <3>2, <4>1 DEF PlaceKinds
        <3>4. CASE to \in Folders
            <4>1. Owner[to] = Owner[c]
                BY <2>1, <2>3, <3>4 DEF MailBoxOf
            <4>2. Owner[c] \in used
                BY <3>1, <3>4, <4>1 DEF OwnersUsed, Given
            <4>3. c \in Messages => sorting'[c] = to
                BY <1>t, <2>1, <2>3
            <4>. QED BY <3>1, <3>2, <3>4, <4>1, <4>2, <4>3 DEF PlaceKinds, Placed
        <3>. QED BY <3>3, <3>4
    <2>. QED BY <2>2, <2>3
<1>12. ASSUME NEW m \in Messages, NEW n \in Messages, NEW f \in Folders,
              NEW g \in [ChildrenOf(m) -> Parts],
              CopyMessage(m, f, n, g) \/ CopyMessageFails(m, f, n, g)
       PROVE  PlaceKinds(c)
    <2>1. PICK to \in {f, Uncommitted} :
              /\ Copied(m, n, g, to)
              /\ to = f => CopyMessage(m, f, n, g)
        <3>1. f # Uncommitted
            BY DEF Specials, Containers, Users
        <3>. QED BY <1>12, <3>1 DEF CopyMessage, CopyMessageFails
    <2>2. n \notin used /\ n \in used' /\ used \subseteq used'
        BY <2>1 DEF Copied
    <2>3. c \notin {g[p] : p \in DOMAIN g}
        OBVIOUS
    <2>4. parent'[c] = IF c = n THEN to ELSE parent[c]
        BY <1>t, <2>1, <2>3 DEF Copied
    <2>5. CASE c # n
        BY <2>4, <2>5 DEF PlaceKinds
    <2>6. CASE c = n /\ to = Uncommitted
        BY <2>2, <2>4, <2>6 DEF PlaceKinds
    <2>7. CASE c = n /\ to = f
        <3>1. Known(f) /\ Owner[f] = Owner[m] /\ Owner[n] = Owner[m]
              /\ sorting' = [sorting EXCEPT ![n] = f]
            BY <2>1, <2>7 DEF CopyMessage, Copyable
        <3>2. Given(f) /\ Owner[c] \in used
            BY <2>7, <3>1, KnownGiven DEF OwnersUsed, Given
        <3>. QED BY <1>t, <2>2, <2>4, <2>7, <3>1, <3>2 DEF PlaceKinds, Placed
    <2>. QED BY <2>5, <2>6, <2>7
<1>13. ASSUME NEW x \in WithContent, OpenContent(x) \/ CloseContent(x) PROVE PlaceKinds(c)
    BY <1>0, <1>13 DEF OpenContent, CloseContent, rows
<1>14. ASSUME NEW x \in Users, DeleteFails(x) PROVE PlaceKinds(c)
    BY <1>0, <1>14 DEF DeleteFails, rows
<1>15. ASSUME NEW x \in Users, DeleteIndividualContainer(x) PROVE PlaceKinds(c)
    <2>1. parent[x] # None /\ x \in Containers
        BY <1>15 DEF DeleteIndividualContainer, Candidates, Containers
    <2>2. PICK to \in {ToRetryDelete, None} : parent' = [parent EXCEPT ![x] = to]
        BY <1>15 DEF DeleteIndividualContainer
    <2>. QED BY <1>t, <1>s, <2>1, <2>2, MovedOut
<1>16. ASSUME RetryDeleteDone \/ DeleteDone \/ DeleteFromSortingTable PROVE PlaceKinds(c)
    BY <1>0, <1>16 DEF RetryDeleteDone, DeleteDone, DeleteFromSortingTable, rows
<1>17. ASSUME Restart PROVE PlaceKinds(c)
    <2>1. parent'[c] = parent[c] \/ (parent[c] = Uncommitted /\ parent'[c] = ToBeDeleted)
        BY <1>17, <1>t DEF Restart
    <2>. QED BY <1>s, <2>1 DEF PlaceKinds
<1>18. CASE UNCHANGED vars
    BY <1>0, <1>18 DEF vars, rows
<1>. QED BY <1>1, <1>2, <1>3, <1>4, <1>5, <1>6, <1>7, <1>8, <1>9, <1>10, <1>11, <1>12,
            <1>13, <1>14, <1>15, <1>16, <1>17, <1>18
         DEF Next, DeleteHandler

\* What a step may do to the parent of a mailbox.
LEMMA MailBoxStep ==
    ASSUME Inv, [Next]_vars, NEW mb \in MailBoxes
    PROVE  \/ parent'[mb] = parent[mb]
           \/ parent'[mb] \in OutOfTree /\ parent[mb] # None
           \/ mb \notin used /\ mb \in used' /\ mb \in accounts' /\ parent'[mb] = Root
           \/ parent[mb] = Uncommitted
<1>t. /\ parent \in [Containers -> Containers \cup Specials] /\ mb \in Containers
      /\ mb \notin Folders \cup Messages \cup Parts
    BY DEF Inv, TypeOK, Containers, Users
<1>1. CASE \E x \in MailBoxes : CreateAccount(x)
    <2>1. PICK x \in MailBoxes : CreateAccount(x)
        BY <1>1
    <2>2. parent' = [parent EXCEPT ![x] = Root, ![SystemFolder[x]] = x] /\ mb # SystemFolder[x]
        BY <1>t, <2>1 DEF CreateAccount
    <2>3. CASE mb = x
        <3>1. parent'[mb] = Root
            BY <1>t, <2>2, <2>3
        <3>2. mb \notin used /\ mb \in used' /\ mb \in accounts'
            BY <2>1, <2>3 DEF CreateAccount
        <3>. QED BY <3>1, <3>2
    <2>4. CASE mb # x
        BY <1>t, <2>2, <2>4
    <2>. QED BY <2>3, <2>4
<1>2. CASE \E x \in MailBoxes : DeleteAccount(x)
    <2>1. PICK x \in MailBoxes : DeleteAccount(x)
        BY <1>2
    <2>2. parent' = [parent EXCEPT ![x] = ToBeDeleted] /\ parent[x] # None
        BY <2>1, LiveIsRow DEF DeleteAccount, MoveL, Rows
    <2>. QED BY <1>t, <2>2 DEF OutOfTree
<1>3. CASE \/ \E m \in Messages, f \in Folders, u \in BOOLEAN : CreateMessage(m, f, u)
           \/ \E m \in Messages : \/ CommitMessage(m)
                                  \/ LoseDraft(m)
                                  \/ AbandonMessage(m)
                                  \/ UpdateProperties(m)
    BY <1>3, <1>t DEF CreateMessage, CommitMessage, LoseDraft, AbandonMessage,
                      UpdateProperties, MoveL
<1>4. CASE \E m \in Messages, ps \in SUBSET Parts : CommitBufferedMessage(m, ps)
    BY <1>4, <1>t DEF CommitBufferedMessage
<1>5. CASE \/ \E c \in Folders \cup Parts, p \in Users :
                  CreateAndCommit(c, p) \/ CreateAndCommitFails(c, p)
           \/ \E c \in Folders \cup Messages \cup Parts : DeleteContainer(c)
           \/ \E c \in Folders \cup Messages, to \in MailBoxes \cup Folders :
                  MoveContainer(c, to)
    BY <1>5, <1>t DEF CreateAndCommit, CreateAndCommitFails, DeleteContainer, MoveContainer,
                      MoveL
<1>6. ASSUME NEW m \in Messages, NEW n \in Messages, NEW f \in Folders,
             NEW g \in [ChildrenOf(m) -> Parts],
             CopyMessage(m, f, n, g) \/ CopyMessageFails(m, f, n, g)
      PROVE  parent'[mb] = parent[mb]
    <2>1. PICK to : Copied(m, n, g, to)
        BY <1>6 DEF CopyMessage, CopyMessageFails
    <2>2. mb \notin {g[p] : p \in DOMAIN g} /\ mb # n
        BY <1>t
    <2>. QED BY <1>t, <2>1, <2>2 DEF Copied
<1>7. CASE \/ \E c \in WithContent : OpenContent(c) \/ CloseContent(c)
           \/ \E c \in Users : DeleteFails(c)
           \/ RetryDeleteDone \/ DeleteFromSortingTable \/ DeleteDone
           \/ UNCHANGED vars
    BY <1>7 DEF OpenContent, CloseContent, DeleteFails, RetryDeleteDone,
                DeleteFromSortingTable, DeleteDone, vars, rows
<1>8. ASSUME NEW x \in Users, DeleteIndividualContainer(x)
      PROVE  \/ parent'[mb] = parent[mb]
             \/ parent'[mb] \in OutOfTree /\ parent[mb] # None
    <2>1. parent[x] # None
        BY <1>8 DEF DeleteIndividualContainer, Candidates
    <2>2. PICK to \in {ToRetryDelete, None} : parent' = [parent EXCEPT ![x] = to]
        BY <1>8 DEF DeleteIndividualContainer
    <2>. QED BY <1>t, <2>1, <2>2 DEF OutOfTree
<1>9. CASE Restart
    BY <1>9, <1>t DEF Restart
<1>. QED BY <1>1, <1>2, <1>3, <1>4, <1>5, <1>6, <1>7, <1>8, <1>9 DEF Next, DeleteHandler

\* Ids stay used, those of folders and messages after those of their mailbox.
LEMMA OwnersUsedStep ==
    ASSUME Inv, OwnersUsed, [Next]_vars
    PROVE  used \subseteq used' /\ OwnersUsed'
<1>1. ASSUME NEW mb \in MailBoxes, CreateAccount(mb) PROVE used \subseteq used' /\ OwnersUsed'
    <2>1. used' = used \cup {mb, SystemFolder[mb]} /\ accounts' = accounts \cup {mb}
        BY <1>1 DEF CreateAccount
    <2>. QED BY <2>1 DEF OwnersUsed
<1>2. ASSUME NEW m \in Messages, NEW f \in Folders, NEW u \in BOOLEAN, CreateMessage(m, f, u)
      PROVE  used \subseteq used' /\ OwnersUsed'
    <2>1. used' = used \cup {m} /\ accounts' = accounts /\ Owner[f] = Owner[m] /\ f \in used
        BY <1>2 DEF CreateMessage, Known
    <2>. QED BY <2>1 DEF OwnersUsed
<1>3. ASSUME NEW m \in Messages, NEW ps \in SUBSET Parts, CommitBufferedMessage(m, ps)
      PROVE  used \subseteq used' /\ OwnersUsed'
    <2>1. used' = used \cup ps /\ accounts' = accounts
        BY <1>3 DEF CommitBufferedMessage
    <2>. QED BY <2>1 DEF OwnersUsed
<1>4. ASSUME NEW x \in Folders \cup Parts, NEW p \in Users,
             CreateAndCommit(x, p) \/ CreateAndCommitFails(x, p)
      PROVE  used \subseteq used' /\ OwnersUsed'
    <2>1. /\ used' = used \cup {x} /\ accounts' = accounts /\ p \in used
          /\ x \in Folders => p \in MailBoxes \cup Folders /\ MailBoxOf(p) = Owner[x]
        BY <1>4 DEF CreateAndCommit, CreateAndCommitFails, Known
    <2>2. ASSUME x \in Folders PROVE Owner[x] \in used
        <3>1. CASE p \in MailBoxes
            BY <2>1, <2>2, <3>1 DEF MailBoxOf
        <3>2. CASE p \in Folders
            <4>1. MailBoxOf(p) = Owner[p]
                BY <3>2 DEF MailBoxOf
            <4>. QED BY <2>1, <2>2, <3>2, <4>1 DEF OwnersUsed
        <3>. QED BY <2>1, <2>2, <3>1, <3>2
    <2>. QED BY <2>1, <2>2 DEF OwnersUsed
<1>5. ASSUME NEW m \in Messages, NEW n \in Messages, NEW f \in Folders,
             NEW g \in [ChildrenOf(m) -> Parts],
             CopyMessage(m, f, n, g) \/ CopyMessageFails(m, f, n, g)
      PROVE  used \subseteq used' /\ OwnersUsed'
    <2>1. PICK to : Copied(m, n, g, to)
        BY <1>5 DEF CopyMessage, CopyMessageFails
    <2>2. PICK Q \in SUBSET Parts : used' = used \cup {n} \cup Q
        <3>1. {g[p] : p \in DOMAIN g} \in SUBSET Parts
            OBVIOUS
        <3>2. used' = used \cup {n} \cup {g[p] : p \in DOMAIN g}
            BY <2>1 DEF Copied
        <3>. QED BY <3>1, <3>2
    <2>3. accounts' = accounts /\ f \in used /\ Owner[f] = Owner[n]
        BY <1>5 DEF CopyMessage, CopyMessageFails, Copyable, Known
    <2>. QED BY <2>2, <2>3 DEF OwnersUsed
<1>6. CASE used' = used /\ accounts' \subseteq accounts
    BY <1>6 DEF OwnersUsed
<1>7. CASE \/ \E mb \in MailBoxes : DeleteAccount(mb)
           \/ \E m \in Messages : \/ CommitMessage(m)
                                  \/ LoseDraft(m)
                                  \/ AbandonMessage(m)
                                  \/ UpdateProperties(m)
           \/ \E c \in Folders \cup Messages \cup Parts : DeleteContainer(c)
           \/ \E c \in Folders \cup Messages, to \in MailBoxes \cup Folders :
                  MoveContainer(c, to)
    BY <1>6, <1>7 DEF DeleteAccount, CommitMessage, LoseDraft, AbandonMessage,
                      UpdateProperties, DeleteContainer, MoveContainer
<1>8. CASE \/ \E c \in WithContent : OpenContent(c) \/ CloseContent(c)
           \/ \E c \in Users : DeleteFails(c)
           \/ DeleteHandler \/ Restart \/ UNCHANGED vars
    BY <1>6, <1>8 DEF OpenContent, CloseContent, DeleteFails, DeleteHandler, Restart,
           DeleteIndividualContainer, RetryDeleteDone, DeleteFromSortingTable, DeleteDone, vars
<1>. QED BY <1>1, <1>2, <1>3, <1>4, <1>5, <1>7, <1>8 DEF Next

\* A message begins to be under creation with an id that is new.
LEMMA DraftStep ==
    ASSUME Inv, [Next]_vars, NEW m \in Messages, draft'[m] # None
    PROVE  \/ draft'[m] = draft[m]
           \/ /\ m \notin used
              /\ Given(draft'[m]) /\ Owner[draft'[m]] = Owner[m]
<1>t. draft \in [Messages -> Folders \cup {None}]
    BY DEF Inv, TypeOK
<1>1. ASSUME NEW x \in Messages, NEW f \in Folders, NEW u \in BOOLEAN, CreateMessage(x, f, u)
      PROVE  \/ draft'[m] = draft[m]
             \/ /\ m \notin used
                /\ Given(draft'[m]) /\ Owner[draft'[m]] = Owner[m]
    <2>1. x \notin used /\ Given(f) /\ Owner[f] = Owner[x] /\ draft' = [draft EXCEPT ![x] = f]
        BY <1>1, KnownGiven DEF CreateMessage
    <2>. QED BY <1>t, <2>1
<1>2. CASE draft' = draft
    BY <1>2
<1>3. CASE \E x \in Messages : draft' = [draft EXCEPT ![x] = None]
    BY <1>3, <1>t
<1>4. CASE Restart
    BY <1>4 DEF Restart
<1>5. CASE \/ \E x \in Messages : \/ CommitMessage(x)
                                  \/ LoseDraft(x)
                                  \/ AbandonMessage(x)
                                  \/ UpdateProperties(x)
           \/ \E x \in Messages, ps \in SUBSET Parts : CommitBufferedMessage(x, ps)
    BY <1>2, <1>3, <1>5 DEF CommitMessage, LoseDraft, AbandonMessage, UpdateProperties,
                            CommitBufferedMessage
<1>6. CASE \/ \E mb \in MailBoxes : CreateAccount(mb) \/ DeleteAccount(mb)
           \/ \E c \in Folders \cup Parts, p \in Users :
                  CreateAndCommit(c, p) \/ CreateAndCommitFails(c, p)
           \/ \E c \in Folders \cup Messages \cup Parts : DeleteContainer(c)
           \/ \E c \in Folders \cup Messages, to \in MailBoxes \cup Folders :
                  MoveContainer(c, to)
           \/ \E x, n \in Messages, f \in Folders :
                  \E g \in [ChildrenOf(x) -> Parts] :
                      CopyMessage(x, f, n, g) \/ CopyMessageFails(x, f, n, g)
    BY <1>2, <1>6 DEF CreateAccount, DeleteAccount, CreateAndCommit, CreateAndCommitFails,
                      DeleteContainer, MoveContainer, CopyMessage, CopyMessageFails
<1>7. CASE \/ \E c \in WithContent : OpenContent(c) \/ CloseContent(c)
           \/ \E c \in Users : DeleteFails(c)
           \/ DeleteHandler \/ UNCHANGED vars
    BY <1>2, <1>7 DEF OpenContent, CloseContent, DeleteFails, DeleteHandler,
           DeleteIndividualContainer, RetryDeleteDone, DeleteFromSortingTable, DeleteDone, vars
<1>. QED BY <1>1, <1>4, <1>5, <1>6, <1>7 DEF Next

\* The shape of the tree, with what it needs.
TreeInv ==
    /\ OwnersUsed /\ DraftShape /\ TreeShape
    /\ \A mb \in MailBoxes : parent[mb] # Uncommitted

\* A folder or mailbox that was handed out never gets a row again and never comes back
\* to wait for its commit.
LEMMA OldIds ==
    ASSUME Inv, TreeInv, [Next]_vars, NEW c \in Folders \cup MailBoxes, c \in used
    PROVE  /\ c \in used'
           /\ parent[c] = None => parent'[c] = None
           /\ parent[c] # Uncommitted => parent'[c] # Uncommitted
<1>1. c \in used'
    BY OwnersUsedStep DEF TreeInv
<1>2. CASE c \in MailBoxes
    <2>1. parent'[c] = parent[c] \/ (parent'[c] \in OutOfTree /\ parent[c] # None)
        BY <1>2, MailBoxStep DEF TreeInv
    <2>. QED BY <1>1, <2>1 DEF OutOfTree
<1>3. CASE c \in Folders
    <2>1. c \notin Messages /\ Owner[c] # Uncommitted /\ Uncommitted \notin Folders
        BY <1>3 DEF Specials, Containers, Users
    <2>2. PlaceKinds(c)
        BY <1>3, PlacingStep DEF TreeInv
    <2>. QED BY <1>1, <2>1, <2>2 DEF PlaceKinds, Placed, OutOfTree
<1>. QED BY <1>2, <1>3

LEMMA GivenStays ==
    ASSUME Inv, TreeInv, [Next]_vars, NEW c \in Folders \cup MailBoxes, Given(c)
    PROVE  Given(c)'
BY OldIds DEF Given

\* What is gone stays gone.
LEMMA GoneStays ==
    ASSUME Inv, TreeInv, [Next]_vars, NEW c \in Folders \cup MailBoxes, c \in used, ~Live(c)
    PROVE  ~Live(c)'
<1>1. CASE c \in Rows
    BY <1>1, StepResurrectsNothing
<1>2. CASE c \notin Rows
    <2>1. parent'[c] = None
        BY <1>2, OldIds DEF Rows, Containers, Users
    <2>. QED BY <2>1, LiveByClosedPrime DEF Closed, IsRow
<1>. QED BY <1>1, <1>2

LEMMA TreeInvStep ==
    ASSUME Inv, TreeInv, [Next]_vars PROVE TreeInv'
<1>1. used \subseteq used' /\ OwnersUsed'
    BY OwnersUsedStep DEF TreeInv
<1>d. draft \in [Messages -> Folders \cup {None}]
    BY DEF Inv, TypeOK
<1>2. ASSUME NEW m \in Drafts' PROVE Given(draft[m])' /\ Owner[draft'[m]] = Owner[m]
    <2>1. m \in Messages /\ draft'[m] # None
        BY <1>2 DEF Drafts
    <2>2. Given(draft'[m]) /\ Owner[draft'[m]] = Owner[m]
        <3>1. CASE draft'[m] = draft[m]
            BY <2>1, <3>1 DEF TreeInv, DraftShape, Drafts
        <3>. QED BY <2>1, <3>1, DraftStep
    <2>3. draft'[m] \in Folders
        <3>1. TypeOK'
            BY TypeStep DEF Inv
        <3>. QED BY <2>1, <3>1 DEF TypeOK
    <2>4. draft'[m] \in used' /\ parent'[draft'[m]] # Uncommitted
        BY <2>2, <2>3, OldIds DEF Given
    <2>. QED BY <2>2, <2>4 DEF Given
<1>3. DraftShape'
    BY <1>2 DEF DraftShape, Given
<1>4. ASSUME NEW c \in Folders \cup Messages
      PROVE  \/ parent'[c] \in {None, Uncommitted, ToBeDeleted, ToRetryDelete}
             \/ c \in Folders /\ parent'[c] = Owner[c]
             \/ /\ parent'[c] \in Folders /\ Given(parent'[c])
                /\ Owner[parent'[c]] = Owner[c]
    <2>1. PlaceKinds(c)
        BY PlacingStep DEF TreeInv
    <2>2. CASE parent'[c] = parent[c]
        BY <2>2 DEF TreeInv, TreeShape
    <2>. QED BY <2>1, <2>2 DEF PlaceKinds, Placed, OutOfTree
<1>5. ASSUME NEW c, c \in Folders, Given(c) PROVE Given(c)'
    BY <1>5, GivenStays
<1>6. TreeShape'
    BY <1>4, <1>5 DEF TreeShape, Given
<1>7. \A mb \in MailBoxes : parent'[mb] # Uncommitted
    BY MailBoxStep DEF TreeInv, OutOfTree, Containers, Specials
<1>. QED BY <1>1, <1>3, <1>6, <1>7 DEF TreeInv

-----------------------------------------------------------------------------
(* The sorting table.                                                          *)

\* What is marked for deletion in the sorting table.
Marks == {marked[i] : i \in DOMAIN marked}

\* A message that is not committed has no row in the sorting table.
NotStored ==
    \A m \in Messages :
        m \notin used \/ parent[m] = Uncommitted \/ m \in Drafts => sorting[m] = None

\* A live message of an account has its row there, under its folder.
StoredLive ==
    \A m \in Messages :
        Live(m) /\ parent[m] # Uncommitted /\ Owner[m] \in accounts => sorting[m] = parent[m]

\* What is marked is deleted.
MarksGone == \A c \in Marks : c \in used /\ ~Live(c) /\ c \notin accounts

\* The rows of a deleted account are marked.
OwnerMarked ==
    \A m \in Messages : sorting[m] # None /\ Owner[m] \notin accounts => Owner[m] \in Marks

SortInv ==
    /\ TreeInv /\ NotStored /\ StoredLive /\ MarksGone /\ OwnerMarked
    /\ \A m \in Messages : sorting[m] # None => Given(sorting[m])

\* A message gets a row in the sorting table, or its row changes the folder.
Stores(m) ==
    /\ sorting' = [sorting EXCEPT ![m] = parent'[m]]
    /\ UNCHANGED <<marked, accounts>>
    /\ parent'[m] \in Folders /\ Given(parent'[m]) /\ m \in used' /\ draft'[m] = None
    /\ \/ sorting[m] = None /\ Owner[m] \in accounts
       \/ Live(m) /\ parent[m] # Uncommitted /\ sorting[m] # None

\* Something is deleted, with its account if it is a mailbox.
Forgets(c) ==
    /\ ForgetSorting(c)
    /\ Live(c) /\ c \in used
    /\ parent' = [parent EXCEPT ![c] = ToBeDeleted]
    /\ accounts' = accounts \ {c}

SortKinds ==
    \/ UNCHANGED <<sorting, marked, accounts>>
    \/ \E mb \in MailBoxes : CreateAccount(mb)
    \/ \E m \in Messages : Stores(m)
    \/ \E c \in Users : Forgets(c)
    \/ NextMarked /\ UNCHANGED <<accounts, parent, used>>

LEMMA SortStep ==
    ASSUME Inv, SortInv, [Next]_vars PROVE SortKinds
<1>t. /\ parent \in [Containers -> Containers \cup Specials] /\ Users \subseteq Containers
      /\ draft \in [Messages -> Folders \cup {None}] /\ sorting \in [Messages -> Folders \cup {None}]
      /\ Messages \subseteq Users
    BY DEF Inv, TypeOK, Containers, Users
<1>d. \A m \in Drafts : /\ draft[m] \in Folders /\ Given(draft[m]) /\ m \in used
                        /\ m \in Messages /\ sorting[m] = None
    BY <1>t DEF SortInv, TreeInv, DraftShape, Drafts, Inv, IdsUsed, NotStored
<1>0. ASSUME UNCHANGED <<sorting, marked, accounts>> PROVE SortKinds
    BY <1>0 DEF SortKinds
<1>1. ASSUME NEW mb \in MailBoxes, CreateAccount(mb) PROVE SortKinds
    BY <1>1 DEF SortKinds
<1>2. ASSUME NEW mb \in MailBoxes, DeleteAccount(mb) PROVE SortKinds
    <2>1. mb \in Users /\ Live(mb) /\ mb \in used
        BY <1>2, LiveIsRow DEF DeleteAccount, Users, Rows, Inv, IdsUsed
    <2>2. Forgets(mb)
        BY <1>2, <2>1 DEF DeleteAccount, MoveL, Forgets
    <2>. QED BY <2>1, <2>2 DEF SortKinds
<1>3. ASSUME NEW m \in Messages, NEW f \in Folders, NEW u \in BOOLEAN, CreateMessage(m, f, u)
      PROVE  SortKinds
    BY <1>0, <1>3 DEF CreateMessage
<1>4. ASSUME NEW m \in Messages, CommitMessage(m) PROVE SortKinds
    <2>1. /\ parent' = [parent EXCEPT ![m] = draft[m]] /\ m \in Drafts /\ used' = used
          /\ sorting' = [sorting EXCEPT ![m] = draft[m]] /\ Owner[m] \in accounts
          /\ UNCHANGED <<marked, accounts>> /\ draft' = [draft EXCEPT ![m] = None]
        BY <1>4 DEF CommitMessage, MoveL, UpdateTotals
    <2>2. parent'[m] = draft[m] /\ draft'[m] = None
        BY <1>t, <2>1
    <2>3. Stores(m)
        BY <1>d, <2>1, <2>2 DEF Stores
    <2>. QED BY <2>3 DEF SortKinds
<1>5. ASSUME NEW m \in Messages, LoseDraft(m) \/ AbandonMessage(m) \/ UpdateProperties(m)
      PROVE  SortKinds
    BY <1>0, <1>5 DEF LoseDraft, AbandonMessage, UpdateProperties
<1>6. ASSUME NEW m \in Messages, NEW ps \in SUBSET Parts, CommitBufferedMessage(m, ps)
      PROVE  SortKinds
    <2>1. /\ m \in Drafts /\ used \subseteq used'
          /\ sorting' = [sorting EXCEPT ![m] = draft[m]] /\ Owner[m] \in accounts
          /\ UNCHANGED <<marked, accounts>> /\ draft' = [draft EXCEPT ![m] = None]
          /\ parent' = [x \in Containers |-> IF x = m THEN draft[m] ELSE
                                             IF x \in ps THEN m ELSE parent[x]]
        BY <1>6 DEF CommitBufferedMessage, UpdateTotals
    <2>2. parent'[m] = draft[m] /\ draft'[m] = None
        BY <1>t, <2>1
    <2>3. Stores(m)
        BY <1>d, <2>1, <2>2 DEF Stores
    <2>. QED BY <2>3 DEF SortKinds
<1>7. ASSUME NEW c \in Folders \cup Parts, NEW p \in Users,
             CreateAndCommit(c, p) \/ CreateAndCommitFails(c, p)
      PROVE  SortKinds
    BY <1>0, <1>7 DEF CreateAndCommit, CreateAndCommitFails
<1>8. ASSUME NEW c \in Folders \cup Messages \cup Parts, DeleteContainer(c) PROVE SortKinds
    <2>1. c \in Users /\ c \in used /\ accounts \ {c} = accounts
        BY <1>8 DEF DeleteContainer, Known, Users, Inv, TypeOK
    <2>2. Forgets(c)
        BY <1>8, <2>1 DEF DeleteContainer, MoveL, Forgets
    <2>. QED BY <2>1, <2>2 DEF SortKinds
<1>9. ASSUME NEW c \in Folders \cup Messages, NEW to \in MailBoxes \cup Folders,
             MoveContainer(c, to)
      PROVE  SortKinds
    <2>1. CASE c \in Folders
        <3>1. c \notin Messages
            BY <2>1
        <3>. QED BY <1>0, <1>9, <3>1 DEF MoveContainer
    <2>2. CASE c \in Messages
        <3>1. /\ parent' = [parent EXCEPT ![c] = to] /\ used' = used /\ c \in used
              /\ sorting' = [sorting EXCEPT ![c] = to] /\ to \in Folders /\ sorting[c] # None
              /\ UNCHANGED <<marked, accounts, draft>> /\ Known(to)
              /\ Live(c) /\ parent[c] # Uncommitted
            BY <1>9, <2>2 DEF MoveContainer, MoveL, Known
        <3>2. parent'[c] = to /\ Given(to)
            BY <1>t, <2>2, <3>1, KnownGiven
        <3>3. draft[c] = None
            BY <1>d, <2>2, <3>1 DEF Drafts
        <3>4. Stores(c)
            BY <3>1, <3>2, <3>3 DEF Stores
        <3>. QED BY <2>2, <3>4 DEF SortKinds
    <2>. QED BY <2>1, <2>2
<1>10. ASSUME NEW m \in Messages, NEW n \in Messages, NEW f \in Folders,
              NEW g \in [ChildrenOf(m) -> Parts], CopyMessage(m, f, n, g)
       PROVE  SortKinds
    <2>1. Copied(m, n, g, f) /\ Copyable(m, f, n) /\ sorting' = [sorting EXCEPT ![n] = f]
          /\ UNCHANGED <<marked, accounts, draft>> /\ Owner[m] \in accounts
        BY <1>10 DEF CopyMessage, UpdateTotals
    <2>2. n \notin used /\ n \in used' /\ parent'[n] = f
        BY <1>t, <2>1 DEF Copied
    <2>3. Given(f) /\ Owner[n] \in accounts
        BY <2>1, KnownGiven DEF Copyable
    <2>4. draft[n] = None /\ sorting[n] = None
        BY <1>d, <2>2 DEF Drafts, SortInv, NotStored
    <2>5. Stores(n)
        BY <2>1, <2>2, <2>3, <2>4 DEF Stores
    <2>. QED BY <2>5 DEF SortKinds
<1>11. ASSUME NEW m \in Messages, NEW n \in Messages, NEW f \in Folders,
              NEW g \in [ChildrenOf(m) -> Parts], CopyMessageFails(m, f, n, g)
       PROVE  SortKinds
    BY <1>0, <1>11 DEF CopyMessageFails
<1>12. CASE \/ \E c \in WithContent : OpenContent(c) \/ CloseContent(c)
            \/ \E c \in Users : DeleteIndividualContainer(c)
            \/ RetryDeleteDone \/ DeleteDone \/ Restart \/ UNCHANGED vars
    BY <1>0, <1>12 DEF OpenContent, CloseContent, DeleteIndividualContainer,
                       RetryDeleteDone, DeleteDone, Restart, vars
<1>13. ASSUME NEW c \in Users, DeleteFails(c) PROVE SortKinds
    BY <1>13 DEF DeleteFails, SortKinds, rows
<1>14. CASE DeleteFromSortingTable
    BY <1>14 DEF DeleteFromSortingTable, SortKinds, rows
<1>. QED BY <1>1, <1>2, <1>3, <1>4, <1>5, <1>6, <1>7, <1>8, <1>9, <1>10, <1>11, <1>12,
            <1>13, <1>14
         DEF Next, DeleteHandler

\* What marking c and finishing with the first mark make of the marks.
LEMMA MarksAppended ==
    ASSUME TypeOK, NEW c, c \in Folders \cup MailBoxes, marked' = Append(marked, c)
    PROVE  Marks' = Marks \cup {c}
<1>1. marked \in Seq(Folders \cup MailBoxes) /\ Len(marked) \in Nat
    BY DEF TypeOK
<1>2. DOMAIN marked = 1..Len(marked) /\ DOMAIN marked' = 1..(Len(marked) + 1)
    BY <1>1
<1>3. \A i \in 1..Len(marked) : marked'[i] = marked[i]
    BY <1>1
<1>4. marked'[Len(marked) + 1] = c
    BY <1>1
<1>. QED BY <1>1, <1>2, <1>3, <1>4 DEF Marks

LEMMA MarksTail ==
    ASSUME TypeOK, marked # <<>>, marked' = Tail(marked)
    PROVE  Marks' \subseteq Marks /\ Marks \subseteq Marks' \cup {Head(marked)}
<1>1. marked \in Seq(Folders \cup MailBoxes) /\ Len(marked) \in Nat /\ Len(marked) > 0
    BY DEF TypeOK
<1>2. DOMAIN marked = 1..Len(marked) /\ DOMAIN marked' = 1..(Len(marked) - 1)
    BY <1>1
<1>3. \A i \in 1..(Len(marked) - 1) : marked'[i] = marked[i + 1]
    BY <1>1
<1>4. ASSUME NEW i \in 1..Len(marked) PROVE marked[i] \in Marks' \cup {Head(marked)}
    <2>1. CASE i = 1
        BY <1>1, <2>1
    <2>2. CASE i # 1
        <3>1. i - 1 \in 1..(Len(marked) - 1) /\ (i - 1) + 1 = i
            BY <1>1, <2>2
        <3>2. marked'[i - 1] = marked[i]
            BY <1>3, <3>1
        <3>. QED BY <1>2, <3>1, <3>2 DEF Marks
    <2>. QED BY <2>1, <2>2
<1>5. ASSUME NEW i \in 1..(Len(marked) - 1) PROVE marked'[i] \in Marks
    <2>1. i + 1 \in 1..Len(marked)
        BY <1>1
    <2>. QED BY <1>2, <1>3, <2>1 DEF Marks
<1>. QED BY <1>2, <1>4, <1>5 DEF Marks

\* The background deletion takes away a row whose mark is first, or the first mark, once it
\* has no row.
LEMMA MarkStep ==
    ASSUME TypeOK, NextMarked, NEW m \in Messages
    PROVE  /\ Marks' \subseteq Marks
           /\ sorting'[m] = sorting[m] \/
                  (sorting'[m] = None /\ sorting[m] # None
                       /\ \E c \in Marks : c = sorting[m] \/ c = Owner[m])
           /\ \A c \in Marks : sorting[m] # None /\ c \in {sorting[m], Owner[m]} => c \in Marks'
<1>t. sorting \in [Messages -> Folders \cup {None}] /\ marked \in Seq(Folders \cup MailBoxes)
      /\ None \notin Folders \cup MailBoxes
    BY DEF TypeOK, Specials, Containers, Users
<1>1. CASE UNCHANGED <<sorting, marked>>
    BY <1>1 DEF Marks
<1>h. ASSUME marked # <<>> PROVE Head(marked) \in Marks /\ Head(marked) \in Folders \cup MailBoxes
    <2>1. 1 \in DOMAIN marked /\ Head(marked) = marked[1]
        BY <1>h, <1>t
    <2>2. marked[1] \in Folders \cup MailBoxes
        BY <1>h, <1>t
    <2>. QED BY <2>1, <2>2 DEF Marks
<1>2. CASE /\ marked # <<>>
           /\ \E x \in RowsOfFirstMark : sorting' = [sorting EXCEPT ![x] = None]
           /\ UNCHANGED <<handler, marked>>
    <2>1. PICK x \in RowsOfFirstMark : sorting' = [sorting EXCEPT ![x] = None]
        BY <1>2
    <2>2. Marks' = Marks
        BY <1>2 DEF Marks
    <2>3. sorting'[m] = IF m = x THEN None ELSE sorting[m]
        BY <1>t, <2>1
    <2>4. /\ Head(marked) \in {sorting[x], Owner[x]} /\ sorting[x] # None
        BY <1>2, <1>h, <1>t, <2>1 DEF RowsOfFirstMark
    <2>. QED BY <1>2, <1>h, <2>2, <2>3, <2>4
<1>3. CASE /\ marked # <<>> /\ RowsOfFirstMark = {}
           /\ marked' = Tail(marked)
           /\ UNCHANGED sorting
    <2>1. Marks' \subseteq Marks /\ Marks \subseteq Marks' \cup {Head(marked)}
        BY <1>3, MarksTail
    <2>2. sorting[m] # None => Head(marked) \notin {sorting[m], Owner[m]}
        <3>1. Head(marked) \in Folders \cup MailBoxes
            BY <1>3, <1>h
        <3>2. Head(marked) \in Folders => Head(marked) # sorting[m] /\ Head(marked) # Owner[m]
            BY <1>3 DEF RowsOfFirstMark
        <3>3. Head(marked) \in MailBoxes /\ sorting[m] # None =>
                  Head(marked) # Owner[m] /\ Head(marked) # sorting[m]
            BY <1>3, <1>t DEF RowsOfFirstMark
        <3>. QED BY <3>1, <3>2, <3>3
    <2>. QED BY <1>3, <2>1, <2>2
<1>. QED BY <1>1, <1>2, <1>3 DEF NextMarked

\* A deletion takes the row of a message, or marks.
LEMMA ForgetStep ==
    ASSUME TypeOK, NEW c \in Users, Forgets(c), NEW m \in Messages
    PROVE  /\ Marks' = Marks \cup {x \in {c} : x \in Folders \cup MailBoxes}
           /\ sorting'[m] = IF m = c THEN None ELSE sorting[m]
<1>t. sorting \in [Messages -> Folders \cup {None}]
    BY DEF TypeOK
<1>1. CASE c \in Folders \cup MailBoxes
    <2>1. c \notin Messages /\ marked' = Append(marked, c) /\ sorting' = sorting
        BY <1>1 DEF Forgets, ForgetSorting
    <2>. QED BY <1>1, <2>1, MarksAppended
<1>2. CASE c \notin Folders \cup MailBoxes
    <2>1. Marks' = Marks
        BY <1>2 DEF Forgets, ForgetSorting, Marks
    <2>2. sorting'[m] = IF m = c THEN None ELSE sorting[m]
        BY <1>t DEF Forgets, ForgetSorting
    <2>. QED BY <1>2, <2>1, <2>2
<1>. QED BY <1>1, <1>2

\* A row that goes to a special parent is not live there.
LEMMA OutOfTreeDead ==
    ASSUME NEW c, parent'[c] \in OutOfTree PROVE ~Live(c)'
<1>1. SUFFICES ASSUME Live(c)' PROVE FALSE
    OBVIOUS
<1>2. PICK S \in SUBSET Containers : c \in S /\ Closed(S, Ends)'
    BY <1>1, LiveByClosedPrime
<1>3. parent'[c] \in S \cup Ends
    BY <1>2 DEF Closed
<1>. QED BY <1>2, <1>3 DEF Ends, OutOfTree, Specials

LEMMA ForgottenDead ==
    ASSUME TypeOK, NEW c \in Users, Forgets(c) PROVE ~Live(c)'
<1>1. parent'[c] = ToBeDeleted
    BY DEF Forgets, TypeOK, Containers
<1>. QED BY <1>1, OutOfTreeDead DEF OutOfTree

\* An account is new, or was there and is not the one of a deleted mailbox.
LEMMA AccountsStep ==
    ASSUME Inv, SortInv, [Next]_vars, NEW mb \in accounts'
    PROVE  mb \in accounts \/ mb \notin used
BY SortStep DEF SortKinds, CreateAccount, Stores, Forgets

LEMMA MarksGoneStep ==
    ASSUME Inv, SortInv, [Next]_vars PROVE MarksGone'
<1>. SUFFICES ASSUME NEW c \in Marks' PROVE c \in used' /\ ~Live(c)' /\ c \notin accounts'
    BY DEF MarksGone
<1>t. TypeOK /\ marked \in Seq(Folders \cup MailBoxes)
    BY DEF Inv, TypeOK
<1>1. CASE c \in Marks
    <2>1. c \in Folders \cup MailBoxes
        BY <1>1, <1>t DEF Marks
    <2>2. c \in used /\ ~Live(c) /\ c \notin accounts
        BY <1>1 DEF SortInv, MarksGone
    <2>3. c \in used' /\ ~Live(c)'
        BY <2>1, <2>2, OldIds, GoneStays DEF SortInv
    <2>4. c \notin accounts'
        BY <2>2, AccountsStep
    <2>. QED BY <2>3, <2>4
<1>2. ASSUME NEW x \in Users, Forgets(x), c \notin Marks PROVE c \in used' /\ ~Live(c)' /\ c \notin accounts'
    <2>1. Marks' = Marks \cup {y \in {x} : y \in Folders \cup MailBoxes} \/ Messages = {}
        BY <1>2, <1>t, ForgetStep
    <2>2. c = x
        <3>1. CASE x \in Folders \cup MailBoxes
            <4>1. marked' = Append(marked, x)
                BY <1>2, <3>1 DEF Forgets, ForgetSorting
            <4>2. Marks' = Marks \cup {x}
                BY <1>t, <3>1, <4>1, MarksAppended
            <4>. QED BY <1>2, <4>2
        <3>2. CASE x \notin Folders \cup MailBoxes
            <4>1. Marks' = Marks
                BY <1>2, <3>2 DEF Forgets, ForgetSorting, Marks
            <4>. QED BY <1>2, <4>1
        <3>. QED BY <3>1, <3>2
    <2>3. c \in used' /\ c \notin accounts'
        BY <1>2, <2>2, OwnersUsedStep DEF Forgets, SortInv, TreeInv
    <2>. QED BY <1>2, <1>t, <2>2, <2>3, ForgottenDead
<1>3. CASE marked' = marked
    BY <1>1, <1>3 DEF Marks
<1>4. CASE NextMarked
    <2>1. c \in Marks
        <3>1. CASE marked' = marked
            BY <3>1 DEF Marks
        <3>2. CASE marked # <<>> /\ marked' = Tail(marked)
            BY <1>t, <3>2, MarksTail
        <3>. QED BY <1>4, <3>1, <3>2 DEF NextMarked
    <2>. QED BY <1>1, <2>1
<1>. QED BY <1>1, <1>2, <1>3, <1>4, SortStep DEF SortKinds, CreateAccount, Stores

LEMMA OwnerMarkedStep ==
    ASSUME Inv, SortInv, [Next]_vars PROVE OwnerMarked'
<1>. SUFFICES ASSUME NEW m \in Messages, sorting'[m] # None, Owner[m] \notin accounts'
              PROVE  Owner[m] \in Marks'
    BY DEF OwnerMarked
<1>t. TypeOK /\ sorting \in [Messages -> Folders \cup {None}]
    BY DEF Inv, TypeOK
<1>i. sorting[m] # None /\ Owner[m] \notin accounts => Owner[m] \in Marks
    BY DEF SortInv, OwnerMarked
<1>1. CASE UNCHANGED <<sorting, marked, accounts>>
    BY <1>i, <1>1 DEF Marks
<1>2. ASSUME NEW mb \in MailBoxes, CreateAccount(mb) PROVE Owner[m] \in Marks'
    BY <1>i, <1>2 DEF CreateAccount, Marks
<1>3. ASSUME NEW x \in Messages, Stores(x) PROVE Owner[m] \in Marks'
    <2>1. Marks' = Marks /\ accounts' = accounts
        BY <1>3 DEF Stores, Marks
    <2>2. sorting[m] # None \/ Owner[m] \in accounts
        BY <1>3, <1>t DEF Stores
    <2>. QED BY <1>i, <2>1, <2>2
<1>4. ASSUME NEW c \in Users, Forgets(c) PROVE Owner[m] \in Marks'
    <2>1. sorting[m] # None /\ Marks \subseteq Marks'
        BY <1>4, <1>t, ForgetStep
    <2>2. c = Owner[m] => c \in Marks'
        BY <1>4, <1>t, ForgetStep
    <2>3. Owner[m] \in accounts => c = Owner[m]
        BY <1>4 DEF Forgets
    <2>. QED BY <1>i, <2>1, <2>2, <2>3
<1>5. CASE NextMarked /\ UNCHANGED <<accounts, parent, used>>
    <2>1. sorting[m] # None
        BY <1>5, <1>t, MarkStep
    <2>2. Owner[m] \in Marks
        BY <1>i, <1>5, <2>1
    <2>. QED BY <1>5, <1>t, <2>1, <2>2, MarkStep
<1>. QED BY <1>1, <1>2, <1>3, <1>4, <1>5, SortStep DEF SortKinds

LEMMA NotStoredStep ==
    ASSUME Inv, SortInv, [Next]_vars PROVE NotStored'
<1>. SUFFICES ASSUME NEW m \in Messages,
                     m \notin used' \/ parent'[m] = Uncommitted \/ m \in Drafts'
              PROVE  sorting'[m] = None
    BY DEF NotStored
<1>t. /\ TypeOK /\ sorting \in [Messages -> Folders \cup {None}]
      /\ Uncommitted \notin Folders /\ Uncommitted \notin OutOfTree
      /\ m \notin Folders
    BY DEF Inv, TypeOK, Specials, Containers, Users, OutOfTree
<1>1. m \notin used \/ parent[m] = Uncommitted \/ m \in Drafts
    <2>1. CASE m \notin used'
        BY <2>1, OwnersUsedStep DEF SortInv, TreeInv
    <2>2. CASE parent'[m] = Uncommitted
        BY <1>t, <2>2, PlacingStep DEF SortInv, TreeInv, PlaceKinds, Placed
    <2>3. CASE m \in Drafts'
        BY <2>3, DraftStep DEF Drafts
    <2>. QED BY <2>1, <2>2, <2>3
<1>2. sorting[m] = None
    BY <1>1 DEF SortInv, NotStored
<1>3. ASSUME NEW x \in Messages, Stores(x) PROVE sorting'[m] = None
    <2>1. m # x
        BY <1>3, <1>t DEF Stores, Drafts
    <2>. QED BY <1>2, <1>3, <1>t, <2>1 DEF Stores
<1>4. ASSUME NEW c \in Users, Forgets(c) PROVE sorting'[m] = None
    BY <1>2, <1>4, <1>t, ForgetStep
<1>5. CASE NextMarked /\ UNCHANGED <<accounts, parent, used>>
    BY <1>2, <1>5, <1>t, MarkStep
<1>. QED BY <1>2, <1>3, <1>4, <1>5, SortStep DEF SortKinds, CreateAccount

LEMMA StoredLiveStep ==
    ASSUME Inv, SortInv, [Next]_vars PROVE StoredLive'
<1>. SUFFICES ASSUME NEW m \in Messages, Live(m)', parent'[m] # Uncommitted, Owner[m] \in accounts'
              PROVE  sorting'[m] = parent'[m]
    BY DEF StoredLive
<1>t. /\ TypeOK /\ sorting \in [Messages -> Folders \cup {None}] /\ m \in Containers
      /\ m \notin Folders /\ m \in Users
    BY DEF Inv, TypeOK, Containers, Users
<1>1. parent'[m] # None /\ parent'[m] \notin OutOfTree
    <2>1. parent'[m] \notin OutOfTree
        BY OutOfTreeDead
    <2>. QED BY <2>1 DEF OutOfTree
<1>2. CASE Placed(m)
    BY <1>2 DEF Placed
<1>3. CASE parent'[m] = parent[m]
    <2>1. m \in Rows /\ m \in used
        BY <1>1, <1>3, <1>t DEF Rows, Inv, IdsUsed
    <2>2. Live(m) /\ parent[m] # Uncommitted
        BY <1>3, <2>1, StepResurrectsNothing
    <2>3. Owner[m] \in accounts
        BY <2>1, AccountsStep DEF SortInv, TreeInv, OwnersUsed
    <2>4. sorting[m] = parent[m]
        BY <2>2, <2>3 DEF SortInv, StoredLive
    <2>5. ASSUME NEW x \in Messages, Stores(x) PROVE sorting'[m] = parent'[m]
        BY <1>3, <1>t, <2>4, <2>5 DEF Stores
    <2>6. ASSUME NEW c \in Users, Forgets(c) PROVE sorting'[m] = parent'[m]
        <3>1. m # c
            BY <2>6, <1>t, ForgottenDead
        <3>. QED BY <1>3, <1>t, <2>4, <2>6, <3>1, ForgetStep
    <2>7. CASE NextMarked /\ UNCHANGED <<accounts, parent, used>>
        <3>1. ASSUME NEW c \in Marks, c = sorting[m] \/ c = Owner[m], sorting[m] # None PROVE FALSE
            <4>1. ~Live(c) /\ c \notin accounts
                BY <3>1 DEF SortInv, MarksGone
            <4>2. c = parent[m] /\ parent[m] \in Folders
                BY <2>3, <2>4, <3>1, <4>1, <1>t
            <4>. QED BY <2>2, <4>1, <4>2, LiveParent DEF Containers, Users
        <3>2. sorting'[m] = sorting[m]
            BY <1>t, <2>7, <3>1, MarkStep
        <3>. QED BY <1>3, <2>4, <3>2
    <2>. QED BY <1>3, <2>4, <2>5, <2>6, <2>7, SortStep DEF SortKinds, CreateAccount
<1>. QED BY <1>1, <1>2, <1>3, <1>t, PlacingStep DEF SortInv, TreeInv, PlaceKinds

LEMMA SortGivenStep ==
    ASSUME Inv, SortInv, [Next]_vars, NEW m \in Messages, sorting'[m] # None
    PROVE  Given(sorting[m])'
<1>t. TypeOK /\ sorting \in [Messages -> Folders \cup {None}]
    BY DEF Inv, TypeOK
<1>1. sorting'[m] \in Folders /\ Given(sorting'[m])
    <2>1. ASSUME sorting'[m] = sorting[m] PROVE sorting'[m] \in Folders /\ Given(sorting'[m])
        BY <1>t, <2>1 DEF SortInv
    <2>2. ASSUME NEW x \in Messages, Stores(x) PROVE sorting'[m] \in Folders /\ Given(sorting'[m])
        <3>1. CASE m = x
            BY <1>t, <2>2, <3>1 DEF Stores
        <3>2. CASE m # x
            BY <1>t, <2>1, <2>2, <3>2 DEF Stores
        <3>. QED BY <3>1, <3>2
    <2>3. ASSUME NEW c \in Users, Forgets(c) PROVE sorting'[m] = sorting[m]
        BY <1>t, <2>3, ForgetStep
    <2>4. CASE NextMarked /\ UNCHANGED <<accounts, parent, used>>
        BY <1>t, <2>1, <2>4, MarkStep
    <2>. QED BY <2>1, <2>2, <2>3, <2>4, SortStep DEF SortKinds, CreateAccount
<1>2. sorting'[m] \in used' /\ parent'[sorting'[m]] # Uncommitted
    BY <1>1, OldIds DEF Given, SortInv
<1>. QED BY <1>2 DEF Given

LEMMA SortInvStep ==
    ASSUME Inv, SortInv, [Next]_vars PROVE SortInv'
<1>1. TreeInv'
    BY TreeInvStep DEF SortInv
<1>2. \A m \in Messages : sorting'[m] # None => Given(sorting[m])'
    BY SortGivenStep
<1>. QED BY <1>1, <1>2, MarksGoneStep, OwnerMarkedStep, NotStoredStep, StoredLiveStep DEF SortInv

LEMMA SortInductive == Spec => []SortInv
<1>1. Init => SortInv
    <2>. SUFFICES ASSUME Init PROVE SortInv
        OBVIOUS
    <2>1. Drafts = {} /\ Marks = {}
        BY DEF Init, Drafts, Marks
    <2>2. TreeInv
        BY <2>1 DEF Init, TreeInv, OwnersUsed, DraftShape, TreeShape, Containers, Users
    <2>. QED BY <2>1, <2>2
             DEF Init, SortInv, NotStored, StoredLive, MarksGone, OwnerMarked
<1>2. Inv /\ SortInv /\ [Next]_vars => SortInv'
    BY SortInvStep
<1>. QED BY <1>1, <1>2, Inductive, PTL DEF Spec

\* A live row that is moved below a live one stays live.
LEMMA MovedStaysLive ==
    ASSUME TypeOK, NEW c \in Containers, NEW to \in Containers, Live(to),
           parent' = [parent EXCEPT ![c] = to]
    PROVE  Live(c)'
<1>1. PICK S \in SUBSET Containers : to \in S /\ Closed(S, Ends)
    BY LiveByClosed
<1>2. to # None /\ DOMAIN parent = Containers
    BY DEF TypeOK, Specials
<1>3. ASSUME NEW y \in S \cup {c} PROVE IsRow(y)' /\ parent'[y] \in (S \cup {c}) \cup Ends
    <2>1. CASE y = c
        BY <1>1, <1>2, <2>1 DEF IsRow
    <2>2. CASE y # c
        BY <1>1, <1>2, <1>3, <2>2 DEF Closed, IsRow
    <2>. QED BY <2>1, <2>2
<1>4. Closed(S \cup {c}, Ends)'
    BY <1>3 DEF Closed, IsRow
<1>5. c \in S \cup {c} /\ S \cup {c} \in SUBSET Containers
    OBVIOUS
<1>. QED BY <1>4, <1>5, LiveByClosedPrime

\* A committed row that dies by a change of its own parent is deleted by a request.
LEMMA DyingStep ==
    ASSUME Inv, SortInv, StackDead, [Next]_vars, NEW c \in MailBoxes \cup Folders \cup Messages,
           Live(c), ~Live(c)', parent'[c] # parent[c], parent[c] # Uncommitted
    PROVE  Forgets(c)
<1>t. /\ parent \in [Containers -> Containers \cup Specials] /\ c \in Containers /\ c \in Users
      /\ TypeOK
    BY DEF Inv, TypeOK, Containers, Users
<1>r. c \in used /\ parent[c] # None
    BY <1>t, LiveIsRow DEF Rows, Inv, IdsUsed
<1>0. ASSUME parent' = parent PROVE FALSE
    BY <1>0
<1>1. ASSUME NEW mb \in MailBoxes, CreateAccount(mb) PROVE FALSE
    BY <1>1, <1>r, <1>t DEF CreateAccount
<1>2. ASSUME NEW mb \in MailBoxes, DeleteAccount(mb) PROVE Forgets(c)
    <2>1. parent' = [parent EXCEPT ![mb] = ToBeDeleted]
        BY <1>2 DEF DeleteAccount, MoveL
    <2>2. mb = c
        BY <1>t, <2>1
    <2>. QED BY <1>2, <1>r, <2>1, <2>2 DEF DeleteAccount, Forgets
<1>3. ASSUME NEW m \in Messages, NEW f \in Folders, NEW u \in BOOLEAN, CreateMessage(m, f, u)
      PROVE  FALSE
    BY <1>3, <1>r, <1>t DEF CreateMessage
<1>4. ASSUME NEW m \in Messages, CommitMessage(m) \/ AbandonMessage(m) PROVE FALSE
    BY <1>4, <1>t DEF CommitMessage, AbandonMessage, MoveL
<1>5. ASSUME NEW m \in Messages, LoseDraft(m) \/ UpdateProperties(m) PROVE FALSE
    BY <1>0, <1>5 DEF LoseDraft, UpdateProperties
<1>6. ASSUME NEW m \in Messages, NEW ps \in SUBSET Parts, CommitBufferedMessage(m, ps)
      PROVE  FALSE
    <2>1. parent[m] = None
        BY <1>6 DEF CommitBufferedMessage, Inv, IdsUsed
    <2>. QED BY <1>6, <1>r, <1>t, <2>1 DEF CommitBufferedMessage
<1>7. ASSUME NEW x \in Folders \cup Parts, NEW p \in Users,
             CreateAndCommit(x, p) \/ CreateAndCommitFails(x, p)
      PROVE  FALSE
    BY <1>7, <1>r, <1>t DEF CreateAndCommit, CreateAndCommitFails
<1>8. ASSUME NEW x \in Folders \cup Messages \cup Parts, DeleteContainer(x) PROVE Forgets(c)
    <2>1. parent' = [parent EXCEPT ![x] = ToBeDeleted] /\ accounts' = accounts /\ x \notin accounts
        BY <1>8 DEF DeleteContainer, MoveL, Inv, TypeOK
    <2>2. x = c
        BY <1>t, <2>1
    <2>3. accounts' = accounts \ {c}
        BY <2>1, <2>2
    <2>. QED BY <1>8, <1>r, <2>1, <2>2, <2>3 DEF DeleteContainer, Forgets
<1>9. ASSUME NEW x \in Folders \cup Messages, NEW to \in MailBoxes \cup Folders,
             MoveContainer(x, to)
      PROVE  FALSE
    <2>1. parent' = [parent EXCEPT ![x] = to] /\ Live(to) /\ to \in Containers
        BY <1>9 DEF MoveContainer, MoveL, Containers, Users
    <2>2. x = c
        BY <1>t, <2>1
    <2>. QED BY <1>t, <2>1, <2>2, MovedStaysLive
<1>10. ASSUME NEW m \in Messages, NEW n \in Messages, NEW f \in Folders,
              NEW g \in [ChildrenOf(m) -> Parts],
              CopyMessage(m, f, n, g) \/ CopyMessageFails(m, f, n, g)
       PROVE  FALSE
    <2>1. PICK to : Copied(m, n, g, to)
        BY <1>10 DEF CopyMessage, CopyMessageFails
    <2>2. c # n /\ c \notin {g[p] : p \in DOMAIN g}
        BY <1>r, <2>1 DEF Copied
    <2>. QED BY <1>t, <2>1, <2>2 DEF Copied
<1>11. CASE \/ \E x \in WithContent : OpenContent(x) \/ CloseContent(x)
            \/ \E x \in Users : DeleteFails(x)
            \/ RetryDeleteDone \/ DeleteDone \/ DeleteFromSortingTable
            \/ UNCHANGED vars
    BY <1>0, <1>11 DEF OpenContent, CloseContent, DeleteFails, RetryDeleteDone, DeleteDone,
                       DeleteFromSortingTable, vars, rows
<1>12. ASSUME NEW x \in Users, DeleteIndividualContainer(x) PROVE FALSE
    <2>1. ~Live(x)
        BY <1>12, CandidateDead DEF DeleteIndividualContainer
    <2>2. PICK to \in {ToRetryDelete, None} : parent' = [parent EXCEPT ![x] = to]
        BY <1>12 DEF DeleteIndividualContainer
    <2>. QED BY <1>t, <2>1, <2>2
<1>13. ASSUME Restart PROVE FALSE
    BY <1>13, <1>t DEF Restart
<1>. QED BY <1>1, <1>2, <1>3, <1>4, <1>5, <1>6, <1>7, <1>8, <1>9, <1>10, <1>11, <1>12,
            <1>13
         DEF Next, DeleteHandler

LEMMA AwaitingMarks ==
    ASSUME NEW m PROVE Awaiting(m) <=> \E c \in Marks : c \in {sorting[m], Owner[m]}
BY DEF Awaiting, Marks

LEMMA AwaitingMarksPrime ==
    ASSUME NEW m PROVE Awaiting(m)' <=> \E c \in Marks' : c \in {sorting'[m], Owner[m]}
BY DEF Awaiting, Marks

\* A row that waits for its deletion goes on waiting.
LEMMA StillAwaiting ==
    ASSUME Inv, SortInv, [Next]_vars, NEW m \in Messages,
           sorting[m] # None, sorting'[m] # None, NEW c \in Marks, c \in {sorting[m], Owner[m]}
    PROVE  \E d \in Marks' : d \in {sorting'[m], Owner[m]}
<1>t. TypeOK /\ sorting \in [Messages -> Folders \cup {None}]
    BY DEF Inv, TypeOK
<1>1. CASE marked' = marked /\ sorting' = sorting
    BY <1>1 DEF Marks
<1>2. ASSUME NEW x \in Messages, Stores(x) PROVE \E d \in Marks' : d \in {sorting'[m], Owner[m]}
    <2>1. Marks' = Marks
        BY <1>2 DEF Stores, Marks
    <2>2. CASE m # x
        BY <1>2, <1>t, <2>1, <2>2 DEF Stores
    <2>3. CASE m = x
        <3>1. Live(m) /\ parent[m] # Uncommitted
            BY <1>2, <2>3 DEF Stores
        <3>2. CASE Owner[m] \in accounts
            <4>1. sorting[m] = parent[m] /\ sorting[m] \in Folders
                BY <1>t, <3>1, <3>2 DEF SortInv, StoredLive
            <4>2. Live(sorting[m])
                BY <3>1, <4>1, LiveParent DEF Containers, Users
            <4>. QED BY <3>2, <4>2 DEF SortInv, MarksGone
        <3>3. CASE Owner[m] \notin accounts
            BY <2>1, <3>3 DEF SortInv, OwnerMarked
        <3>. QED BY <3>2, <3>3
    <2>. QED BY <2>2, <2>3
<1>3. ASSUME NEW x \in Users, Forgets(x) PROVE \E d \in Marks' : d \in {sorting'[m], Owner[m]}
    BY <1>3, <1>t, ForgetStep
<1>4. CASE NextMarked /\ UNCHANGED <<accounts, parent, used>>
    BY <1>4, <1>t, MarkStep
<1>. QED BY <1>1, <1>2, <1>3, <1>4, SortStep DEF SortKinds, CreateAccount

\* When a message, its folder or its mailbox is deleted, its row of the sorting table goes
\* or a mark leads to it, and the mark stays, over restarts and failures, until it went.
THEOREM RowsAreAccounted == Spec => SortingRowsAccounted
<1>1. Inv /\ SortInv /\ StackDead /\ [Next]_vars =>
          [\A m \in Messages : sorting[m] # None /\ sorting'[m] # None =>
              /\ Awaiting(m) => Awaiting(m)'
              /\ \A c \in {m, sorting[m], Owner[m]} :
                    Live(c) /\ ~Live(c)' /\ parent'[c] # parent[c] => Awaiting(m)']_vars
    <2>. SUFFICES ASSUME Inv, SortInv, StackDead, [Next]_vars, NEW m \in Messages,
                         sorting[m] # None, sorting'[m] # None
                  PROVE  /\ Awaiting(m) => Awaiting(m)'
                         /\ \A c \in {m, sorting[m], Owner[m]} :
                               Live(c) /\ ~Live(c)' /\ parent'[c] # parent[c] => Awaiting(m)'
        OBVIOUS
    <2>1. Awaiting(m) => Awaiting(m)'
        BY StillAwaiting, AwaitingMarks, AwaitingMarksPrime
    <2>2. ASSUME NEW c \in {m, sorting[m], Owner[m]},
                 Live(c), ~Live(c)', parent'[c] # parent[c]
          PROVE  Awaiting(m)'
        <3>t. TypeOK /\ sorting[m] \in Folders /\ Owner[m] \in MailBoxes
            BY DEF Inv, TypeOK
        <3>1. parent[c] # Uncommitted
            <4>1. parent[m] # Uncommitted
                BY DEF SortInv, NotStored
            <4>2. parent[sorting[m]] # Uncommitted
                BY DEF SortInv, Given
            <4>3. parent[Owner[m]] # Uncommitted
                BY <3>t DEF SortInv, TreeInv
            <4>. QED BY <4>1, <4>2, <4>3
        <3>2. Forgets(c) /\ c \in Users
            BY <2>2, <3>t, <3>1, DyingStep DEF Users
        <3>3. c # m /\ sorting'[m] = sorting[m]
            BY <3>t, <3>2, ForgetStep
        <3>4. c \in Folders \cup MailBoxes /\ c \in {sorting'[m], Owner[m]}
            BY <3>t, <3>3
        <3>5. c \in Marks'
            BY <3>t, <3>2, <3>4, ForgetStep
        <3>. QED BY <3>4, <3>5, AwaitingMarksPrime
    <2>. QED BY <2>1, <2>2
<1>. QED BY <1>1, Inductive, SortInductive, StackIsDead, PTL DEF Spec, SortingRowsAccounted

-----------------------------------------------------------------------------
(* While no folder is below itself.  MoveContainerL does not ask for that: which *)
(* moves clients ask for is FolderMoves.                                         *)

\* No folders are each below another of them.
NoCycle == \A S \in SUBSET Folders : (\A f \in S : parent[f] \in S) => S = {}

\* A live committed folder is below a live mailbox.
LEMMA FolderRooted ==
    ASSUME Inv, TreeInv, NoCycle, NEW f \in Folders, Live(f), parent[f] # Uncommitted
    PROVE  Live(Owner[f])
<1>. DEFINE S == {g \in Folders : Live(g) /\ parent[g] # Uncommitted /\ ~Live(Owner[g])}
<1>1. ASSUME NEW g \in S PROVE parent[g] \in S
    <2>1. parent[g] \notin OutOfTree
        BY <1>1, LiveByClosed DEF Closed, IsRow, Ends, OutOfTree, Specials
    <2>2. parent[g] # Owner[g]
        BY <1>1, LiveParent DEF Containers, Users
    <2>3. parent[g] \in Folders /\ Given(parent[g]) /\ Owner[parent[g]] = Owner[g]
        BY <1>1, <2>1, <2>2 DEF TreeInv, TreeShape, OutOfTree
    <2>4. Live(parent[g])
        BY <1>1, <2>3, LiveParent DEF Containers, Users
    <2>. QED BY <1>1, <2>3, <2>4 DEF Given
<1>2. S \in SUBSET Folders
    OBVIOUS
<1>3. S = {}
    BY <1>1, <1>2 DEF NoCycle
<1>. QED BY <1>3

\* A live mailbox has an account.
LiveAccounts == \A mb \in MailBoxes : Live(mb) => mb \in accounts

LEMMA LiveAccountsStep ==
    ASSUME Inv, SortInv, LiveAccounts, [Next]_vars PROVE LiveAccounts'
<1>. SUFFICES ASSUME NEW mb \in MailBoxes, Live(mb)' PROVE mb \in accounts'
    BY DEF LiveAccounts
<1>t. TypeOK /\ mb \in Users /\ mb \in Containers
    BY DEF Inv, Users, Containers
<1>1. parent'[mb] \notin OutOfTree
    BY OutOfTreeDead
<1>2. CASE mb \in Rows
    <2>1. mb \in accounts
        BY <1>2, StepResurrectsNothing DEF LiveAccounts
    <2>2. ASSUME NEW c \in Users, Forgets(c) PROVE mb \in accounts'
        <3>1. mb # c
            BY <1>t, <2>2, ForgottenDead
        <3>. QED BY <2>1, <2>2, <3>1 DEF Forgets
    <2>. QED BY <2>1, <2>2, SortStep DEF SortKinds, CreateAccount, Stores
<1>3. CASE mb \notin Rows
    <2>1. parent[mb] = None
        BY <1>3, <1>t DEF Rows
    <2>. QED BY <1>1, <2>1, MailBoxStep DEF OutOfTree, SortInv, TreeInv
<1>. QED BY <1>2, <1>3

LEMMA LiveAccountsInductive == Spec => []LiveAccounts
<1>1. Init => LiveAccounts
    <2>. SUFFICES ASSUME Init, NEW mb \in MailBoxes PROVE ~Live(mb)
        BY DEF LiveAccounts
    <2>1. parent[mb] = None
        BY DEF Init, Containers, Users
    <2>. QED BY <2>1, LiveIsRow DEF Rows
<1>2. Inv /\ SortInv /\ LiveAccounts /\ [Next]_vars => LiveAccounts'
    BY LiveAccountsStep
<1>. QED BY <1>1, <1>2, Inductive, SortInductive, PTL DEF Spec

\* A message a client can find is live and committed.
LEMMA VisibleLive ==
    ASSUME NEW m, Visible(m) PROVE Live(m) /\ parent[m] # Uncommitted
<1>1. PICK S : m \in S /\ S \in SUBSET Containers /\ Closed(S, {Invalid})
    BY DEF Visible, Reaching
<1>2. Closed(S, Ends)
    BY <1>1 DEF Closed, Ends
<1>3. parent[m] \in S \cup {Invalid}
    BY <1>1 DEF Closed
<1>. QED BY <1>1, <1>2, <1>3, LiveByClosed DEF Specials

\* As long as no folder is below itself, what clients find is in the sorting table
\* under its folder, and what is not committed is not there.
THEOREM SortingIsExact == Spec /\ []NoCycle => []SortingExact
<1>1. Inv /\ SortInv /\ LiveAccounts /\ NoCycle => SortingExact
    <2>. SUFFICES ASSUME Inv, SortInv, LiveAccounts, NoCycle, NEW m \in Messages
                  PROVE  /\ Visible(m) => sorting[m] = parent[m]
                         /\ parent[m] = Uncommitted \/ m \in Drafts => sorting[m] = None
        BY DEF SortingExact
    <2>1. parent[m] = Uncommitted \/ m \in Drafts => sorting[m] = None
        BY DEF SortInv, NotStored
    <2>2. ASSUME Visible(m) PROVE sorting[m] = parent[m]
        <3>1. Live(m) /\ parent[m] # Uncommitted
            BY <2>2, VisibleLive
        <3>2. parent[m] \notin OutOfTree
            BY <3>1, LiveByClosed DEF Closed, IsRow, Ends, OutOfTree, Specials
        <3>3. parent[m] \in Folders /\ Given(parent[m]) /\ Owner[parent[m]] = Owner[m]
            BY <3>1, <3>2 DEF SortInv, TreeInv, TreeShape, OutOfTree
        <3>4. Live(parent[m])
            BY <3>1, <3>3, LiveParent DEF Containers, Users
        <3>5. Live(Owner[m])
            BY <3>3, <3>4, FolderRooted DEF SortInv, Given
        <3>6. Owner[m] \in accounts
            BY <3>5 DEF LiveAccounts
        <3>. QED BY <3>1, <3>6 DEF SortInv, StoredLive
    <2>. QED BY <2>1, <2>2
<1>. QED BY <1>1, Inductive, SortInductive, LiveAccountsInductive, PTL

\* As long as no folder is below itself, FoldersL lists every folder of a mailbox: the
\* counts that let it skip a folder without children are right.
THEOREM FoldersAreListed == Spec /\ []NoCycle => []FoldersListed
<1>1. Inv /\ TreeInv /\ FolderCountsExact /\ NoCycle => FoldersListed
    <2>. SUFFICES ASSUME Inv, TreeInv, FolderCountsExact, NoCycle,
                         NEW f \in Folders, Live(f), parent[f] # Uncommitted,
                         NEW S \in SUBSET Folders,
                         \A g \in Folders : \/ parent[g] = Owner[f]
                                            \/ parent[g] \in S /\ childrenCount[parent[g]] > 0
                                            => g \in S
                  PROVE  f \in S
        BY DEF FoldersListed, Below, FoldersBelow
    <2>. DEFINE T == {g \in Folders : /\ Live(g) /\ parent[g] # Uncommitted
                                      /\ Owner[g] = Owner[f] /\ g \notin S}
    <2>1. ASSUME NEW g \in T PROVE parent[g] \in T
        <3>1. parent[g] \notin OutOfTree
            BY <2>1, LiveByClosed DEF Closed, IsRow, Ends, OutOfTree, Specials
        <3>2. parent[g] # Owner[f]
            BY <2>1
        <3>3. parent[g] \in Folders /\ Given(parent[g]) /\ Owner[parent[g]] = Owner[g]
            BY <2>1, <3>1, <3>2 DEF TreeInv, TreeShape, OutOfTree
        <3>4. Live(parent[g])
            BY <2>1, <3>3, LiveParent DEF Containers, Users
        <3>5. childrenCount[parent[g]] > 0
            <4>1. g \in ChildrenOf(parent[g])
                BY <2>1 DEF ChildrenOf, Users
            <4>2. IsFiniteSet(ChildrenOf(parent[g]))
                BY ChildrenFinite
            <4>3. Cardinality(ChildrenOf(parent[g])) \in Nat /\ Cardinality(ChildrenOf(parent[g])) # 0
                BY <4>1, <4>2, FS_CardinalityType, FS_EmptySet
            <4>4. childrenCount[parent[g]] = Cardinality(ChildrenOf(parent[g]))
                BY <3>3, <3>4 DEF FolderCountsExact, Containers, Users
            <4>. QED BY <4>3, <4>4
        <3>6. parent[g] \notin S
            BY <2>1, <3>5
        <3>. QED BY <2>1, <3>3, <3>4, <3>6 DEF Given
    <2>2. T \in SUBSET Folders
        OBVIOUS
    <2>3. T = {}
        BY <2>1, <2>2 DEF NoCycle
    <2>. QED BY <2>3
<1>2. SortInv => TreeInv
    BY DEF SortInv
<1>. QED BY <1>1, <1>2, Inductive, SortInductive, CountsAreExact, PTL

-----------------------------------------------------------------------------
(* The totals of the accounts.                                                 *)

\* How many messages of a set there are, and of the unread ones among them.
CountsIn(K, U) == [messages |-> Cardinality(K), unread |-> Cardinality(K \cap U)]
CountsOf(K) == CountsIn(K, unread)

\* The messages below the containers of a set.
MessagesIn(T) == {m \in Messages : parent[m] \in T}

\* Sets of messages are finite, and counted by numbers.
LEMMA MessagesFinite ==
    ASSUME NEW K \in SUBSET Messages
    PROVE  /\ IsFiniteSet(K) /\ Cardinality(K) \in Nat
           /\ \A U : IsFiniteSet(K \cap U) /\ Cardinality(K \cap U) \in Nat
<1>1. IsFiniteSet(K)
    BY FiniteIds, FS_Subset DEF Users
<1>. QED BY <1>1, FS_Subset, FS_CardinalityType

\* What two sets have together.
LEMMA CountsAdd ==
    ASSUME NEW K \in SUBSET Messages, NEW L \in SUBSET Messages, K \cap L = {},
           NEW U
    PROVE  /\ CountsIn(K \cup L, U) = Plus(CountsIn(K, U), CountsIn(L, U))
           /\ CountsIn(K, U) \in Counts
<1>. DEFINE KU == K \cap U  LU == L \cap U
<1>1. IsFiniteSet(K) /\ IsFiniteSet(L) /\ IsFiniteSet(KU) /\ IsFiniteSet(LU)
    BY MessagesFinite
<1>2. KU \cap LU = {} /\ (K \cup L) \cap U = KU \cup LU
    OBVIOUS
<1>. HIDE DEF KU, LU
<1>3. /\ Cardinality(K) \in Nat /\ Cardinality(L) \in Nat
      /\ Cardinality(KU) \in Nat /\ Cardinality(LU) \in Nat
    BY <1>1, FS_CardinalityType
<1>4. Cardinality(K \cup L) = Cardinality(K) + Cardinality(L)
    <2>1. Cardinality(K \cup L) = Cardinality(K) + Cardinality(L) - Cardinality(K \cap L)
        BY <1>1, FS_Union
    <2>2. Cardinality(K \cap L) = 0
        BY FS_EmptySet
    <2>. QED BY <1>3, <2>1, <2>2
<1>5. Cardinality(KU \cup LU) = Cardinality(KU) + Cardinality(LU)
    <2>1. Cardinality(KU \cup LU) = Cardinality(KU) + Cardinality(LU) - Cardinality(KU \cap LU)
        BY <1>1, FS_Union
    <2>2. Cardinality(KU \cap LU) = 0
        BY <1>2, FS_EmptySet
    <2>. QED BY <1>2, <1>3, <2>1, <2>2
<1>6. /\ CountsIn(K, U) = [messages |-> Cardinality(K), unread |-> Cardinality(KU)]
      /\ CountsIn(L, U) = [messages |-> Cardinality(L), unread |-> Cardinality(LU)]
      /\ CountsIn(K \cup L, U) = [messages |-> Cardinality(K \cup L),
                                   unread |-> Cardinality(KU \cup LU)]
    BY <1>2 DEF CountsIn, KU, LU
<1>7. PICK a, b, c, d : /\ a = Cardinality(K) /\ b = Cardinality(L)
                        /\ c = Cardinality(KU) /\ d = Cardinality(LU)
    OBVIOUS
<1>8. /\ CountsIn(K, U) = [messages |-> a, unread |-> c]
      /\ CountsIn(L, U) = [messages |-> b, unread |-> d]
      /\ CountsIn(K \cup L, U) = [messages |-> a + b, unread |-> c + d]
    BY <1>4, <1>5, <1>6, <1>7
<1>9. a \in Nat /\ b \in Nat /\ c \in Nat /\ d \in Nat
    BY <1>3, <1>7
<1>10. CountsIn(K \cup L, U) = Plus(CountsIn(K, U), CountsIn(L, U))
    BY <1>8 DEF Plus
<1>11. CountsIn(K, U) \in Counts
    BY <1>8, <1>9 DEF Counts
<1>. QED BY <1>10, <1>11

\* The same of the messages that are unread.
LEMMA CountsTogether ==
    ASSUME NEW K \in SUBSET Messages, NEW L \in SUBSET Messages, K \cap L = {}
    PROVE  /\ CountsOf(K \cup L) = Plus(CountsOf(K), CountsOf(L))
           /\ CountsOf(K) \in Counts
BY CountsAdd DEF CountsOf

\* One message counts for itself.
LEMMA OneCounted ==
    ASSUME NEW m, NEW U
    PROVE  CountsIn({m}, U) = [messages |-> 1, unread |-> IF m \in U THEN 1 ELSE 0]
<1>1. Cardinality({m}) = 1 /\ Cardinality({}) = 0
    BY FS_Singleton, FS_EmptySet
<1>2. {m} \cap U = IF m \in U THEN {m} ELSE {}
    OBVIOUS
<1>. QED BY <1>1, <1>2 DEF CountsIn

\* What is recorded of a container, for the messages below it.
LEMMA RecordedIs ==
    ASSUME TypeOK, NEW x \in Containers, ExactAt(x)
    PROVE  childCounts[x] = CountsOf(MessagesIn({x}))
<1>1. ChildrenOf(x) \cap Messages = MessagesIn({x})
    BY DEF ChildrenOf, MessagesIn, Users
<1>2. childCounts[x] \in Counts
    BY DEF TypeOK
<1>. QED BY <1>1, <1>2 DEF ExactAt, CountsOf, CountsIn, Counts

\* A sum over a set takes one of its elements from the rest.
One(T) == CHOOSE x \in T : TRUE
AddsUp(S, f) ==
    f = [T \in SUBSET S |-> IF T = {} THEN Zero ELSE Plus(childCounts[One(T)], f[T \ {One(T)}])]

LEMMA SumUnfolds ==
    ASSUME NEW S, NEW f, AddsUp(S, f), NEW T \in SUBSET S
    PROVE  f[T] = IF T = {} THEN Zero ELSE Plus(childCounts[One(T)], f[T \ {One(T)}])
BY DEF AddsUp

\* The messages below a set of containers, from those below one of them and the rest.
LEMMA MessagesAddUp ==
    ASSUME TypeOK, NEW S \in SUBSET Containers, \A x \in S : ExactAt(x), NEW T \in SUBSET S
    PROVE  /\ T = {} => CountsOf(MessagesIn(T)) = Zero
           /\ \A x \in T : CountsOf(MessagesIn(T))
                            = Plus(childCounts[x], CountsOf(MessagesIn(T \ {x})))
<1>1. CountsOf(MessagesIn({})) = Zero
    <2>1. MessagesIn({}) = {}
        BY DEF MessagesIn
    <2>2. {} \cap unread = {}
        OBVIOUS
    <2>. QED BY <2>1, <2>2, FS_EmptySet DEF CountsOf, CountsIn, Zero
<1>2. ASSUME NEW x \in T
      PROVE  CountsOf(MessagesIn(T)) = Plus(childCounts[x], CountsOf(MessagesIn(T \ {x})))
    <2>1. /\ MessagesIn(T) = MessagesIn({x}) \cup MessagesIn(T \ {x})
          /\ MessagesIn({x}) \cap MessagesIn(T \ {x}) = {}
          /\ MessagesIn({x}) \in SUBSET Messages /\ MessagesIn(T \ {x}) \in SUBSET Messages
        BY DEF MessagesIn
    <2>2. childCounts[x] = CountsOf(MessagesIn({x}))
        BY RecordedIs
    <2>. QED BY <2>1, <2>2, CountsTogether
<1>. QED BY <1>1, <1>2

\* So the sum over a set of containers counts the messages below them: no other function
\* adds up.
LEMMA SumUnique ==
    ASSUME TypeOK, NEW S \in SUBSET Containers, IsFiniteSet(S), \A x \in S : ExactAt(x),
           NEW sum, AddsUp(S, sum)
    PROVE  sum[S] = CountsOf(MessagesIn(S))
<1>1. \A T \in SUBSET S : T # {} => One(T) \in T
    BY DEF One
<1>2. ASSUME NEW T \in SUBSET S
      PROVE  sum[T] = IF T = {} THEN Zero ELSE Plus(childCounts[One(T)], sum[T \ {One(T)}])
    BY SumUnfolds
<1>3. sum[{}] = Zero
    <2>1. sum[{}] = IF {} = {} THEN Zero ELSE Plus(childCounts[One({})], sum[{} \ {One({})}])
        BY <1>2
    <2>. QED BY <2>1
<1>. DEFINE bad == {T \in SUBSET S : sum[T] # CountsOf(MessagesIn(T))}
            sizes == {Cardinality(T) : T \in bad}
<1>4. \A T \in SUBSET S : IsFiniteSet(T) /\ Cardinality(T) \in Nat
    BY FS_Subset, FS_CardinalityType
<1>5. ASSUME bad # {} PROVE FALSE
    <2>1. sizes # {} /\ sizes \in SUBSET Nat
        <3>1. bad \in SUBSET SUBSET S
            OBVIOUS
        <3>. HIDE DEF bad
        <3>. QED BY <1>4, <1>5, <3>1
    <2>2. PICK n \in sizes : \A k \in sizes : n <= k
        <3>. HIDE DEF sizes
        <3>. QED BY <2>1, LeastNumber
    <2>3. PICK T \in bad : n = Cardinality(T)
        BY <2>2
    <2>4. T # {}
        BY <1>3, <2>3, MessagesAddUp
    <2>5. PICK x \in T : x = One(T)
        BY <1>1, <2>3, <2>4
    <2>6. Cardinality(T \ {x}) = Cardinality(T) - 1 /\ Cardinality(T) \in Nat
        BY <1>4, <2>3, <2>5, FS_RemoveElement
    <2>7. T \ {x} \notin bad
        <3>1. SUFFICES ASSUME T \ {x} \in bad PROVE FALSE
            OBVIOUS
        <3>2. Cardinality(T \ {x}) \in sizes
            BY <3>1
        <3>3. n <= Cardinality(T \ {x})
            BY <2>2, <3>2
        <3>. QED BY <2>3, <2>6, <3>3
    <2>8. sum[T \ {x}] = CountsOf(MessagesIn(T \ {x}))
        BY <2>3, <2>7
    <2>9. sum[T] = Plus(childCounts[x], sum[T \ {x}])
        BY <1>2, <2>3, <2>4, <2>5
    <2>10. sum[T] = CountsOf(MessagesIn(T))
        <3>1. T \in SUBSET S
            BY <2>3
        <3>2. CountsOf(MessagesIn(T)) = Plus(childCounts[x], CountsOf(MessagesIn(T \ {x})))
            BY <3>1, MessagesAddUp
        <3>. QED BY <2>8, <2>9, <3>2, Zenon
    <2>. QED BY <2>3, <2>10
<1>. QED BY <1>5

\* There is one, which is then the sum.
LEMMA SumIs ==
    ASSUME TypeOK, NEW S \in SUBSET Containers, IsFiniteSet(S), \A x \in S : ExactAt(x),
           NEW sum, sum = CHOOSE f : f = [T \in SUBSET S |->
                              IF T = {} THEN Zero
                              ELSE LET x == CHOOSE x \in T : TRUE
                                   IN  Plus(childCounts[x], f[T \ {x}])]
    PROVE  sum[S] = CountsOf(MessagesIn(S))
<1>. DEFINE step(f) == [T \in SUBSET S |-> IF T = {} THEN Zero
                                           ELSE Plus(childCounts[One(T)], f[T \ {One(T)}])]
            all == [T \in SUBSET S |-> CountsOf(MessagesIn(T))]
<1>1. \A T \in SUBSET S : T # {} => One(T) \in T
    BY DEF One
<1>2. all = step(all)
    <2>1. ASSUME NEW T \in SUBSET S
          PROVE  CountsOf(MessagesIn(T)) = IF T = {} THEN Zero
                     ELSE Plus(childCounts[One(T)], CountsOf(MessagesIn(T \ {One(T)})))
        BY <1>1, MessagesAddUp
    <2>. QED BY <2>1
<1>3. sum = CHOOSE f : f = step(f)
    BY DEF One
<1>4. AddsUp(S, sum)
    <2>1. sum = step(sum)
        <3>. HIDE DEF step, all
        <3>. QED BY <1>2, <1>3
    <2>. QED BY <2>1 DEF AddsUp
<1>. QED BY <1>4, SumUnique

\* What a container and the folders below it record counts the messages below them.
LEMMA DescendantsAre ==
    ASSUME TypeOK, NEW c \in Containers, ExactAt(c), c \notin FoldersBelow(c),
           \A f \in FoldersBelow(c) : ExactAt(f)
    PROVE  DescendantCounts(c) = CountsOf(MessagesIn({c} \cup FoldersBelow(c)))
<1>. DEFINE S == FoldersBelow(c)
<1>1. S \in SUBSET Folders /\ S \in SUBSET Containers
    BY DEF FoldersBelow, Containers, Users
<1>2. IsFiniteSet(S)
    BY <1>1, FiniteIds, FS_Subset DEF Users
<1>3. PICK sum : sum = CHOOSE f : f = [T \in SUBSET S |->
                              IF T = {} THEN Zero
                              ELSE LET x == CHOOSE x \in T : TRUE
                                   IN  Plus(childCounts[x], f[T \ {x}])]
    OBVIOUS
<1>4. DescendantCounts(c) = Plus(childCounts[c], sum[S])
    BY <1>3 DEF DescendantCounts, SumCounts
<1>. HIDE DEF S
<1>5. sum[S] = CountsOf(MessagesIn(S))
    BY <1>1, <1>2, <1>3, SumIs DEF S
<1>6. childCounts[c] = CountsOf(MessagesIn({c}))
    BY RecordedIs
<1>7. /\ MessagesIn({c} \cup S) = MessagesIn({c}) \cup MessagesIn(S)
      /\ MessagesIn({c}) \cap MessagesIn(S) = {}
      /\ MessagesIn({c}) \in SUBSET Messages /\ MessagesIn(S) \in SUBSET Messages
    BY DEF MessagesIn, S
<1>8. CountsOf(MessagesIn({c}) \cup MessagesIn(S))
      = Plus(CountsOf(MessagesIn({c})), CountsOf(MessagesIn(S)))
    BY <1>7, CountsTogether
<1>. QED BY <1>4, <1>5, <1>6, <1>7, <1>8, Zenon DEF S

\* The messages a mailbox shows: live, committed and its own.
Shown(m) == m \in Messages /\ Live(m) /\ parent[m] # Uncommitted
ShownIn(mb) == {m \in Messages : Shown(m) /\ Owner[m] = mb}

\* A mailbox that is in the tree is below the root.
MailBoxesAtRoot == \A mb \in MailBoxes : parent[mb] \in {Root} \cup OutOfTree

\* The committed folders of a mailbox that are live, with the mailbox and the root.
Branch(mb) ==
    {f \in Folders : Live(f) /\ parent[f] # Uncommitted /\ Owner[f] = mb}
    \cup {x \in {mb} : Live(x)} \cup {Root}

\* No step puts a mailbox anywhere else.
LEMMA MailBoxesAtRootStep ==
    ASSUME Inv, MailBoxesAtRoot, [Next]_vars PROVE MailBoxesAtRoot'
<1>. SUFFICES ASSUME NEW mb \in MailBoxes PROVE parent'[mb] \in {Root} \cup OutOfTree
    BY DEF MailBoxesAtRoot, OutOfTree
<1>1. parent[mb] \in {Root} \cup OutOfTree
    BY DEF MailBoxesAtRoot
<1>2. parent[mb] # Uncommitted
    BY <1>1 DEF OutOfTree, Specials, Containers
<1>. QED BY <1>1, <1>2, MailBoxStep

\* What is live is not below the special parents.
LEMMA LiveInTree ==
    ASSUME NEW c, Live(c) PROVE c \in Containers /\ parent[c] \notin OutOfTree
BY LiveByClosed DEF Closed, IsRow, Ends, OutOfTree, Specials, Containers

\* From the folders of a branch the parent column leads to the branch.
LEMMA BranchParent ==
    ASSUME Inv, TreeInv, MailBoxesAtRoot, NEW mb \in MailBoxes, NEW y \in Branch(mb)
    PROVE  /\ y \in Containers /\ Live(y) /\ parent[y] # Uncommitted
           /\ (y = Root /\ parent[y] = Invalid) \/ parent[y] \in Branch(mb)
<1>1. Live(Root) /\ parent[Root] = Invalid
    <2>1. Closed({Root}, Ends) /\ parent[Root] = Invalid
        BY DEF Closed, IsRow, Ends, Inv, TypeOK, Containers, Specials
    <2>. QED BY <2>1, LiveByClosed DEF Containers
<1>2. CASE y = Root
    BY <1>1, <1>2 DEF Containers
<1>3. CASE y = mb /\ Live(y)
    <2>1. parent[mb] = Root
        BY <1>3, LiveInTree DEF MailBoxesAtRoot
    <2>. QED BY <1>3, <2>1 DEF Branch, TreeInv, Containers, Users
<1>4. CASE y \in Folders /\ Live(y) /\ parent[y] # Uncommitted /\ Owner[y] = mb
    <2>1. parent[y] \notin OutOfTree /\ y \in Containers
        BY <1>4, LiveInTree
    <2>2. CASE parent[y] = mb
        <3>1. Live(mb)
            BY <1>4, <2>2, LiveParent DEF Containers, Users
        <3>. QED BY <1>4, <2>1, <2>2, <3>1 DEF Branch
    <2>3. CASE parent[y] # mb
        <3>1. parent[y] \in Folders /\ Given(parent[y]) /\ Owner[parent[y]] = mb
            BY <1>4, <2>1, <2>3 DEF TreeInv, TreeShape, OutOfTree
        <3>2. Live(parent[y])
            BY <1>4, <3>1, LiveParent DEF Containers, Users
        <3>. QED BY <1>4, <2>1, <3>1, <3>2 DEF Branch, Given
    <2>. QED BY <2>2, <2>3
<1>. QED BY <1>2, <1>3, <1>4 DEF Branch

\* A message that is shown is below a folder of the branch.
LEMMA ShownParent ==
    ASSUME Inv, TreeInv, NEW mb \in MailBoxes, NEW m \in ShownIn(mb)
    PROVE  /\ parent[m] \in Branch(mb) /\ parent[m] \in Folders
           /\ parent[m] # None /\ m \in Rows /\ m \in used /\ m \in Users
<1>1. m \in Messages /\ Live(m) /\ parent[m] # Uncommitted /\ Owner[m] = mb
    BY DEF ShownIn, Shown
<1>2. parent[m] \notin OutOfTree
    BY <1>1, LiveInTree
<1>3. parent[m] \in Folders /\ Given(parent[m]) /\ Owner[parent[m]] = mb
    BY <1>1, <1>2 DEF TreeInv, TreeShape, OutOfTree
<1>4. Live(parent[m])
    BY <1>1, <1>3, LiveParent DEF Containers, Users
<1>5. m \in Rows /\ m \in Users
    BY <1>1, LiveIsRow DEF Users
<1>. QED BY <1>3, <1>4, <1>5 DEF Branch, Given, Rows, Inv, IdsUsed

\* What is shown is what a client can find.
LEMMA VisibleIsShown ==
    ASSUME Inv, TreeInv, MailBoxesAtRoot, NEW m \in Messages
    PROVE  Visible(m) <=> Shown(m)
<1>1. ASSUME Visible(m) PROVE Shown(m)
    BY <1>1, VisibleLive DEF Shown
<1>2. ASSUME Shown(m) PROVE Visible(m)
    <2>. DEFINE mb == Owner[m]  S == Branch(mb) \cup {m}
    <2>1. mb \in MailBoxes /\ m \in ShownIn(mb)
        BY <1>2 DEF ShownIn
    <2>2. parent[m] \in Branch(mb) /\ Live(m) /\ m \in Containers
        BY <1>2, <2>1, ShownParent DEF Shown, Containers, Users
    <2>3. ASSUME NEW y \in S PROVE y \in Containers /\ Live(y) /\ parent[y] \in S \cup {Invalid}
        BY <2>1, <2>2, <2>3, BranchParent
    <2>4. ASSUME NEW y \in S PROVE IsRow(y) /\ parent[y] \notin OutOfTree
        BY <2>3, LiveInTree, LiveIsRow DEF IsRow, Rows
    <2>. HIDE DEF mb
    <2>5. Closed(S, {Invalid})
        BY <2>3, <2>4 DEF Closed
    <2>6. S \in SUBSET {c \in Containers : parent[c] \notin {None, ToBeDeleted, ToRetryDelete}}
        BY <2>3, <2>4 DEF OutOfTree
    <2>7. m \in S
        OBVIOUS
    <2>. HIDE DEF S
    <2>. QED BY <2>5, <2>6, <2>7 DEF Visible, Reaching
<1>. QED BY <1>1, <1>2

\* What the totals of an account are.
TotalsInv == \A mb \in accounts : totals[mb] = CountsOf(ShownIn(mb))

\* A message that is put below a folder of a branch nothing changes is shown.
LEMMA BranchKept ==
    ASSUME Inv, TreeInv, MailBoxesAtRoot, NEW mb \in MailBoxes,
           \A y \in Branch(mb) : parent'[y] = parent[y],
           NEW m \in Messages, Owner[m] = mb, parent'[m] \in Branch(mb), parent'[m] \in Folders
    PROVE  m \in ShownIn(mb)'
<1>0. PICK S : S = Branch(mb) \cup {m}
    OBVIOUS
<1>1. ASSUME NEW y \in S PROVE IsRow(y)' /\ parent'[y] \in S \cup Ends
    <2>1. CASE y = m
        BY <1>0, <2>1 DEF IsRow, Containers, Users, Specials
    <2>2. CASE y \in Branch(mb)
        <3>1. y \in Containers /\ Live(y) /\ parent[y] \in S \cup Ends /\ parent'[y] = parent[y]
            BY <1>0, <2>2, BranchParent DEF Ends
        <3>. QED BY <3>1, LiveInTree DEF IsRow, OutOfTree
    <2>. QED BY <1>0, <1>1, <2>1, <2>2
<1>2. S \in SUBSET Containers
    BY <1>0, BranchParent DEF Containers, Users
<1>3. Closed(S, Ends)'
    BY <1>1 DEF Closed, IsRow
<1>4. Live(m)'
    BY <1>0, <1>2, <1>3, LiveByClosedPrime
<1>5. parent'[m] # Uncommitted
    BY DEF Containers, Users, Specials
<1>. QED BY <1>4, <1>5 DEF ShownIn, Shown

\* Only a row that is new, or that waited for its commit, makes a message appear.
LEMMA NothingAppears ==
    ASSUME Inv, [Next]_vars, NEW m \in Messages, Shown(m)',
           parent[m] # None, parent[m] # Uncommitted
    PROVE  Shown(m)
<1>1. m \in Rows
    BY DEF Rows, Containers, Users
<1>2. Live(m)'
    BY DEF Shown
<1>3. Live(m)
    BY <1>1, <1>2, StepResurrectsNothing
<1>. QED BY <1>3 DEF Shown

\* A message that no longer has a parent in the tree is not shown.
LEMMA NotShown ==
    ASSUME NEW m \in Messages, parent'[m] \in OutOfTree \cup {Uncommitted}
    PROVE  ~Shown(m)'
BY OutOfTreeDead DEF Shown

\* What a mailbox shows, when nothing on its branch changes and no message comes or goes.
LEMMA BranchUntouched ==
    ASSUME Inv, TreeInv, MailBoxesAtRoot, [Next]_vars, NEW mb \in MailBoxes,
           \A y \in Branch(mb) : parent'[y] = parent[y],
           \A m \in Messages : Owner[m] = mb =>
               \/ parent'[m] = parent[m]
               \/ parent'[m] \in OutOfTree \cup {Uncommitted} /\ m \notin ShownIn(mb)
    PROVE  ShownIn(mb)' = ShownIn(mb)
<1>1. ASSUME NEW m \in ShownIn(mb) PROVE m \in ShownIn(mb)'
    <2>1. m \in Messages /\ Owner[m] = mb /\ parent'[m] = parent[m]
        BY DEF ShownIn
    <2>2. parent[m] \in Branch(mb) /\ parent[m] \in Folders
        BY ShownParent
    <2>. QED BY <2>1, <2>2, BranchKept
<1>2. ASSUME NEW m \in ShownIn(mb)' PROVE m \in ShownIn(mb)
    <2>1. m \in Messages /\ Owner[m] = mb /\ Shown(m)'
        BY DEF ShownIn
    <2>2. parent'[m] \notin OutOfTree \cup {Uncommitted}
        BY <2>1, NotShown
    <2>3. parent'[m] = parent[m]
        BY <2>1, <2>2
    <2>4. Shown(m)
        BY <2>1, <2>2, <2>3, NothingAppears DEF OutOfTree
    <2>. QED BY <2>1, <2>4 DEF ShownIn
<1>. QED BY <1>1, <1>2

\* The same with one message more.
LEMMA OneMoreShown ==
    ASSUME Inv, TreeInv, MailBoxesAtRoot, [Next]_vars, NEW mb \in MailBoxes,
           \A y \in Branch(mb) : parent'[y] = parent[y],
           NEW n \in Messages, Owner[n] = mb, parent'[n] \in Branch(mb), parent'[n] \in Folders,
           \A m \in Messages \ {n} : parent'[m] = parent[m]
    PROVE  ShownIn(mb)' = ShownIn(mb) \cup {n}
<1>1. n \in ShownIn(mb)'
    BY BranchKept
<1>2. ASSUME NEW m \in ShownIn(mb), m # n PROVE m \in ShownIn(mb)'
    <2>1. m \in Messages /\ Owner[m] = mb /\ parent'[m] = parent[m]
        BY <1>2 DEF ShownIn
    <2>2. parent[m] \in Branch(mb) /\ parent[m] \in Folders
        BY <1>2, ShownParent
    <2>. QED BY <2>1, <2>2, BranchKept
<1>3. ASSUME NEW m \in ShownIn(mb)', m # n PROVE m \in ShownIn(mb)
    <2>1. m \in Messages /\ Owner[m] = mb /\ Shown(m)' /\ parent'[m] = parent[m]
        BY <1>3 DEF ShownIn
    <2>2. parent'[m] \notin OutOfTree \cup {Uncommitted}
        BY <2>1, NotShown
    <2>3. Shown(m)
        BY <2>1, <2>2, NothingAppears DEF OutOfTree
    <2>. QED BY <2>1, <2>3 DEF ShownIn
<1>. QED BY <1>1, <1>2, <1>3

\* The totals, when the messages shown and their flags stay.
LEMMA SameTotals ==
    ASSUME NEW mb, totals[mb] = CountsOf(ShownIn(mb)), totals'[mb] = totals[mb],
           ShownIn(mb)' = ShownIn(mb), \A m \in ShownIn(mb) : m \in unread' <=> m \in unread
    PROVE  totals'[mb] = CountsOf(ShownIn(mb))'
<1>1. ShownIn(mb)' \cap unread' = ShownIn(mb) \cap unread
    OBVIOUS
<1>. QED BY <1>1, Zenon DEF CountsOf, CountsIn

\* The totals, when one message more is shown and is counted.
LEMMA OneMoreTotals ==
    ASSUME NEW mb \in MailBoxes, totals[mb] = CountsOf(ShownIn(mb)),
           NEW n \in Messages, n \notin ShownIn(mb), ShownIn(mb)' = ShownIn(mb) \cup {n},
           \A m \in ShownIn(mb) : m \in unread' <=> m \in unread,
           totals'[mb] = Plus(totals[mb], [messages |-> 1,
                                           unread |-> IF n \in unread' THEN 1 ELSE 0])
    PROVE  totals'[mb] = CountsOf(ShownIn(mb))'
<1>1. PICK K : K = ShownIn(mb)
    OBVIOUS
<1>2. PICK U : U = unread'
    OBVIOUS
<1>3. K \cap U = K \cap unread
    BY <1>1, <1>2
<1>4. totals[mb] = CountsIn(K, U)
    BY <1>1, <1>3, Zenon DEF CountsOf, CountsIn
<1>5. CountsIn(K \cup {n}, U) = Plus(CountsIn(K, U), CountsIn({n}, U))
    <2>1. K \in SUBSET Messages /\ {n} \in SUBSET Messages /\ K \cap {n} = {}
        BY <1>1 DEF ShownIn
    <2>. QED BY <2>1, CountsAdd
<1>6. CountsIn({n}, U) = [messages |-> 1, unread |-> IF n \in U THEN 1 ELSE 0]
    BY OneCounted
<1>7. CountsOf(ShownIn(mb))' = CountsIn(K \cup {n}, U)
    BY <1>1, <1>2, Zenon DEF CountsOf, CountsIn
<1>. QED BY <1>2, <1>4, <1>5, <1>6, <1>7, Zenon

\* What the proofs below assume of a state.
TotalsState == Inv /\ TreeInv /\ MailBoxesAtRoot /\ UnreadUsed /\ TotalsInv

\* What a branch is made of.
LEMMA BranchIs ==
    ASSUME Inv, TreeInv, MailBoxesAtRoot, NEW mb \in MailBoxes, NEW y \in Branch(mb)
    PROVE  /\ y \in Folders \cup {mb, Root} /\ y \in Containers
           /\ Live(y) /\ y \in Rows /\ parent[y] # None /\ parent[y] # Uncommitted
           /\ y = Root \/ y \in used
<1>1. Live(y) /\ parent[y] # Uncommitted
    BY BranchParent
<1>2. y \in Folders \cup {mb, Root}
    BY DEF Branch
<1>3. y \in Rows /\ parent[y] # None /\ y \in Containers
    BY <1>1, LiveIsRow DEF Rows
<1>4. y = Root \/ y \in used
    BY <1>2, <1>3 DEF Inv, IdsUsed, Users
<1>. QED BY <1>1, <1>2, <1>3, <1>4

\* A step that neither touches the branch of a mailbox nor its messages.
LEMMA UntouchedTotals ==
    ASSUME TotalsState, [Next]_vars, NEW mb \in MailBoxes, mb \in accounts,
           \A y \in Branch(mb) : parent'[y] = parent[y],
           \A m \in Messages : Owner[m] = mb =>
               \/ parent'[m] = parent[m]
               \/ parent'[m] \in OutOfTree \cup {Uncommitted} /\ m \notin ShownIn(mb),
           totals'[mb] = totals[mb],
           \A m \in ShownIn(mb) : m \in unread' <=> m \in unread
    PROVE  totals'[mb] = CountsOf(ShownIn(mb))'
<1>1. ShownIn(mb)' = ShownIn(mb)
    BY BranchUntouched DEF TotalsState
<1>. QED BY <1>1, SameTotals DEF TotalsState, TotalsInv

\* A step that changes rows and flags only of what is not in the tree.
LEMMA OutsideTotals ==
    ASSUME TotalsState, [Next]_vars, accounts' = accounts, totals' = totals,
           \A y \in Containers :
               \/ parent'[y] = parent[y]
               \/ y \notin Messages /\ (y \notin Rows \/ ~Live(y) \/ parent[y] = Uncommitted)
               \/ parent'[y] \in OutOfTree \cup {Uncommitted}
                  /\ (y \notin Rows \/ ~Live(y) \/ parent[y] = Uncommitted),
           \A m \in Messages : m \in Rows /\ Live(m) /\ parent[m] # Uncommitted =>
               (m \in unread' <=> m \in unread)
    PROVE  TotalsInv'
<1>. SUFFICES ASSUME NEW mb \in accounts PROVE totals'[mb] = CountsOf(ShownIn(mb))'
    BY DEF TotalsInv
<1>1. mb \in MailBoxes
    BY DEF TotalsState, Inv, TypeOK
<1>2. \A y \in Branch(mb) : parent'[y] = parent[y]
    BY <1>1, BranchIs DEF TotalsState, Containers, Users
<1>3. ASSUME NEW m \in Messages, Owner[m] = mb
      PROVE  \/ parent'[m] = parent[m]
             \/ parent'[m] \in OutOfTree \cup {Uncommitted} /\ m \notin ShownIn(mb)
    <2>1. m \in ShownIn(mb) => m \in Rows /\ Live(m) /\ parent[m] # Uncommitted
        BY LiveIsRow DEF ShownIn, Shown
    <2>. QED BY <2>1 DEF Containers, Users
<1>4. \A m \in ShownIn(mb) : m \in unread' <=> m \in unread
    BY LiveIsRow DEF ShownIn, Shown
<1>5. totals'[mb] = totals[mb]
    OBVIOUS
<1>. QED BY <1>1, <1>2, <1>3, <1>4, <1>5, UntouchedTotals

\* A new account shows nothing, and the others what they showed.
LEMMA CreateAccountTotals ==
    ASSUME TotalsState, [Next]_vars, NEW x \in MailBoxes, CreateAccount(x) PROVE TotalsInv'
<1>t. /\ parent \in [Containers -> Containers \cup Specials] /\ x \in Containers
      /\ SystemFolder[x] \in Containers /\ DOMAIN totals = MailBoxes
    BY DEF TotalsState, Inv, TypeOK, Containers, Users
<1>1. /\ parent' = [parent EXCEPT ![x] = Root, ![SystemFolder[x]] = x]
      /\ unread' = unread /\ accounts' = accounts \cup {x}
      /\ totals' = [totals EXCEPT ![x] = Zero]
      /\ x \notin used /\ SystemFolder[x] \notin used
    BY DEF CreateAccount
<1>. SUFFICES ASSUME NEW mb \in accounts' PROVE totals'[mb] = CountsOf(ShownIn(mb))'
    BY DEF TotalsInv
<1>2. mb \in MailBoxes
    BY <1>1 DEF TotalsState, Inv, TypeOK
<1>m. \A m \in Messages : parent'[m] = parent[m] /\ m \in Containers
    BY <1>1, <1>t DEF Containers, Users
<1>3. CASE mb = x
    <2>1. ASSUME NEW m \in ShownIn(x)' PROVE FALSE
        <3>1. m \in Messages /\ Owner[m] = x /\ Live(m)'
            BY DEF ShownIn, Shown
        <3>2. parent'[m] # None
            BY <3>1, LiveByClosedPrime DEF Closed, IsRow
        <3>3. m \in used
            BY <1>m, <3>1, <3>2 DEF TotalsState, Inv, IdsUsed, Users
        <3>. QED BY <1>1, <3>1, <3>3 DEF TotalsState, TreeInv, OwnersUsed
    <2>2. ShownIn(x)' = {} /\ ShownIn(x)' \cap unread' = {}
        BY <2>1
    <2>3. Cardinality({}) = 0
        BY FS_EmptySet
    <2>4. CountsOf(ShownIn(x))' = [messages |-> 0, unread |-> 0]
        BY <2>2, <2>3, Zenon DEF CountsOf, CountsIn
    <2>5. totals'[x] = Zero
        BY <1>1, <1>t
    <2>. QED BY <1>3, <2>4, <2>5, Zenon DEF Zero
<1>4. CASE mb # x
    <2>1. mb \in accounts /\ totals'[mb] = totals[mb]
        BY <1>1, <1>2, <1>4, <1>t
    <2>2. ASSUME NEW y \in Branch(mb) PROVE parent'[y] = parent[y]
        <3>1. y \in Containers /\ (y = Root \/ y \in used)
            BY <1>2, BranchIs DEF TotalsState
        <3>2. x # Root /\ SystemFolder[x] # Root
            BY DEF Users
        <3>. QED BY <1>1, <1>t, <3>1, <3>2
    <2>. QED BY <1>1, <1>2, <1>m, <2>1, <2>2, UntouchedTotals
<1>. QED BY <1>3, <1>4

\* Messages under creation have no row while they are buffered.
LEMMA CreateMessageTotals ==
    ASSUME TotalsState, ~Encrypted, [Next]_vars, NEW m \in Messages,
           NEW f \in Folders, NEW u \in BOOLEAN,
           CreateMessage(m, f, u)
    PROVE  TotalsInv'
<1>1. m \notin Rows
    BY DEF CreateMessage, TotalsState, Inv, IdsUsed, Rows, Users
<1>2. /\ parent' = parent /\ accounts' = accounts /\ totals' = totals
      /\ \A x \in Messages \ {m} : x \in unread' <=> x \in unread
    BY DEF CreateMessage
<1>. QED BY <1>1, <1>2, OutsideTotals

\* Nor have they one when the buffer is dropped.
LEMMA LoseDraftTotals ==
    ASSUME TotalsState, ~Encrypted, [Next]_vars, NEW m \in Messages, LoseDraft(m)
    PROVE  TotalsInv'
<1>1. m \notin Rows
    BY DEF LoseDraft, TotalsState, Inv, IdsUsed, Rows, Users
<1>2. /\ parent' = parent /\ accounts' = accounts /\ totals' = totals
      /\ \A x \in Messages \ {m} : x \in unread' <=> x \in unread
    BY DEF LoseDraft
<1>. QED BY <1>1, <1>2, OutsideTotals

\* Folders and parts are created, and rows that no commit follows.
LEMMA CreateAndCommitTotals ==
    ASSUME TotalsState, [Next]_vars, NEW c \in Folders \cup Parts, NEW p \in Users,
           CreateAndCommit(c, p) \/ CreateAndCommitFails(c, p)
    PROVE  TotalsInv'
<1>t. parent \in [Containers -> Containers \cup Specials] /\ unread \subseteq Messages
    BY DEF TotalsState, Inv, TypeOK
<1>1. c \notin Rows /\ c \notin Messages
    BY DEF CreateAndCommit, CreateAndCommitFails, TotalsState, Inv, IdsUsed, Rows, Users
<1>2. PICK to : parent' = [parent EXCEPT ![c] = to]
    BY DEF CreateAndCommit, CreateAndCommitFails
<1>3. unread' = unread \/ unread' = unread \ {c}
    BY DEF CreateAndCommit, CreateAndCommitFails, NewRow
<1>4. accounts' = accounts /\ totals' = totals
    BY DEF CreateAndCommit, CreateAndCommitFails
<1>5. \A y \in Containers \ {c} : parent'[y] = parent[y]
    BY <1>t, <1>2
<1>. QED BY <1>1, <1>3, <1>4, <1>5, OutsideTotals

\* A copy whose commit fails is not shown.
LEMMA CopyMessageFailsTotals ==
    ASSUME TotalsState, [Next]_vars, NEW m \in Messages, NEW n \in Messages, NEW f \in Folders,
           NEW g \in [ChildrenOf(m) -> Parts], CopyMessageFails(m, f, n, g)
    PROVE  TotalsInv'
<1>1. Copied(m, n, g, Uncommitted) /\ accounts' = accounts /\ totals' = totals
    BY DEF CopyMessageFails
<1>2. PICK Q \in SUBSET Parts : Q = {g[p] : p \in DOMAIN g}
    <2>1. {g[p] : p \in DOMAIN g} \in SUBSET Parts
        OBVIOUS
    <2>. QED BY <2>1
<1>3. /\ parent' = [c \in Containers |-> IF c = n THEN Uncommitted ELSE
                                         IF c \in Q THEN n ELSE parent[c]]
      /\ n \notin used /\ Q \cap used = {}
      /\ \A x \in Messages \ {n} : x \in unread' <=> x \in unread
    BY <1>1, <1>2 DEF Copied
<1>4. n \notin Rows /\ Q \cap Rows = {} /\ Q \cap Messages = {}
    BY <1>2, <1>3 DEF TotalsState, Inv, IdsUsed, Rows, Users
<1>. QED BY <1>1, <1>3, <1>4, OutsideTotals

\* The delete handler erases rows that are dead.
LEMMA EraseTotals ==
    ASSUME TotalsState, StackDead, [Next]_vars, NEW c \in Users, DeleteIndividualContainer(c)
    PROVE  TotalsInv'
<1>t. parent \in [Containers -> Containers \cup Specials]
    BY DEF TotalsState, Inv, TypeOK
<1>1. ~Live(c)
    BY CandidateDead DEF DeleteIndividualContainer, TotalsState
<1>2. /\ \A y \in Containers : parent'[y] = parent[y] \/ (y = c /\ parent'[y] \in OutOfTree)
      /\ accounts' = accounts /\ totals' = totals
      /\ \A y \in Messages \ {c} : y \in unread' <=> y \in unread
    BY <1>t DEF DeleteIndividualContainer, NewRow, OutOfTree
<1>. QED BY <1>1, <1>2, OutsideTotals

\* A restart abandons only what no mailbox shows.
LEMMA RestartTotals ==
    ASSUME TotalsState, [Next]_vars, Restart PROVE TotalsInv'
<1>1. /\ \A y \in Containers : \/ parent'[y] = parent[y]
                              \/ (parent[y] = Uncommitted /\ parent'[y] = ToBeDeleted)
      /\ accounts' = accounts /\ totals' = totals
      /\ \A y \in Messages : y \in Rows => (y \in unread' <=> y \in unread)
    BY DEF Restart, Rows
<1>. QED BY <1>1, OutsideTotals DEF OutOfTree

\* The folder of a mailbox that a request finds is on its branch.
LEMMA FolderOnBranch ==
    ASSUME NEW f \in Folders, Live(f), parent[f] # Uncommitted
    PROVE  f \in Branch(Owner[f])
BY DEF Branch

\* A message that is added below a folder is counted.
LEMMA AddedTotals ==
    ASSUME TotalsState, [Next]_vars, NEW n \in Messages, NEW f \in Folders,
           Live(f), parent[f] # Uncommitted, Owner[f] = Owner[n], Owner[n] \in accounts,
           n \notin Rows, parent'[n] = f, accounts' = accounts,
           \A y \in Containers : y \in Rows \/ y \in Messages \ {n} => parent'[y] = parent[y],
           \A m \in Messages \ {n} : m \in unread' <=> m \in unread,
           UpdateTotals(Owner[n], [messages |-> 1, unread |-> IF n \in unread' THEN 1 ELSE 0])
    PROVE  TotalsInv'
<1>. SUFFICES ASSUME NEW mb \in accounts PROVE totals'[mb] = CountsOf(ShownIn(mb))'
    BY DEF TotalsInv
<1>t. mb \in MailBoxes /\ DOMAIN totals = MailBoxes /\ Messages \subseteq Containers
    BY DEF TotalsState, Inv, TypeOK, Containers, Users
<1>1. ASSUME NEW y \in Branch(mb) PROVE parent'[y] = parent[y]
    <2>1. y \in Containers /\ y \in Rows
        BY <1>t, BranchIs DEF TotalsState
    <2>. QED BY <2>1
<1>2. n \notin ShownIn(mb)
    BY LiveIsRow DEF ShownIn, Shown
<1>3. \A m \in ShownIn(mb) : m \in unread' <=> m \in unread
    BY <1>2 DEF ShownIn
<1>4. \A m \in Messages \ {n} : parent'[m] = parent[m]
    BY <1>t
<1>5. CASE mb = Owner[n]
    <2>1. f \in Branch(mb)
        BY <1>5, FolderOnBranch
    <2>2. ShownIn(mb)' = ShownIn(mb) \cup {n}
        BY <1>t, <1>1, <1>4, <1>5, <2>1, OneMoreShown DEF TotalsState
    <2>3. totals'[mb] = Plus(totals[mb], [messages |-> 1,
                                          unread |-> IF n \in unread' THEN 1 ELSE 0])
        BY <1>t, <1>5 DEF UpdateTotals
    <2>4. totals[mb] = CountsOf(ShownIn(mb))
        BY DEF TotalsState, TotalsInv
    <2>. QED BY <1>t, <1>2, <1>3, <2>2, <2>3, <2>4, OneMoreTotals
<1>6. CASE mb # Owner[n]
    <2>1. totals'[mb] = totals[mb]
        BY <1>t, <1>6 DEF UpdateTotals
    <2>. QED BY <1>t, <1>1, <1>3, <1>4, <1>6, <2>1, UntouchedTotals
<1>. QED BY <1>5, <1>6

\* A commit of a buffered message adds it.
LEMMA CommitBufferedTotals ==
    ASSUME TotalsState, [Next]_vars, NEW m \in Messages, NEW ps \in SUBSET Parts,
           CommitBufferedMessage(m, ps)
    PROVE  TotalsInv'
<1>. DEFINE f == draft[m]
<1>1. f \in Folders /\ Given(f) /\ Owner[f] = Owner[m] /\ Live(f) /\ m \notin Rows
    BY DEF CommitBufferedMessage, Drafts, TotalsState, TreeInv, DraftShape, Inv, IdsUsed,
           TypeOK, Rows
<1>2. /\ parent' = [c \in Containers |-> IF c = m THEN f ELSE IF c \in ps THEN m ELSE parent[c]]
      /\ ps \cap Rows = {} /\ ps \cap Messages = {} /\ m \in Containers
    BY DEF CommitBufferedMessage, TotalsState, Inv, IdsUsed, Rows, Containers, Users
<1>3. /\ UpdateTotals(Owner[m], OwnCounts(m)) /\ accounts' = accounts /\ unread' = unread
      /\ Owner[m] \in accounts
    BY DEF CommitBufferedMessage, UpdateTotals
<1>4. OwnCounts(m) = [messages |-> 1, unread |-> IF m \in unread' THEN 1 ELSE 0]
    BY <1>3 DEF OwnCounts
<1>5. /\ parent'[m] = f
      /\ \A y \in Containers : y \in Rows \/ y \in Messages \ {m} => parent'[y] = parent[y]
    BY <1>1, <1>2
<1>6. UpdateTotals(Owner[m], [messages |-> 1, unread |-> IF m \in unread' THEN 1 ELSE 0])
    BY <1>3, <1>4
<1>. HIDE DEF f
<1>. QED BY <1>1, <1>3, <1>5, <1>6, AddedTotals DEF Given

\* A copy adds a message with the flags of its original.
LEMMA CopyMessageTotals ==
    ASSUME TotalsState, [Next]_vars, NEW m \in Messages, NEW n \in Messages, NEW f \in Folders,
           NEW g \in [ChildrenOf(m) -> Parts], CopyMessage(m, f, n, g)
    PROVE  TotalsInv'
<1>1. Copied(m, n, g, f) /\ accounts' = accounts
    BY DEF CopyMessage
<1>2. PICK Q \in SUBSET Parts : Q = {g[p] : p \in DOMAIN g}
    <2>1. {g[p] : p \in DOMAIN g} \in SUBSET Parts
        OBVIOUS
    <2>. QED BY <2>1
<1>3. /\ parent' = [c \in Containers |-> IF c = n THEN f ELSE IF c \in Q THEN n ELSE parent[c]]
      /\ n \notin used /\ Q \cap used = {}
      /\ unread' = IF m \in unread THEN unread \cup {n} ELSE unread
    BY <1>1, <1>2 DEF Copied
<1>4. /\ n \notin Rows /\ Q \cap Rows = {} /\ Q \cap Messages = {}
      /\ n \notin unread /\ n \in Containers
    BY <1>2, <1>3 DEF TotalsState, Inv, IdsUsed, UnreadUsed, Rows, Containers, Users
<1>5. /\ Live(f) /\ parent[f] # Uncommitted /\ Owner[f] = Owner[m] /\ Owner[n] = Owner[m]
    BY KnownGiven DEF CopyMessage, Copyable, Given
<1>6. UpdateTotals(Owner[m], OwnCounts(m)) /\ Owner[m] \in accounts
    BY DEF CopyMessage, UpdateTotals
<1>7. OwnCounts(m) = [messages |-> 1, unread |-> IF n \in unread' THEN 1 ELSE 0]
    BY <1>3, <1>4 DEF OwnCounts
<1>8. /\ parent'[n] = f
      /\ \A y \in Containers : y \in Rows \/ y \in Messages \ {n} => parent'[y] = parent[y]
    BY <1>3, <1>4
<1>9. \A x \in Messages \ {n} : x \in unread' <=> x \in unread
    BY <1>3
<1>10. UpdateTotals(Owner[n], [messages |-> 1, unread |-> IF n \in unread' THEN 1 ELSE 0])
    BY <1>5, <1>6, <1>7
<1>11. Owner[f] = Owner[n] /\ Owner[n] \in accounts
    BY <1>5, <1>6
<1>. QED BY <1>1, <1>4, <1>5, <1>8, <1>9, <1>10, <1>11, AddedTotals

\* A flag that flips takes the total of unread messages with it.
LEMMA UpdateTotalsOfFlip ==
    ASSUME TotalsState, [Next]_vars, NEW m \in Messages, UpdateProperties(m)
    PROVE  TotalsInv'
<1>. DEFINE flip == IF m \in unread THEN -1 ELSE 1
<1>1. /\ parent' = parent /\ accounts' = accounts /\ Live(m)
      /\ unread' = IF m \in unread THEN unread \ {m} ELSE unread \cup {m}
      /\ totals' = IF parent[m] = Uncommitted THEN totals
                   ELSE [totals EXCEPT ![Owner[m]] = Plus(@, [messages |-> 0, unread |-> flip])]
    BY DEF UpdateProperties
<1>. SUFFICES ASSUME NEW mb \in accounts PROVE totals'[mb] = CountsOf(ShownIn(mb))'
    BY <1>1 DEF TotalsInv
<1>t. mb \in MailBoxes /\ DOMAIN totals = MailBoxes
    BY DEF TotalsState, Inv, TypeOK
<1>2. CASE m \notin ShownIn(mb)
    <2>1. \A x \in ShownIn(mb) : x \in unread' <=> x \in unread
        BY <1>1, <1>2
    <2>2. totals'[mb] = totals[mb]
        <3>1. parent[m] = Uncommitted \/ Owner[m] # mb
            BY <1>1, <1>2 DEF ShownIn, Shown
        <3>. QED BY <1>1, <1>t, <3>1
    <2>. QED BY <1>1, <1>t, <2>1, <2>2, UntouchedTotals
<1>3. CASE m \in ShownIn(mb)
    <2>1. ShownIn(mb)' = ShownIn(mb)
        BY <1>1, <1>t, BranchUntouched DEF TotalsState
    <2>2. PICK K \in SUBSET Messages : K = ShownIn(mb)
        BY DEF ShownIn
    <2>3. PICK U : U = K \cap unread
        OBVIOUS
    <2>4. PICK V : V = K \cap unread'
        OBVIOUS
    <2>5. IsFiniteSet(U) /\ IsFiniteSet(V) /\ Cardinality(U) \in Nat /\ Cardinality(V) \in Nat
        BY <2>2, <2>3, <2>4, MessagesFinite
    <2>6. Cardinality(V) = Cardinality(U) + flip
        <3>1. CASE m \in unread
            <4>1. m \in U /\ V = U \ {m}
                BY <1>1, <1>3, <2>2, <2>3, <2>4, <3>1
            <4>2. Cardinality(V) = Cardinality(U) - 1
                BY <2>5, <4>1, FS_RemoveElement
            <4>. QED BY <2>5, <3>1, <4>2
        <3>2. CASE m \notin unread
            <4>1. m \notin U /\ V = U \cup {m}
                BY <1>1, <1>3, <2>2, <2>3, <2>4, <3>2
            <4>2. Cardinality(V) = Cardinality(U) + 1
                BY <2>5, <4>1, FS_AddElement
            <4>. QED BY <2>5, <3>2, <4>2
        <3>. QED BY <3>1, <3>2
    <2>7. totals[mb] = [messages |-> Cardinality(K), unread |-> Cardinality(U)]
        BY <2>2, <2>3, Zenon DEF TotalsState, TotalsInv, CountsOf, CountsIn
    <2>8. totals'[mb] = Plus(totals[mb], [messages |-> 0, unread |-> flip])
        <3>1. Owner[m] = mb /\ parent[m] # Uncommitted
            BY <1>3 DEF ShownIn, Shown
        <3>. QED BY <1>1, <1>t, <3>1
    <2>9. Cardinality(K) \in Nat
        BY MessagesFinite
    <2>10. totals'[mb] = [messages |-> Cardinality(K), unread |-> Cardinality(V)]
        <3>1. PICK a : a = Cardinality(K)
            OBVIOUS
        <3>2. a + 0 = a
            BY <2>9, <3>1
        <3>3. Plus([messages |-> a, unread |-> Cardinality(U)], [messages |-> 0, unread |-> flip])
              = [messages |-> a, unread |-> Cardinality(V)]
            BY <2>6, <3>2 DEF Plus
        <3>. QED BY <2>7, <2>8, <3>1, <3>3, Zenon
    <2>11. CountsOf(ShownIn(mb))' = [messages |-> Cardinality(K), unread |-> Cardinality(V)]
        BY <2>1, <2>2, <2>4, Zenon DEF CountsOf, CountsIn
    <2>. QED BY <2>10, <2>11
<1>. QED BY <1>2, <1>3

\* The messages of the other mailboxes stay where they are when one is deleted.
LEMMA DeleteAccountTotals ==
    ASSUME TotalsState, [Next]_vars, NEW x \in MailBoxes, DeleteAccount(x) PROVE TotalsInv'
<1>1. /\ parent' = [parent EXCEPT ![x] = ToBeDeleted] /\ unread' = unread
      /\ accounts' = accounts \ {x} /\ totals' = [totals EXCEPT ![x] = Zero]
    BY DEF DeleteAccount, MoveL
<1>. SUFFICES ASSUME NEW mb \in accounts, mb # x PROVE totals'[mb] = CountsOf(ShownIn(mb))'
    BY <1>1 DEF TotalsInv
<1>t. /\ mb \in MailBoxes /\ DOMAIN totals = MailBoxes
      /\ parent \in [Containers -> Containers \cup Specials]
    BY DEF TotalsState, Inv, TypeOK
<1>2. \A y \in Containers \ {x} : parent'[y] = parent[y]
    BY <1>1, <1>t
<1>3. \A y \in Branch(mb) : parent'[y] = parent[y]
    BY <1>t, <1>2, BranchIs DEF TotalsState, Users
<1>4. \A m \in Messages : parent'[m] = parent[m]
    BY <1>2 DEF Containers, Users
<1>. QED BY <1>1, <1>t, <1>3, <1>4, UntouchedTotals

\* What is live stays live when a live row goes below a live one.
LEMMA MoveKeepsLive ==
    ASSUME TypeOK, NEW c \in Containers, Live(c), NEW to \in Containers, Live(to),
           parent' = [parent EXCEPT ![c] = to], NEW x, Live(x)
    PROVE  Live(x)'
<1>1. PICK S \in SUBSET Containers : to \in S /\ Closed(S, Ends)
    BY LiveByClosed
<1>2. PICK T \in SUBSET Containers : x \in T /\ Closed(T, Ends)
    BY LiveByClosed
<1>3. PICK Q \in SUBSET Containers : Q = S \cup T
    OBVIOUS
<1>4. to # None /\ DOMAIN parent = Containers
    BY DEF TypeOK, Specials
<1>5. ASSUME NEW y \in Q PROVE IsRow(y)' /\ parent'[y] \in Q \cup Ends
    <2>1. IsRow(y) /\ parent[y] \in Q \cup Ends
        BY <1>1, <1>2, <1>3, <1>5 DEF Closed
    <2>. QED BY <1>1, <1>3, <1>4, <2>1 DEF IsRow
<1>6. Closed(Q, Ends)'
    BY <1>5 DEF Closed, IsRow
<1>. QED BY <1>2, <1>3, <1>6, LiveByClosedPrime

\* A move within a mailbox changes nothing of what it shows.
LEMMA MoveContainerTotals ==
    ASSUME TotalsState, [Next]_vars, NEW c \in Folders \cup Messages,
           NEW to \in MailBoxes \cup Folders, MoveContainer(c, to)
    PROVE  TotalsInv'
<1>1. /\ parent' = [parent EXCEPT ![c] = to] /\ unread' = unread
      /\ accounts' = accounts /\ totals' = totals
      /\ Live(c) /\ Live(to) /\ parent[c] # Uncommitted
    BY DEF MoveContainer, MoveL
<1>t. /\ TypeOK /\ parent \in [Containers -> Containers \cup Specials]
      /\ c \in Containers /\ to \in Containers
    BY DEF TotalsState, Inv, TypeOK, Containers, Users
<1>2. ASSUME NEW m \in Messages PROVE Shown(m) <=> Shown(m)'
    <2>1. m \in Containers /\ parent'[m] = IF m = c THEN to ELSE parent[m]
        BY <1>1, <1>t DEF Containers, Users
    <2>2. ASSUME Shown(m) PROVE Shown(m)'
        <3>1. Live(m)'
            BY <1>1, <1>t, <2>2, MoveKeepsLive DEF Shown
        <3>2. parent'[m] # Uncommitted
            BY <2>1, <2>2, <1>t DEF Shown, Specials
        <3>. QED BY <3>1, <3>2 DEF Shown
    <2>3. ASSUME Shown(m)' PROVE Shown(m)
        <3>1. parent'[m] # Uncommitted /\ parent'[m] # None
            BY <2>3, NotShown DEF OutOfTree
        <3>2. parent[m] # Uncommitted /\ parent[m] # None
            BY <1>1, <2>1, <3>1, LiveInTree DEF OutOfTree
        <3>. QED BY <2>3, <3>2, NothingAppears DEF TotalsState
    <2>. QED BY <2>2, <2>3
<1>. SUFFICES ASSUME NEW mb \in accounts PROVE totals'[mb] = CountsOf(ShownIn(mb))'
    BY <1>1 DEF TotalsInv
<1>3. ShownIn(mb)' = ShownIn(mb)
    BY <1>2 DEF ShownIn
<1>. QED BY <1>1, <1>3, SameTotals DEF TotalsState, TotalsInv

\* The folders below a container: the search goes on below each it finds.
LEMMA FoldersBelowGrow ==
    ASSUME NEW c, NEW g \in Folders,
           parent[g] = c \/ (parent[g] \in FoldersBelow(c) /\ childrenCount[parent[g]] > 0)
    PROVE  g \in FoldersBelow(c)
BY DEF FoldersBelow

\* It comes to none outside a set it does not leave.
LEMMA FoldersBelowWithin ==
    ASSUME NEW c, NEW S \in SUBSET Folders,
           \A g \in Folders : parent[g] = c \/ parent[g] \in S => g \in S
    PROVE  FoldersBelow(c) \subseteq S
BY DEF FoldersBelow

\* What has a child folder records that it has one.
LEMMA ParentCounts ==
    ASSUME TypeOK, NEW g \in Users, NEW p \in Containers, parent[g] = p, ExactAt(p)
    PROVE  childrenCount[p] > 0
<1>1. g \in ChildrenOf(p)
    BY DEF ChildrenOf
<1>2. IsFiniteSet(ChildrenOf(p))
    BY ChildrenFinite
<1>3. Cardinality(ChildrenOf(p)) \in Nat /\ Cardinality(ChildrenOf(p)) # 0
    BY <1>1, <1>2, FS_CardinalityType, FS_EmptySet
<1>. QED BY <1>3 DEF ExactAt

\* The folders below one of a mailbox are live, committed and of the same mailbox.
LEMMA FoldersBelowLive ==
    ASSUME Inv, TreeInv, NEW c \in Folders \cup Messages \cup Parts, Live(c),
           parent[c] # Uncommitted,
           NEW f \in FoldersBelow(c)
    PROVE  /\ c \in Folders /\ f \in Folders /\ Owner[f] = Owner[c]
           /\ Live(f) /\ parent[f] # Uncommitted
<1>. DEFINE S == {g \in Folders : /\ c \in Folders /\ Owner[g] = Owner[c]
                                  /\ Live(g) /\ parent[g] # Uncommitted}
<1>1. ASSUME NEW g \in Folders, parent[g] = c \/ parent[g] \in S PROVE g \in S
    <2>1. parent[g] \in Folders \cup Messages \cup Parts /\ Live(parent[g])
        BY <1>1
    <2>2. parent[g] \in Folders /\ Owner[parent[g]] = Owner[g]
        <3>1. parent[g] \notin MailBoxes \cup {None, Uncommitted, ToBeDeleted, ToRetryDelete}
            BY <2>1 DEF Specials, Containers, Users
        <3>. QED BY <3>1 DEF TreeInv, TreeShape
    <2>3. Live(g) /\ parent[g] # Uncommitted
        BY <2>1, <2>2, LiveChild DEF Specials, Containers, Users
    <2>. QED BY <1>1, <2>2, <2>3
<1>2. FoldersBelow(c) \subseteq S
    BY <1>1, FoldersBelowWithin
<1>. QED BY <1>2

\* No folder is below itself.
LEMMA NotBelowItself ==
    ASSUME NoCycle, NEW c PROVE c \notin FoldersBelow(c)
<1>. SUFFICES ASSUME c \in FoldersBelow(c) PROVE FALSE
    OBVIOUS
<1>1. PICK B \in SUBSET Folders : B = FoldersBelow(c)
    BY DEF FoldersBelow
<1>. DEFINE S == {g \in B : parent[g] \in B}
<1>2. B \subseteq S
    <2>1. ASSUME NEW g \in Folders,
                 parent[g] = c \/ (parent[g] \in S /\ childrenCount[parent[g]] > 0)
          PROVE  g \in S
        <3>1. parent[g] \in B
            BY <1>1, <2>1
        <3>2. g \in B
            BY <1>1, <2>1, FoldersBelowGrow
        <3>. QED BY <3>1, <3>2
    <2>2. S \in SUBSET Folders
        OBVIOUS
    <2>. HIDE DEF S
    <2>. QED BY <1>1, <2>1, <2>2 DEF FoldersBelow
<1>3. B # {} /\ \A g \in B : parent[g] \in B
    BY <1>1, <1>2
<1>. QED BY <1>3 DEF NoCycle

\* What is gone when a container is deleted: itself, if it is a message, and the messages
\* below it.
Gone(c) == ({c} \cap Messages) \cup MessagesIn({c} \cup FoldersBelow(c))

\* The delta of a deletion counts what is gone.
LEMMA DeltaIsGone ==
    ASSUME TotalsState, CountsInv, NoCycle, NEW c \in Folders \cup Messages \cup Parts,
           Live(c), parent[c] # Uncommitted
    PROVE  TotalCountsDelta(c, ToBeDeleted) = Minus(Zero, CountsOf(Gone(c)))
<1>. DEFINE B == MessagesIn({c} \cup FoldersBelow(c))
<1>t. TypeOK /\ c \in Containers /\ unread \subseteq Messages
    BY DEF TotalsState, Inv, TypeOK, Containers, Users
<1>1. ExactAt(c) /\ \A f \in FoldersBelow(c) : ExactAt(f)
    BY <1>t, FoldersBelowLive DEF CountsInv, TotalsState, Containers, Users
<1>2. DescendantCounts(c) = CountsOf(B)
    BY <1>t, <1>1, NotBelowItself, DescendantsAre
<1>3. OwnCounts(c) = CountsOf({c} \cap Messages)
    <2>1. CASE c \in Messages
        <3>1. {c} \cap Messages = {c}
            BY <2>1
        <3>2. CountsIn({c}, unread) = [messages |-> 1, unread |-> IF c \in unread THEN 1 ELSE 0]
            BY OneCounted
        <3>3. OwnCounts(c) = [messages |-> 1, unread |-> IF c \in unread THEN 1 ELSE 0]
            BY <2>1 DEF OwnCounts
        <3>. QED BY <3>1, <3>2, <3>3, Zenon DEF CountsOf
    <2>2. CASE c \notin Messages
        <3>1. {c} \cap Messages = {} /\ {} \cap unread = {} /\ c \notin unread
            BY <1>t, <2>2
        <3>2. Cardinality({}) = 0
            BY FS_EmptySet
        <3>3. CountsOf({c} \cap Messages) = [messages |-> 0, unread |-> 0]
            BY <3>1, <3>2, Zenon DEF CountsOf, CountsIn
        <3>. QED BY <2>2, <3>1, <3>3 DEF OwnCounts
    <2>. QED BY <2>1, <2>2
<1>4. ({c} \cap Messages) \cap B = {}
    <2>. SUFFICES ASSUME c \in Messages, parent[c] \in {c} \cup FoldersBelow(c) PROVE FALSE
        BY DEF MessagesIn
    <2>1. FoldersBelow(c) = {}
        BY FoldersBelowLive DEF TotalsState
    <2>2. parent[c] \in Folders \/ parent[c] \in OutOfTree
        BY DEF TotalsState, TreeInv, TreeShape, OutOfTree
    <2>. QED BY <2>1, <2>2, <1>t DEF OutOfTree, Specials
<1>5. CountsOf(Gone(c)) = Plus(OwnCounts(c), DescendantCounts(c))
    <2>1. ({c} \cap Messages) \in SUBSET Messages /\ B \in SUBSET Messages
        BY DEF MessagesIn
    <2>2. CountsOf(({c} \cap Messages) \cup B) = Plus(CountsOf({c} \cap Messages), CountsOf(B))
        BY <1>4, <2>1, CountsTogether
    <2>. HIDE DEF B
    <2>. QED BY <1>2, <1>3, <2>2, Zenon DEF Gone, B
<1>. QED BY <1>5, Zenon DEF TotalCountsDelta

\* It was shown by the mailbox...
LEMMA GoneWasShown ==
    ASSUME TotalsState, NEW c \in Folders \cup Messages, Live(c), parent[c] # Uncommitted
    PROVE  Gone(c) \subseteq ShownIn(Owner[c])
<1>. SUFFICES ASSUME NEW m \in Gone(c) PROVE m \in ShownIn(Owner[c])
    OBVIOUS
<1>1. CASE m = c /\ c \in Messages
    BY <1>1 DEF ShownIn, Shown
<1>2. CASE m \in Messages /\ parent[m] \in {c} \cup FoldersBelow(c)
    <2>1. parent[m] \in Folders \cup Messages /\ Live(parent[m]) /\ Owner[parent[m]] = Owner[c]
        BY <1>2, FoldersBelowLive DEF TotalsState
    <2>2. parent[m] \in Folders /\ Owner[parent[m]] = Owner[m]
        <3>1. parent[m] \notin {None, Uncommitted, ToBeDeleted, ToRetryDelete}
            BY <2>1 DEF Specials, Containers, Users
        <3>. QED BY <1>2, <3>1 DEF TotalsState, TreeInv, TreeShape
    <2>3. Live(m) /\ parent[m] # Uncommitted
        BY <1>2, <2>1, <2>2, LiveChild DEF Specials, Containers, Users
    <2>. QED BY <1>2, <2>1, <2>2, <2>3 DEF ShownIn, Shown
<1>. QED BY <1>1, <1>2 DEF Gone, MessagesIn

\* ...is not shown any more...
LEMMA GoneIsGone ==
    ASSUME TypeOK, NEW c \in Folders \cup Messages \cup Parts,
           parent' = [parent EXCEPT ![c] = ToBeDeleted],
           NEW m \in Gone(c)
    PROVE  ~Shown(m)'
<1>t. parent \in [Containers -> Containers \cup Specials] /\ c \in Containers
    BY DEF TypeOK, Containers, Users
<1>1. ~Live(c)'
    BY <1>t, OutOfTreeDead DEF OutOfTree
<1>2. ASSUME NEW x \in Users, x # c, NEW p \in Containers, parent[x] = p, ~Live(p)'
      PROVE  ~Live(x)'
    <2>. SUFFICES ASSUME Live(x)' PROVE FALSE
        OBVIOUS
    <2>1. PICK S \in SUBSET Containers : x \in S /\ Closed(S, Ends)'
        BY LiveByClosedPrime
    <2>2. parent'[x] = parent[x] /\ parent'[x] \in S \cup Ends
        BY <1>t, <1>2, <2>1 DEF Closed, Containers
    <2>3. p \in S
        BY <1>2, <2>2 DEF Ends, Specials
    <2>. QED BY <1>2, <2>1, <2>3, LiveByClosedPrime
<1>. DEFINE D == {f \in Folders : ~Live(f)'}
<1>3. ASSUME NEW g \in Folders, parent[g] = c \/ parent[g] \in D PROVE g \in D
    <2>1. CASE g = c
        BY <1>1, <2>1
    <2>2. CASE g # c
        <3>1. PICK p \in Containers : parent[g] = p /\ ~Live(p)'
            BY <1>t, <1>1, <1>3 DEF Containers, Users
        <3>. QED BY <1>2, <2>2, <3>1 DEF Users
    <2>. QED BY <2>1, <2>2
<1>4. FoldersBelow(c) \subseteq D
    BY <1>3, FoldersBelowWithin
<1>5. CASE m = c
    BY <1>1, <1>5 DEF Shown
<1>6. CASE m \in Messages /\ m # c /\ parent[m] \in {c} \cup FoldersBelow(c)
    <2>1. PICK p \in Containers : parent[m] = p /\ ~Live(p)'
        BY <1>t, <1>1, <1>4, <1>6 DEF Containers, Users
    <2>2. ~Live(m)'
        BY <1>2, <1>6, <2>1 DEF Users
    <2>. QED BY <2>2 DEF Shown
<1>. QED BY <1>5, <1>6 DEF Gone, MessagesIn

\* ...and nothing else went.
LEMMA RestIsShown ==
    ASSUME TotalsState, CountsInv, NEW c \in Folders \cup Messages \cup Parts, Live(c),
           parent' = [parent EXCEPT ![c] = ToBeDeleted],
           NEW mb \in MailBoxes, NEW m \in ShownIn(mb), m \notin Gone(c)
    PROVE  m \in ShownIn(mb)'
<1>t. /\ parent \in [Containers -> Containers \cup Specials] /\ c \in Containers /\ TypeOK
      /\ c # mb /\ c # Root
    BY DEF TotalsState, Inv, TypeOK, Containers, Users
<1>1. PICK S : S = (Branch(mb) \ ({c} \cup FoldersBelow(c))) \cup {m}
    OBVIOUS
<1>2. /\ m \in Messages /\ parent[m] \in Branch(mb) /\ parent[m] \in Folders /\ m \in Users /\ m # c
      /\ parent[m] \notin {c} \cup FoldersBelow(c)
    BY ShownParent DEF TotalsState, Gone, MessagesIn, ShownIn
<1>3. ASSUME NEW y \in S PROVE y \in Containers /\ IsRow(y)' /\ parent'[y] \in S \cup Ends
    <2>1. CASE y = m
        <3>1. y \in Containers /\ parent'[y] = parent[y] /\ parent[m] # None
            BY <1>2, <1>t, <2>1 DEF Containers, Users, Specials
        <3>. QED BY <1>1, <1>2, <2>1, <3>1 DEF IsRow
    <2>2. CASE y \in Branch(mb) /\ y # c /\ y \notin FoldersBelow(c)
        <3>1. /\ y \in Containers /\ Live(y) /\ parent[y] # None /\ y \in Folders \cup {mb, Root}
              /\ parent[y] \in Branch(mb) \cup Ends
            BY <2>2, BranchIs, BranchParent DEF TotalsState, Ends
        <3>2. parent'[y] = parent[y]
            BY <1>t, <2>2, <3>1
        <3>3. parent[y] \notin {c} \cup FoldersBelow(c)
            <4>1. CASE y \in Folders
                <5>1. ASSUME parent[y] \in FoldersBelow(c) PROVE FALSE
                    <6>1. parent[y] \in Folders /\ parent[y] \in Containers
                        BY <5>1 DEF FoldersBelow, Containers, Users
                    <6>2. ExactAt(parent[y])
                        BY <3>1, <6>1, LiveParent DEF CountsInv
                    <6>3. childrenCount[parent[y]] > 0
                        BY <1>t, <4>1, <6>1, <6>2, ParentCounts DEF Users
                    <6>. QED BY <2>2, <4>1, <5>1, <6>3, FoldersBelowGrow
                <5>. QED BY <2>2, <4>1, <5>1, FoldersBelowGrow
            <4>2. CASE y = mb
                <5>1. parent[y] \in {Root} \cup OutOfTree
                    BY <4>2 DEF TotalsState, MailBoxesAtRoot
                <5>. QED BY <1>t, <5>1 DEF OutOfTree, FoldersBelow, Specials, Containers, Users
            <4>3. CASE y = Root
                <5>1. parent[y] = Invalid
                    BY <1>t, <4>3 DEF TypeOK
                <5>. QED BY <1>t, <5>1 DEF FoldersBelow, Specials, Containers, Users
            <4>. QED BY <3>1, <4>1, <4>2, <4>3
        <3>. QED BY <1>1, <3>1, <3>2, <3>3 DEF IsRow
    <2>. QED BY <1>1, <1>3, <2>1, <2>2
<1>4. Closed(S, Ends)' /\ S \in SUBSET Containers
    BY <1>3 DEF Closed, IsRow
<1>5. Live(m)'
    BY <1>1, <1>4, LiveByClosedPrime
<1>6. parent'[m] = parent[m] /\ parent[m] # Uncommitted
    BY <1>2, <1>t DEF Containers, Users, Specials
<1>. QED BY <1>2, <1>5, <1>6 DEF ShownIn, Shown

\* So a deletion takes what is gone, and nothing else, from what each mailbox shows.
LEMMA DeletionShows ==
    ASSUME TotalsState, CountsInv, [Next]_vars, NEW c \in Folders \cup Messages \cup Parts,
           Live(c), parent[c] # Uncommitted, parent' = [parent EXCEPT ![c] = ToBeDeleted],
           NEW mb \in MailBoxes
    PROVE  ShownIn(mb)' = ShownIn(mb) \ Gone(c)
<1>t. parent \in [Containers -> Containers \cup Specials] /\ c \in Containers /\ TypeOK
    BY DEF TotalsState, Inv, TypeOK, Containers, Users
<1>1. ASSUME NEW m \in ShownIn(mb)' PROVE m \in ShownIn(mb) \ Gone(c)
    <2>1. m \in Messages /\ Owner[m] = mb /\ Shown(m)'
        BY DEF ShownIn
    <2>2. m \notin Gone(c)
        BY <1>t, <2>1, GoneIsGone
    <2>3. parent'[m] \notin OutOfTree \cup {Uncommitted}
        BY <2>1, NotShown
    <2>4. parent'[m] = parent[m]
        BY <1>t, <2>1, <2>3 DEF OutOfTree, Containers, Users
    <2>5. Shown(m)
        BY <2>1, <2>3, <2>4, NothingAppears DEF OutOfTree, TotalsState
    <2>. QED BY <2>1, <2>2, <2>5 DEF ShownIn
<1>2. ASSUME NEW m \in ShownIn(mb), m \notin Gone(c) PROVE m \in ShownIn(mb)'
    BY <1>2, RestIsShown
<1>. QED BY <1>1, <1>2

\* A deletion takes from the totals of the mailbox what it shows no more.
LEMMA DeleteContainerTotals ==
    ASSUME TotalsState, CountsInv, NoCycle, [Next]_vars,
           NEW c \in Folders \cup Messages \cup Parts,
           DeleteContainer(c)
    PROVE  TotalsInv'
<1>. DEFINE box == MailBoxOf(c)
<1>1. /\ Live(c) /\ parent[c] # Uncommitted /\ parent' = [parent EXCEPT ![c] = ToBeDeleted]
      /\ unread' = unread /\ accounts' = accounts
      /\ UpdateTotals(box, TotalCountsDelta(c, ToBeDeleted))
    BY DEF DeleteContainer, MoveL
<1>2. Gone(c) \subseteq ShownIn(box)
    <2>1. CASE c \in Folders \cup Messages
        <3>1. box = Owner[c]
            BY <2>1 DEF MailBoxOf
        <3>. QED BY <1>1, <2>1, <3>1, GoneWasShown
    <2>2. CASE c \in Parts
        <3>1. FoldersBelow(c) = {}
            BY <1>1, <2>2, FoldersBelowLive DEF TotalsState
        <3>2. ASSUME NEW m \in Messages, parent[m] = c PROVE FALSE
            BY <2>2, <3>2 DEF TotalsState, TreeInv, TreeShape, Specials, Containers, Users
        <3>3. Gone(c) = {}
            BY <2>2, <3>1, <3>2 DEF Gone, MessagesIn
        <3>. QED BY <3>3
    <2>. QED BY <2>1, <2>2
<1>. SUFFICES ASSUME NEW mb \in accounts PROVE totals'[mb] = CountsOf(ShownIn(mb))'
    BY <1>1 DEF TotalsInv
<1>t. mb \in MailBoxes /\ DOMAIN totals = MailBoxes
    BY DEF TotalsState, Inv, TypeOK
<1>3. ShownIn(mb)' = ShownIn(mb) \ Gone(c)
    BY <1>1, <1>t, DeletionShows
<1>4. totals[mb] = CountsOf(ShownIn(mb))
    BY DEF TotalsState, TotalsInv
<1>5. CASE mb = box
    <2>1. PICK K \in SUBSET Messages, L \in SUBSET Messages :
              K = Gone(c) /\ L = ShownIn(mb) \ Gone(c)
        <3>1. Gone(c) \in SUBSET Messages /\ ShownIn(mb) \ Gone(c) \in SUBSET Messages
            BY DEF Gone, MessagesIn, ShownIn
        <3>. QED BY <3>1
    <2>2. ShownIn(mb) = K \cup L /\ K \cap L = {}
        BY <1>2, <1>5, <2>1
    <2>3. CountsOf(ShownIn(mb)) = Plus(CountsOf(K), CountsOf(L))
        BY <2>2, CountsTogether
    <2>4. CountsOf(K) \in Counts /\ CountsOf(L) \in Counts
        <3>1. {} \in SUBSET Messages /\ K \cap {} = {} /\ L \cap {} = {}
            OBVIOUS
        <3>. QED BY <3>1, CountsTogether
    <2>5. totals'[mb] = Plus(totals[mb], TotalCountsDelta(c, ToBeDeleted))
        BY <1>1, <1>5, <1>t DEF UpdateTotals
    <2>6. TotalCountsDelta(c, ToBeDeleted) = Minus(Zero, CountsOf(K))
        BY <1>1, <2>1, DeltaIsGone
    <2>7. PICK a \in Counts : a = CountsOf(K)
        BY <2>4
    <2>8. PICK b \in Counts : b = CountsOf(L)
        BY <2>4
    <2>9. Plus(Plus(a, b), Minus(Zero, a)) = b
        BY DEF Plus, Minus, Zero, Counts
    <2>10. totals'[mb] = CountsOf(L)
        BY <1>4, <2>3, <2>5, <2>6, <2>7, <2>8, <2>9, Zenon
    <2>11. CountsOf(ShownIn(mb))' = CountsOf(L)
        BY <1>1, <1>3, <2>1, Zenon DEF CountsOf
    <2>. QED BY <2>10, <2>11
<1>6. CASE mb # box
    <2>1. Gone(c) \cap ShownIn(mb) = {}
        BY <1>2, <1>6 DEF ShownIn
    <2>2. ShownIn(mb)' = ShownIn(mb)
        BY <1>3, <2>1
    <2>3. totals'[mb] = totals[mb]
        BY <1>1, <1>6, <1>t DEF UpdateTotals
    <2>. QED BY <1>1, <1>4, <2>2, <2>3, SameTotals
<1>. QED BY <1>5, <1>6

\* Every step keeps the totals.
LEMMA TotalsStep ==
    ASSUME TotalsState, StackDead, CountsInv, NoCycle, ~Encrypted, [Next]_vars PROVE TotalsInv'
<1>1. ASSUME NEW x \in MailBoxes, CreateAccount(x) \/ DeleteAccount(x) PROVE TotalsInv'
    BY <1>1, CreateAccountTotals, DeleteAccountTotals
<1>2. ASSUME NEW m \in Messages, NEW f \in Folders, NEW u \in BOOLEAN, CreateMessage(m, f, u)
      PROVE  TotalsInv'
    BY <1>2, CreateMessageTotals
<1>3. ASSUME NEW m \in Messages, CommitMessage(m) \/ AbandonMessage(m) PROVE TotalsInv'
    <2>1. m \in Drafts /\ parent[m] = Uncommitted
        BY <1>3 DEF CommitMessage, AbandonMessage
    <2>. QED BY <2>1 DEF TotalsState, Inv, IdsUsed
<1>4. ASSUME NEW m \in Messages, LoseDraft(m) PROVE TotalsInv'
    BY <1>4, LoseDraftTotals
<1>5. ASSUME NEW m \in Messages, UpdateProperties(m) PROVE TotalsInv'
    BY <1>5, UpdateTotalsOfFlip
<1>6. ASSUME NEW m \in Messages, NEW ps \in SUBSET Parts, CommitBufferedMessage(m, ps)
      PROVE  TotalsInv'
    BY <1>6, CommitBufferedTotals
<1>7. ASSUME NEW c \in Folders \cup Parts, NEW p \in Users,
             CreateAndCommit(c, p) \/ CreateAndCommitFails(c, p)
      PROVE  TotalsInv'
    BY <1>7, CreateAndCommitTotals
<1>8. ASSUME NEW c \in Folders \cup Messages \cup Parts, DeleteContainer(c) PROVE TotalsInv'
    BY <1>8, DeleteContainerTotals
<1>9. ASSUME NEW c \in Folders \cup Messages, NEW to \in MailBoxes \cup Folders,
             MoveContainer(c, to)
      PROVE  TotalsInv'
    BY <1>9, MoveContainerTotals
<1>10. ASSUME NEW m \in Messages, NEW n \in Messages, NEW f \in Folders,
              NEW g \in [ChildrenOf(m) -> Parts],
              CopyMessage(m, f, n, g) \/ CopyMessageFails(m, f, n, g)
       PROVE  TotalsInv'
    BY <1>10, CopyMessageTotals, CopyMessageFailsTotals
<1>11. ASSUME NEW c \in Users, DeleteIndividualContainer(c) PROVE TotalsInv'
    BY <1>11, EraseTotals
<1>12. ASSUME Restart PROVE TotalsInv'
    BY <1>12, RestartTotals
\* The steps that leave rows, flags and totals alone.
<1>0. CASE UNCHANGED <<parent, unread, accounts, totals>>
    BY <1>0, OutsideTotals
<1>13. ASSUME NEW c \in WithContent, OpenContent(c) \/ CloseContent(c) PROVE TotalsInv'
    BY <1>0, <1>13 DEF OpenContent, CloseContent, rows
<1>14. CASE \/ \E c \in Users : DeleteFails(c)
            \/ RetryDeleteDone \/ DeleteFromSortingTable \/ DeleteDone
            \/ UNCHANGED vars
    BY <1>0, <1>14 DEF DeleteFails, RetryDeleteDone, DeleteFromSortingTable, DeleteDone,
                       vars, rows
<1>. QED BY <1>1, <1>2, <1>3, <1>4, <1>5, <1>6, <1>7, <1>8, <1>9, <1>10, <1>11, <1>12, <1>13,
            <1>14
         DEF Next, DeleteHandler

\* While messages under creation are buffered and no folder is below itself, the totals of
\* an account, kept by deltas through every sequence of creations, moves, copies, deletions,
\* flag changes, failed second transactions and restarts, are the numbers of messages and
\* unread messages a client can find in its mailbox.  (With encryption on they are not: a
\* message committed below a folder that was just deleted is counted for ever.)
THEOREM TotalsAreExact == ASSUME ~Encrypted PROVE Spec /\ []NoCycle => []TotalsExact
<1>1. Init => MailBoxesAtRoot /\ TotalsInv
    BY DEF Init, MailBoxesAtRoot, TotalsInv, OutOfTree, Containers, Users
<1>2. Inv /\ MailBoxesAtRoot /\ [Next]_vars => MailBoxesAtRoot'
    BY MailBoxesAtRootStep
<1>3. Inv /\ SortInv /\ UnreadUsed /\ MailBoxesAtRoot /\ TotalsInv => TotalsState
    BY DEF TotalsState, SortInv
<1>4. TotalsState /\ StackDead /\ CountsInv /\ NoCycle /\ [Next]_vars => TotalsInv'
    BY TotalsStep
<1>5. TotalsState => TotalsExact
    <2>. SUFFICES ASSUME TotalsState, NEW mb \in accounts
                  PROVE  totals[mb] = CountsOf({m \in Messages : Visible(m) /\ Owner[m] = mb})
        BY DEF TotalsExact, CountsOf, CountsIn
    <2>1. {m \in Messages : Visible(m) /\ Owner[m] = mb} = ShownIn(mb)
        BY VisibleIsShown DEF ShownIn, TotalsState
    <2>. QED BY <2>1 DEF TotalsState, TotalsInv
<1>. QED BY <1>1, <1>2, <1>3, <1>4, <1>5, Inductive, SortInductive, StackIsDead,
            CountsInductive, PTL
         DEF Spec
=============================================================================
