------------------------ MODULE MessageSearch_proofs ------------------------
(***************************************************************************)
(* Theorems about the search, for any sessions, messages, folders, criteria *)
(* and sizes of the client's buffer.                                        *)
(***************************************************************************)
EXTENDS MessageSearch, LeastNumbers, SequenceTheorems, FiniteSetTheorems, TLAPS

Replies == [ids : Seq(Messages), error : BOOLEAN]

-----------------------------------------------------------------------------
(* The types.                                                                 *)

\* The first elements of a list, and the others.
LEMMA Cut ==
    ASSUME NEW S, NEW ms \in Seq(S), NEW n \in 0..Len(ms)
    PROVE  /\ SubSeq(ms, 1, n) \in Seq(S) /\ Len(SubSeq(ms, 1, n)) = n
           /\ SubSeq(ms, n + 1, Len(ms)) \in Seq(S)
<1>1. Len(ms) \in Nat
  BY LenProperties
<1>2. /\ \A i \in 1..n : i \in 1..Len(ms)
      /\ \A i \in (n + 1)..Len(ms) : i \in 1..Len(ms)
  BY <1>1
<1>3. SubSeq(ms, 1, n) \in Seq(S) /\ Len(SubSeq(ms, 1, n)) = n
  BY <1>1, <1>2, SubSeqProperties
<1>4. SubSeq(ms, n + 1, Len(ms)) \in Seq(S)
  BY <1>1, <1>2, SubSeqProperties
<1>5. QED  BY <1>3, <1>4

\* SortNextFolderL keeps the type of the handler, and does not start it.
LEMMA NextRowTypes ==
    ASSUME TypeOK, NEW h \in Handlers
    PROVE  /\ AtNextRow(h) \in Handlers /\ AtNextRow(h).active = h.active
           /\ AtNextRow(h).criteria = h.criteria
<1>1. CASE h.rows # {}
  BY <1>1 DEF AtNextRow
<1>2. CASE h.rows = {}
  <2> DEFINE nonEmpty == {i \in 1..Len(h.folders) : RowsOf(h.folders[i]) # {}}
  <2>1. h.folders \in Seq(Folders)
    BY DEF Handlers
  <2>2. CASE nonEmpty = {}
    <3>1. AtNextRow(h) = [h EXCEPT !.folders = <<>>]
      BY <1>2, <2>2 DEF AtNextRow
    <3>2. <<>> \in Seq(Folders)
      BY EmptySeq
    <3>3. QED  BY <3>1, <3>2 DEF Handlers
  <2>3. CASE nonEmpty # {}
    <3>1. PICK least : least = CHOOSE i \in nonEmpty : \A j \in nonEmpty : i <= j
      OBVIOUS
    <3>2. AtNextRow(h) = [h EXCEPT !.rows = RowsOf(h.folders[least]),
                                   !.folders = SubSeq(h.folders, least + 1, Len(h.folders))]
      BY <1>2, <2>3, <3>1 DEF AtNextRow
    <3>3. nonEmpty \subseteq Nat
      OBVIOUS
    <3>4. PICK x \in nonEmpty : \A j \in nonEmpty : x <= j
      BY <2>3, <3>3, LeastNumber
    <3>5. least \in nonEmpty
      BY <3>1, <3>4
    <3>6. least \in 0..Len(h.folders)
      BY <3>5
    <3>7. SubSeq(h.folders, least + 1, Len(h.folders)) \in Seq(Folders)
      BY <2>1, <3>6, Cut
    <3>8. RowsOf(h.folders[least]) \subseteq Messages
      BY DEF RowsOf, TypeOK
    <3>9. QED  BY <3>2, <3>7, <3>8 DEF Handlers
  <2>4. QED  BY <2>2, <2>3
<1>3. QED  BY <1>1, <1>2

\* The wire and the matches of the sessions have their types.
WireTyped ==
    /\ matches \in [Sessions -> Seq(Messages)]
    /\ request \in [Sessions -> {"none", "posted", "held", "completed"}]
    /\ reply \in [Sessions -> Replies]
    /\ \A s \in Sessions : Len(reply[s].ids) <= BufferMatches

\* The other sessions' wire stays as it is.
OthersSame(s) ==
    \A t \in Sessions \ {s} :
        request'[t] = request[t] /\ reply'[t] = reply[t] /\ matches'[t] = matches[t]

\* What an answer does.  If every match fits into the buffer, it has a match if there is one.
LEMMA AnswerIs ==
    ASSUME TypeOK, NEW s \in Sessions, NEW ms \in Seq(Messages), Answer(s, ms)
    PROVE  /\ WireTyped' /\ OthersSame(s) /\ request'[s] = "completed"
           /\ Large = {} => /\ ~reply'[s].error
                            /\ reply'[s].ids = <<>> => ms = <<>>
<1>1. PICK n \in Fitting(ms) :
         /\ request' = [request EXCEPT ![s] = "completed"]
         /\ reply' = [reply EXCEPT ![s] = [ids |-> SubSeq(ms, 1, n), error |-> ms # <<>> /\ n = 0]]
         /\ matches' = [matches EXCEPT ![s] = SubSeq(ms, n + 1, Len(ms))]
  BY DEF Answer
<1>2. n \in 0..Len(ms) /\ n <= BufferMatches
  BY DEF Fitting
<1>3. n = 0 => ms = <<>> \/ ms[1] \in Large
  BY DEF Fitting
<1>4. PICK first, rest : first = SubSeq(ms, 1, n) /\ rest = SubSeq(ms, n + 1, Len(ms))
  OBVIOUS
<1>5. first \in Seq(Messages) /\ Len(first) = n /\ rest \in Seq(Messages)
  BY <1>2, <1>4, Cut
<1>6. PICK fails \in BOOLEAN : fails = (ms # <<>> /\ n = 0)
  OBVIOUS
<1>7. PICK answer : answer = [ids |-> first, error |-> fails]
  OBVIOUS
<1>8. answer \in Replies /\ answer.ids = first /\ answer.error = fails
  BY <1>5, <1>7 DEF Replies
<1>9. reply' = [reply EXCEPT ![s] = answer]
  BY <1>1, <1>4, <1>6, <1>7
<1>10. /\ matches \in [Sessions -> Seq(Messages)] /\ reply \in [Sessions -> Replies]
       /\ request \in [Sessions -> {"none", "posted", "held", "completed"}]
       /\ \A t \in Sessions : Len(reply[t].ids) <= BufferMatches
  BY DEF TypeOK, Replies
<1>11. /\ reply' \in [Sessions -> Replies] /\ reply'[s] = answer
       /\ \A t \in Sessions \ {s} : reply'[t] = reply[t]
  BY <1>8, <1>9, <1>10
<1>12. /\ request' \in [Sessions -> {"none", "posted", "held", "completed"}]
       /\ request'[s] = "completed" /\ \A t \in Sessions \ {s} : request'[t] = request[t]
  BY <1>1, <1>10
<1>13. /\ matches' \in [Sessions -> Seq(Messages)]
       /\ \A t \in Sessions \ {s} : matches'[t] = matches[t]
  BY <1>1, <1>4, <1>5, <1>10
<1>14. ASSUME NEW t \in Sessions PROVE Len(reply'[t].ids) <= BufferMatches
  <2>1. CASE t = s
    BY <1>2, <1>5, <1>8, <1>11, <2>1
  <2>2. CASE t # s
    BY <1>10, <1>11, <2>2
  <2>3. QED  BY <2>1, <2>2
<1>15. ASSUME Large = {} PROVE ~reply'[s].error /\ (reply'[s].ids = <<>> => ms = <<>>)
  <2>1. n = 0 => ms = <<>>
    BY <1>3, <1>15
  <2>2. ~fails
    BY <1>6, <2>1
  <2>3. first = <<>> => n = 0
    BY <1>5, EmptySeq
  <2>4. QED  BY <1>8, <1>11, <2>1, <2>2, <2>3
<1>16. QED  BY <1>11, <1>12, <1>13, <1>14, <1>15 DEF WireTyped, OthersSame

\* What sending matches does: a client that waits gets an answer, or there is none to give.
LEMMA SendIs ==
    ASSUME TypeOK, NEW s \in Sessions, NEW ms \in Seq(Messages), NEW always \in BOOLEAN,
           SendMatchesToClient(s, ms, always)
    PROVE  /\ WireTyped' /\ OthersSame(s)
           /\ \/ /\ request[s] = "held" /\ request'[s] = "completed" /\ (always \/ ms # <<>>)
                 /\ Large = {} => ~reply'[s].error /\ (reply'[s].ids = <<>> => ms = <<>>)
              \/ /\ request'[s] = request[s] /\ reply'[s] = reply[s] /\ matches'[s] = ms
                 /\ request[s] = "held" => ms = <<>> /\ ~always
<1>1. CASE request[s] = "held" /\ (always \/ ms # <<>>)
  <2>1. Answer(s, ms)
    BY <1>1 DEF SendMatchesToClient
  <2>2. QED  BY <1>1, <2>1, AnswerIs
<1>2. CASE ~(request[s] = "held" /\ (always \/ ms # <<>>))
  <2>1. matches' = [matches EXCEPT ![s] = ms] /\ request' = request /\ reply' = reply
    BY <1>2 DEF SendMatchesToClient, wire
  <2>2. /\ matches' \in [Sessions -> Seq(Messages)] /\ matches'[s] = ms
        /\ \A t \in Sessions \ {s} : matches'[t] = matches[t]
    BY <2>1 DEF TypeOK
  <2>3. WireTyped'
    BY <2>1, <2>2 DEF WireTyped, TypeOK, Replies
  <2>4. OthersSame(s)
    BY <2>1, <2>2 DEF OthersSame
  <2>5. QED  BY <1>2, <2>1, <2>2, <2>3, <2>4
<1>3. QED  BY <1>1, <1>2

\* What a step of the search does.  Its end is told; before it, only matches are.
LEMMA NextIs ==
    ASSUME TypeOK, NEW s \in Sessions, NEW h \in Handlers,
           NEW table \in SUBSET [id : Messages, match : BOOLEAN], NEW ms \in Seq(Messages),
           DoNextSearch(s, h, table, ms)
    PROVE  /\ WireTyped' /\ OthersSame(s)
           /\ results' \subseteq [id : Messages, match : BOOLEAN]
           /\ handler' \in [Sessions -> Handlers \cup {NoHandler}]
           /\ \A t \in Sessions \ {s} : handler'[t] = handler[t]
           /\ handler'[s] \in Handlers /\ (handler'[s].active \/ handler'[s].active = h.active)
           /\ \/ /\ request[s] = "held" /\ request'[s] = "completed"
                 /\ Large = {} => /\ ~reply'[s].error
                                  /\ reply'[s].ids = <<>> => handler'[s].active = h.active
              \/ /\ request'[s] = request[s] /\ reply'[s] = reply[s]
                 /\ request[s] = "held" => matches'[s] = <<>> /\ handler'[s].active
<1>1. PICK at : at = AtNextRow(h)
  OBVIOUS
<1>2. at \in Handlers /\ at.active = h.active
  BY <1>1, NextRowTypes
<1>3. CASE /\ at.rows = {} /\ handler' = [handler EXCEPT ![s] = at] /\ results' = table
           /\ SendMatchesToClient(s, ms, TRUE)
  <2>1. /\ handler' \in [Sessions -> Handlers \cup {NoHandler}] /\ handler'[s] = at
        /\ \A t \in Sessions \ {s} : handler'[t] = handler[t]
    BY <1>2, <1>3 DEF TypeOK
  <2>2. /\ WireTyped' /\ OthersSame(s)
        /\ \/ /\ request[s] = "held" /\ request'[s] = "completed"
              /\ Large = {} => ~reply'[s].error
           \/ request'[s] = request[s] /\ reply'[s] = reply[s] /\ request[s] # "held"
    <3>1. PICK always \in BOOLEAN : always /\ always = TRUE
      OBVIOUS
    <3>2. SendMatchesToClient(s, ms, always)
      BY <1>3, <3>1, Zenon
    <3>3. /\ WireTyped' /\ OthersSame(s)
          /\ \/ /\ request[s] = "held" /\ request'[s] = "completed" /\ (always \/ ms # <<>>)
                /\ Large = {} => ~reply'[s].error /\ (reply'[s].ids = <<>> => ms = <<>>)
             \/ /\ request'[s] = request[s] /\ reply'[s] = reply[s] /\ matches'[s] = ms
                /\ request[s] = "held" => ms = <<>> /\ ~always
      BY <3>2, SendIs
    <3>4. QED  BY <3>1, <3>3
  <2>3. QED  BY <1>2, <1>3, <2>1, <2>2
<1>4. ASSUME NEW m \in at.rows, NEW result \in SearchL(h, m, table),
             handler' = [handler EXCEPT ![s] = [at EXCEPT !.active = TRUE, !.rows = @ \ {m}]],
             results' = result.table,
             SendMatchesToClient(s, IF result.match THEN Append(ms, m) ELSE ms, FALSE)
      PROVE  /\ WireTyped' /\ OthersSame(s)
             /\ results' \subseteq [id : Messages, match : BOOLEAN]
             /\ handler' \in [Sessions -> Handlers \cup {NoHandler}]
             /\ \A t \in Sessions \ {s} : handler'[t] = handler[t]
             /\ handler'[s] \in Handlers /\ handler'[s].active
             /\ \/ /\ request[s] = "held" /\ request'[s] = "completed"
                   /\ Large = {} => ~reply'[s].error /\ reply'[s].ids # <<>>
                \/ /\ request'[s] = request[s] /\ reply'[s] = reply[s]
                   /\ request[s] = "held" => matches'[s] = <<>>
  <2>1. m \in Messages
    BY <1>2 DEF Handlers
  <2>2. PICK next : next = [at EXCEPT !.active = TRUE, !.rows = @ \ {m}]
    OBVIOUS
  <2>3. next \in Handlers /\ next.active
    BY <1>2, <2>2 DEF Handlers
  <2>4. /\ handler' \in [Sessions -> Handlers \cup {NoHandler}] /\ handler'[s] = next
        /\ \A t \in Sessions \ {s} : handler'[t] = handler[t]
    BY <1>4, <2>2, <2>3 DEF TypeOK
  <2>5. result.match \in BOOLEAN /\ result.table \subseteq [id : Messages, match : BOOLEAN]
    <3>1. CASE ~h.new /\ {row \in table : row.id = m} # {}
      <4>1. PICK row \in table : result = [match |-> row.match /\ m \in stored, table |-> table]
        BY <1>4, <3>1 DEF SearchL
      <4>2. PICK is : is = (row.match /\ m \in stored)
        OBVIOUS
      <4>3. is \in BOOLEAN
        <5>1. CASE row.match /\ m \in stored
          BY <4>2, <5>1
        <5>2. CASE ~(row.match /\ m \in stored)
          BY <4>2, <5>2
        <5>3. QED  BY <5>1, <5>2
      <4>4. result = [match |-> is, table |-> table]
        BY <4>1, <4>2
      <4>5. QED  BY <4>3, <4>4
    <3>2. CASE ~(~h.new /\ {row \in table : row.id = m} # {})
      <4>1. PICK is : is = (h.criteria \in meets[m])
        OBVIOUS
      <4>2. is \in BOOLEAN
        <5>1. CASE h.criteria \in meets[m]
          BY <4>1, <5>1
        <5>2. CASE h.criteria \notin meets[m]
          BY <4>1, <5>2
        <5>3. QED  BY <5>1, <5>2
      <4>3. PICK row, no : row = [id |-> m, match |-> is] /\ no = FALSE
        OBVIOUS
      <4>4. row \in [id : Messages, match : BOOLEAN] /\ no \in BOOLEAN
        BY <2>1, <4>2, <4>3
      <4>5. PICK more : more = table \cup {row}
        OBVIOUS
      <4>6. more \subseteq [id : Messages, match : BOOLEAN]
        BY <4>4, <4>5
      <4>7. \/ result = [match |-> is, table |-> more]
            \/ result = [match |-> no, table |-> table]
        BY <1>4, <3>2, <4>1, <4>3, <4>5, Zenon DEF SearchL
      <4>8. QED  BY <4>2, <4>4, <4>6, <4>7
    <3>3. QED  BY <3>1, <3>2
  <2>6. PICK more : more = IF result.match THEN Append(ms, m) ELSE ms
    OBVIOUS
  <2>7. more \in Seq(Messages)
    BY <2>1, <2>6, AppendProperties
  <2>8. SendMatchesToClient(s, more, FALSE)
    BY <1>4, <2>6
  <2>9. /\ WireTyped' /\ OthersSame(s)
        /\ \/ /\ request[s] = "held" /\ request'[s] = "completed" /\ more # <<>>
              /\ Large = {} => ~reply'[s].error /\ (reply'[s].ids = <<>> => more = <<>>)
           \/ /\ request'[s] = request[s] /\ reply'[s] = reply[s] /\ matches'[s] = more
              /\ request[s] = "held" => more = <<>>
    <3>1. PICK always \in BOOLEAN : ~always /\ always = FALSE
      OBVIOUS
    <3>2. SendMatchesToClient(s, more, always)
      BY <2>8, <3>1, Zenon
    <3>3. /\ WireTyped' /\ OthersSame(s)
          /\ \/ /\ request[s] = "held" /\ request'[s] = "completed" /\ (always \/ more # <<>>)
                /\ Large = {} => ~reply'[s].error /\ (reply'[s].ids = <<>> => more = <<>>)
             \/ /\ request'[s] = request[s] /\ reply'[s] = reply[s] /\ matches'[s] = more
                /\ request[s] = "held" => more = <<>> /\ ~always
      BY <2>7, <3>2, SendIs
    <3>4. QED  BY <3>1, <3>3
  <2>10. QED  BY <1>4, <2>3, <2>4, <2>5, <2>9
<1>5. \/ /\ at.rows = {} /\ handler' = [handler EXCEPT ![s] = at] /\ results' = table
         /\ SendMatchesToClient(s, ms, TRUE)
      \/ \E m \in at.rows : \E result \in SearchL(h, m, table) :
             /\ handler' = [handler EXCEPT ![s] = [at EXCEPT !.active = TRUE, !.rows = @ \ {m}]]
             /\ results' = result.table
             /\ SendMatchesToClient(s, IF result.match THEN Append(ms, m) ELSE ms, FALSE)
  BY <1>1 DEF DoNextSearch
<1>6. QED  BY <1>3, <1>4, <1>5

\* A search that is started, with the handler there is or a new one.
LEMMA StartIs ==
    ASSUME TypeOK, NEW s \in Sessions, NEW c \in Criteria, NEW l \in FolderLists,
           NEW same \in BOOLEAN, same => handler[s] # NoHandler, server = "running",
           StartSearch(s, c, l, same)
    PROVE  /\ WireTyped' /\ OthersSame(s)
           /\ results' \subseteq [id : Messages, match : BOOLEAN]
           /\ handler' \in [Sessions -> Handlers \cup {NoHandler}]
           /\ \A t \in Sessions \ {s} : handler'[t] = handler[t]
           /\ again' \in [Sessions -> BOOLEAN] /\ fresh' \in [Sessions -> SUBSET Messages]
           /\ server' = "running" \/ (server' = "panicked" /\ InProgress(s))
           /\ request[s] = "none" => request'[s] = "none" /\ reply'[s] = reply[s]
<1> DEFINE runs == same /\ handler[s].active
<1>1. handler[s] = NoHandler \/ handler[s] \in Handlers
  BY DEF TypeOK
<1>2. PICK active \in BOOLEAN : active = runs /\ (active => InProgress(s))
  <2>1. CASE same /\ handler[s].active
    <3>1. runs = TRUE
      BY <2>1
    <3>2. InProgress(s)
      BY <2>1 DEF InProgress
    <3>3. QED  BY <3>1, <3>2
  <2>2. CASE ~(same /\ handler[s].active)
    <3>1. runs = FALSE
      BY <2>2
    <3>2. QED  BY <3>1
  <2>3. QED  BY <2>1, <2>2
<1>3. PICK new \in BOOLEAN : new = ~same
  OBVIOUS
<1>4. PICK h : h = [criteria |-> c, new |-> ~same, active |-> runs, rows |-> {}, folders |-> l]
  OBVIOUS
<1> HIDE DEF runs
<1>5. h = [criteria |-> c, new |-> new, active |-> active, rows |-> {}, folders |-> l]
  BY <1>2, <1>3, <1>4
<1>6. l \in Seq(Folders)
  BY MessagesType
<1>7. h \in Handlers /\ h.active = active
  BY <1>5, <1>6 DEF Handlers
<1>8. CASE h.active /\ AtNextRow(h).rows # {}
  <2>1. /\ server' = "panicked" /\ UNCHANGED <<results, handler, matches, wire, again, fresh>>
    BY <1>4, <1>8, Zenon DEF StartSearch, runs
  <2>2. WireTyped' /\ OthersSame(s)
    BY <2>1 DEF WireTyped, OthersSame, wire, TypeOK, Replies
  <2>3. InProgress(s)
    BY <1>2, <1>7, <1>8
  <2>4. QED  BY <2>1, <2>2, <2>3 DEF wire, TypeOK
<1>9. CASE ~(h.active /\ AtNextRow(h).rows # {})
  <2>1. /\ server' = server
        /\ DoNextSearch(s, h, IF same THEN results ELSE {}, <<>>)
        /\ again' = [again EXCEPT ![s] = same]
        /\ fresh' = IF same THEN fresh ELSE [fresh EXCEPT ![s] = Messages]
    BY <1>4, <1>9, Zenon DEF StartSearch, runs
  <2>2. PICK table : table = IF same THEN results ELSE {}
    OBVIOUS
  <2>3. table \in SUBSET [id : Messages, match : BOOLEAN] /\ <<>> \in Seq(Messages)
    BY <2>2, EmptySeq DEF TypeOK
  <2>4. DoNextSearch(s, h, table, <<>>)
    BY <2>1, <2>2
  <2>5. /\ WireTyped' /\ OthersSame(s)
        /\ results' \subseteq [id : Messages, match : BOOLEAN]
        /\ handler' \in [Sessions -> Handlers \cup {NoHandler}]
        /\ \A t \in Sessions \ {s} : handler'[t] = handler[t]
        /\ handler'[s] \in Handlers /\ (handler'[s].active \/ handler'[s].active = h.active)
        /\ \/ /\ request[s] = "held" /\ request'[s] = "completed"
              /\ Large = {} => /\ ~reply'[s].error
                               /\ reply'[s].ids = <<>> => handler'[s].active = h.active
           \/ /\ request'[s] = request[s] /\ reply'[s] = reply[s]
              /\ request[s] = "held" => matches'[s] = <<>> /\ handler'[s].active
    BY <1>7, <2>3, <2>4, NextIs
  <2>6. again' \in [Sessions -> BOOLEAN]
    BY <2>1 DEF TypeOK
  <2>7. fresh' \in [Sessions -> SUBSET Messages]
    BY <2>1 DEF TypeOK
  <2>8. QED  BY <2>1, <2>5, <2>6, <2>7
<1>10. QED  BY <1>8, <1>9

\* What is to be handed over has its type.
LEMMA MatchFoundIs ==
    ASSUME TypeOK, NEW s \in Sessions, searching[s] = "yes",
           NEW ids \in Seq(Messages), ids # <<>>, MatchFound(s, ids)
    PROVE  /\ found' \in [Sessions -> Seq(Messages)] /\ giving' \in [Sessions -> Seq(Messages)]
           /\ crashed' \subseteq Sessions
           /\ \A t \in Sessions : giving'[t] # <<>> => searching[t] = "yes"
<1>1. Tail(ids) \in Seq(Messages)
  BY HeadTailProperties
<1>2. ids[1] \in Messages
  <2>1. Len(ids) \in Nat \ {0} /\ 1 \in 1..Len(ids)
    BY EmptySeq, LenProperties
  <2>2. QED  BY <2>1, ElementOfSeq
<1>3. CASE told[s]
  <2>1. /\ found' = [found EXCEPT ![s] = Append(@, ids[1])]
        /\ giving' = [giving EXCEPT ![s] = Tail(ids)] /\ crashed' = crashed
    BY <1>3 DEF MatchFound
  <2>2. found[s] \in Seq(Messages)
    BY DEF TypeOK
  <2>3. Append(found[s], ids[1]) \in Seq(Messages)
    BY <1>2, <2>2, AppendProperties
  <2>4. found' \in [Sessions -> Seq(Messages)]
    BY <2>1, <2>3 DEF TypeOK
  <2>5. /\ giving' \in [Sessions -> Seq(Messages)]
        /\ \A t \in Sessions : giving'[t] # <<>> => searching[t] = "yes"
    BY <1>1, <2>1 DEF TypeOK
  <2>6. QED  BY <2>1, <2>4, <2>5 DEF TypeOK
<1>4. CASE ~told[s]
  BY <1>4 DEF MatchFound, TypeOK
<1>5. QED  BY <1>3, <1>4

\* A run of the handler keeps the types.
LEMMA RunLIs ==
    ASSUME TypeOK, NEW s \in Sessions, RunL(s)
    PROVE  /\ TypeOK' /\ OthersSame(s) /\ \A t \in Sessions \ {s} : handler'[t] = handler[t]
           /\ handler'[s] \in Handlers
           /\ \/ /\ request[s] = "held" /\ request'[s] = "completed"
                 /\ Large = {} => /\ ~reply'[s].error
                                  /\ reply'[s].ids = <<>> => ~InProgress(s)'
              \/ /\ request'[s] = request[s] /\ reply'[s] = reply[s]
                 /\ request[s] = "held" => matches'[s] = <<>> /\ handler'[s].active
<1>1. handler[s] # NoHandler /\ handler[s].active /\ server = "running"
  BY DEF RunL, InProgress
<1>2. handler[s] \in Handlers
  BY <1>1 DEF TypeOK
<1>3. PICK h : h = [handler[s] EXCEPT !.active = FALSE]
  OBVIOUS
<1>4. h \in Handlers /\ ~h.active
  BY <1>2, <1>3 DEF Handlers
<1>5. /\ DoNextSearch(s, h, results, matches[s])
      /\ UNCHANGED <<world, server, client, search, found, outcome, again, fresh, events>>
  BY <1>3 DEF RunL
<1>6. results \in SUBSET [id : Messages, match : BOOLEAN] /\ matches[s] \in Seq(Messages)
  BY DEF TypeOK
<1>7. /\ WireTyped' /\ OthersSame(s)
      /\ results' \subseteq [id : Messages, match : BOOLEAN]
      /\ handler' \in [Sessions -> Handlers \cup {NoHandler}]
      /\ \A t \in Sessions \ {s} : handler'[t] = handler[t]
      /\ handler'[s] \in Handlers /\ (handler'[s].active \/ handler'[s].active = h.active)
      /\ \/ /\ request[s] = "held" /\ request'[s] = "completed"
            /\ Large = {} => /\ ~reply'[s].error
                             /\ reply'[s].ids = <<>> => handler'[s].active = h.active
         \/ /\ request'[s] = request[s] /\ reply'[s] = reply[s]
            /\ request[s] = "held" => matches'[s] = <<>> /\ handler'[s].active
  BY <1>4, <1>5, <1>6, NextIs
<1>8. TypeOK'
  BY <1>5, <1>7 DEF TypeOK, WireTyped, Replies, world, client
<1>9. handler'[s].active = h.active => ~InProgress(s)'
  BY <1>4 DEF InProgress
<1>10. QED  BY <1>7, <1>8, <1>9

\* A GetMatches the server gets to keeps the types.
LEMMA GetMatchesIs ==
    ASSUME TypeOK, NEW s \in Sessions, GetMatches(s)
    PROVE  /\ TypeOK' /\ OthersSame(s) /\ handler' = handler /\ request[s] = "posted"
           /\ \/ /\ matches'[s] = <<>> /\ InProgress(s)
                 /\ request'[s] = "held" /\ reply'[s] = reply[s]
              \/ /\ request'[s] = "completed"
                 /\ Large = {} => ~reply'[s].error /\ (reply'[s].ids = <<>> => ~InProgress(s))
<1>1. /\ handler' = handler /\ request[s] = "posted"
      /\ UNCHANGED <<world, server, results, client, ghost, events>>
  BY DEF GetMatches
<1>2. CASE /\ matches[s] = <<>> /\ InProgress(s)
           /\ request' = [request EXCEPT ![s] = "held"] /\ UNCHANGED <<reply, matches>>
  <2>1. WireTyped' /\ OthersSame(s) /\ request'[s] = "held"
    BY <1>2 DEF WireTyped, OthersSame, TypeOK, Replies
  <2>2. TypeOK'
    BY <1>1, <2>1 DEF TypeOK, WireTyped, Replies, world, client, ghost
  <2>3. QED  BY <1>1, <1>2, <2>1, <2>2
<1>3. CASE (matches[s] # <<>> \/ ~InProgress(s)) /\ Answer(s, matches[s])
  <2>1. matches[s] \in Seq(Messages)
    BY DEF TypeOK
  <2>2. /\ WireTyped' /\ OthersSame(s) /\ request'[s] = "completed"
        /\ Large = {} => /\ ~reply'[s].error
                         /\ reply'[s].ids = <<>> => matches[s] = <<>>
    BY <1>3, <2>1, AnswerIs
  <2>3. TypeOK'
    BY <1>1, <2>2 DEF TypeOK, WireTyped, Replies, world, client, ghost
  <2>4. QED  BY <1>1, <1>3, <2>2, <2>3
<1>4. QED  BY <1>2, <1>3 DEF GetMatches

\* A search that is asked for keeps the types.
LEMMA SearchIs ==
    ASSUME TypeOK, NEW s \in Sessions, NEW c \in Criteria, NEW l \in FolderLists, Search(s, c, l)
    PROVE  /\ TypeOK' /\ OthersSame(s) /\ \A t \in Sessions \ {s} : handler'[t] = handler[t]
           /\ searching[s] = "no" /\ server = "running"
           /\ searching' = [searching EXCEPT ![s] = "prepared"]
           /\ server' = "running" \/ InProgress(s)
           /\ request[s] = "none" => request'[s] = "none" /\ reply'[s] = reply[s]
<1>1. /\ server = "running" /\ searching[s] = "no" /\ DoPrepareSearch(s, c, l)
      /\ searching' = [searching EXCEPT ![s] = "prepared"]
      /\ found' = [found EXCEPT ![s] = <<>>] /\ outcome' = [outcome EXCEPT ![s] = "none"]
      /\ events < MaxEvents /\ events' = events + 1
      /\ UNCHANGED <<world, told, giving, ending, crashed>>
  BY DEF Search, Calls, Served, Event
<1> DEFINE expr == handler[s] # NoHandler /\ handler[s].criteria = c
<1>2. PICK same \in BOOLEAN : same = expr /\ (same => handler[s] # NoHandler)
  <2>1. CASE handler[s] # NoHandler /\ handler[s].criteria = c
    <3>1. expr = TRUE
      BY <2>1
    <3>2. QED  BY <2>1, <3>1
  <2>2. CASE ~(handler[s] # NoHandler /\ handler[s].criteria = c)
    <3>1. expr = FALSE
      BY <2>2
    <3>2. QED  BY <3>1
  <2>3. QED  BY <2>1, <2>2
<1>3. StartSearch(s, c, l, expr)
  BY <1>1 DEF DoPrepareSearch
<1> HIDE DEF expr
<1>4. StartSearch(s, c, l, same)
  BY <1>2, <1>3
<1>5. /\ WireTyped' /\ OthersSame(s)
      /\ results' \subseteq [id : Messages, match : BOOLEAN]
      /\ handler' \in [Sessions -> Handlers \cup {NoHandler}]
      /\ \A t \in Sessions \ {s} : handler'[t] = handler[t]
      /\ again' \in [Sessions -> BOOLEAN] /\ fresh' \in [Sessions -> SUBSET Messages]
      /\ server' = "running" \/ (server' = "panicked" /\ InProgress(s))
      /\ request[s] = "none" => request'[s] = "none" /\ reply'[s] = reply[s]
  BY <1>1, <1>2, <1>4, StartIs
<1>6. /\ found' \in [Sessions -> Seq(Messages)]
      /\ outcome' \in [Sessions -> {"none", "complete", "error", "cancelled"}]
      /\ searching' \in [Sessions -> {"no", "prepared", "yes"}]
      /\ \A t \in Sessions : giving'[t] # <<>> => searching'[t] = "yes"
      /\ events' \in 0..MaxEvents
  <2>1. <<>> \in Seq(Messages)
    BY EmptySeq
  <2>2. QED  BY <1>1, <2>1, SizesType DEF TypeOK
<1>7. TypeOK'
  BY <1>1, <1>5, <1>6 DEF TypeOK, WireTyped, Replies, world
<1>8. QED  BY <1>1, <1>5, <1>7

\* The other steps of the client keep the types.
LEMMA ClientTypes ==
    ASSUME TypeOK, NEW s \in Sessions,
           ClientRunL(s) \/ CancelSearch(s) \/ ClearSearchResultCache(s)
    PROVE  TypeOK'
<1> USE DEF world, serve, wire, client, ghost
<1>1. <<>> \in Seq(Messages) /\ NoReply \in Replies /\ Len(NoReply.ids) <= BufferMatches
  BY EmptySeq, SizesType DEF NoReply, Replies
<1>2. ASSUME reply' = [reply EXCEPT ![s] = NoReply]
      PROVE  /\ reply' \in [Sessions -> Replies]
             /\ \A t \in Sessions : Len(reply'[t].ids) <= BufferMatches
  BY <1>1, <1>2 DEF TypeOK, Replies
<1>3. CASE AskForMatches(s)
  BY <1>3 DEF AskForMatches, TypeOK
<1>4. CASE RunLMatches(s)
  <2>1. /\ searching[s] = "yes" /\ reply[s].ids # <<>> /\ MatchFound(s, reply[s].ids)
        /\ request' = [request EXCEPT ![s] = "posted"] /\ reply' = [reply EXCEPT ![s] = NoReply]
        /\ UNCHANGED <<world, serve, searching, told, ending, search, outcome, again, fresh, events>>
    BY <1>4 DEF RunLMatches, Completed
  <2>2. reply[s].ids \in Seq(Messages)
    BY DEF TypeOK
  <2>3. PICK ids : ids = reply[s].ids
    OBVIOUS
  <2>4. /\ found' \in [Sessions -> Seq(Messages)] /\ giving' \in [Sessions -> Seq(Messages)]
        /\ crashed' \subseteq Sessions
        /\ \A t \in Sessions : giving'[t] # <<>> => searching[t] = "yes"
    BY <2>1, <2>2, <2>3, MatchFoundIs
  <2>5. /\ reply' \in [Sessions -> Replies]
        /\ \A t \in Sessions : Len(reply'[t].ids) <= BufferMatches
    BY <1>2, <2>1
  <2>6. QED  BY <2>1, <2>4, <2>5 DEF TypeOK, Replies
<1>5. CASE RunLNextMatch(s)
  <2>1. /\ searching[s] = "yes" /\ giving[s] # <<>> /\ MatchFound(s, giving[s])
        /\ UNCHANGED <<world, serve, wire, searching, told, ending, search, outcome, again, fresh,
                       events>>
    BY <1>5 DEF RunLNextMatch
  <2>2. giving[s] \in Seq(Messages)
    BY DEF TypeOK
  <2>3. PICK ids : ids = giving[s]
    OBVIOUS
  <2>4. /\ found' \in [Sessions -> Seq(Messages)] /\ giving' \in [Sessions -> Seq(Messages)]
        /\ crashed' \subseteq Sessions
        /\ \A t \in Sessions : giving'[t] # <<>> => searching[t] = "yes"
    BY <2>1, <2>2, <2>3, MatchFoundIs
  <2>5. QED  BY <2>1, <2>4 DEF TypeOK
<1>6. CASE RunLCompleted(s)
  <2>1. /\ giving[s] = <<>>
        /\ request' = [request EXCEPT ![s] = "none"] /\ reply' = [reply EXCEPT ![s] = NoReply]
        /\ searching' = [searching EXCEPT ![s] = "no"]
        /\ outcome' \in [Sessions -> {"none", "complete", "error", "cancelled"}]
        /\ ending' \in [Sessions -> BOOLEAN] /\ crashed' \subseteq Sessions
        /\ UNCHANGED <<world, serve, told, giving, search, found, again, fresh, events>>
    BY <1>6 DEF RunLCompleted, Completed, TypeOK
  <2>2. /\ reply' \in [Sessions -> Replies]
        /\ \A t \in Sessions : Len(reply'[t].ids) <= BufferMatches
    BY <1>2, <2>1
  <2>3. QED  BY <2>1, <2>2 DEF TypeOK, Replies
<1>7. CASE SearchCompleted(s)
  BY <1>7 DEF SearchCompleted, TypeOK
<1>8. CASE CancelSearch(s)
  <2>1. /\ reply' \in [Sessions -> Replies]
        /\ \A t \in Sessions : Len(reply'[t].ids) <= BufferMatches
    BY <1>2, <1>8 DEF CancelSearch
  <2>2. handler' \in [Sessions -> Handlers \cup {NoHandler}]
    <3>1. PICK next : next = IF handler[s] = NoHandler THEN handler[s]
                                               ELSE [handler[s] EXCEPT !.active = FALSE]
      OBVIOUS
    <3>2. next \in Handlers \cup {NoHandler}
      <4>1. CASE handler[s] = NoHandler
        BY <3>1, <4>1
      <4>2. CASE handler[s] # NoHandler
        <5>1. handler[s] \in Handlers
          BY <4>2 DEF TypeOK
        <5>2. QED  BY <3>1, <4>2, <5>1 DEF Handlers
      <4>3. QED  BY <4>1, <4>2
    <3>3. handler' = [handler EXCEPT ![s] = next]
      BY <1>8, <3>1 DEF CancelSearch
    <3>4. QED  BY <3>2, <3>3 DEF TypeOK
  <2>3. QED  BY <1>1, <1>8, <2>1, <2>2 DEF CancelSearch, TypeOK, Replies
<1>9. CASE ClearSearchResultCache(s)
  BY <1>9 DEF ClearSearchResultCache, TypeOK
<1>10. QED  BY <1>3, <1>4, <1>5, <1>6, <1>7, <1>8, <1>9 DEF ClientRunL

\* Locks and changes of messages keep the types.
LEMMA WorldTypes ==
    ASSUME TypeOK, StoreUnavailable \/ StoreAvailable \/ \E m \in Messages : MessageChanged(m)
    PROVE  TypeOK'
<1> USE DEF world, serve, wire, client, ghost
<1>1. <<>> \in Seq(Messages) /\ (events < MaxEvents /\ events' = events + 1 => events' \in 0..MaxEvents)
  BY EmptySeq, SizesType DEF TypeOK
<1>2. CASE StoreUnavailable
  <2>1. /\ handler' \in [Sessions -> Handlers \cup {NoHandler}]
        /\ matches' \in [Sessions -> Seq(Messages)] /\ fresh' \in [Sessions -> SUBSET Messages]
        /\ results' \subseteq [id : Messages, match : BOOLEAN]
    BY <1>1, <1>2 DEF StoreUnavailable, Nothing, TypeOK
  <2>2. QED  BY <1>1, <1>2, <2>1 DEF StoreUnavailable, Event, TypeOK
<1>3. CASE StoreAvailable
  BY <1>3 DEF StoreAvailable, TypeOK
<1>4. ASSUME NEW m \in Messages, MessageChanged(m) PROVE TypeOK'
  <2>1. stored' \subseteq Messages /\ meets' \in [Messages -> SUBSET Criteria]
    <3>1. stored \subseteq Messages /\ meets \in [Messages -> SUBSET Criteria]
      BY DEF TypeOK
    <3>2. \/ stored' = stored \cup {m} /\ \E cs \in SUBSET Criteria : meets' = [meets EXCEPT ![m] = cs]
          \/ m \in stored /\ stored' = stored \ {m} /\ meets' = meets
      BY <1>4 DEF MessageChanged
    <3>3. CASE \E cs \in SUBSET Criteria : meets' = [meets EXCEPT ![m] = cs]
      <4>1. PICK cs \in SUBSET Criteria : meets' = [meets EXCEPT ![m] = cs]
        BY <3>3
      <4>2. meets' \in [Messages -> SUBSET Criteria]
        BY <3>1, <4>1
      <4>3. stored' \subseteq Messages
        BY <3>1, <3>2
      <4>4. QED  BY <4>2, <4>3
    <3>4. CASE m \in stored /\ stored' = stored \ {m} /\ meets' = meets
      BY <3>1, <3>4
    <3>5. QED  BY <3>2, <3>3, <3>4
  <2>2. fresh' \in [Sessions -> SUBSET Messages]
    BY <1>4 DEF MessageChanged, TypeOK
  <2>3. QED  BY <1>1, <1>4, <2>1, <2>2 DEF MessageChanged, Event, TypeOK
<1>5. QED  BY <1>2, <1>3, <1>4

\* Initially the types are right.
LEMMA TypeInit == Init => TypeOK
<1> SUFFICES ASSUME Init PROVE TypeOK
  OBVIOUS
<1>1. <<>> \in Seq(Messages) /\ NoReply \in Replies /\ Len(NoReply.ids) <= BufferMatches
  BY EmptySeq, SizesType DEF NoReply, Replies
<1>2. QED  BY <1>1, SizesType DEF Init, TypeOK, Replies, Nothing

\* Every step keeps the types.
LEMMA TypeStep == TypeOK /\ [Next]_vars => TypeOK'
<1> SUFFICES ASSUME TypeOK, [Next]_vars PROVE TypeOK'
  OBVIOUS
<1>1. ASSUME NEW s \in Sessions, RunL(s) PROVE TypeOK'
  BY <1>1, RunLIs
<1>2. ASSUME NEW s \in Sessions, GetMatches(s) PROVE TypeOK'
  BY <1>2, GetMatchesIs
<1>3. ASSUME NEW s \in Sessions, NEW c \in Criteria, NEW l \in FolderLists, Search(s, c, l)
      PROVE  TypeOK'
  BY <1>3, SearchIs
<1>4. ASSUME NEW s \in Sessions, ClientRunL(s) \/ CancelSearch(s) \/ ClearSearchResultCache(s)
      PROVE  TypeOK'
  BY <1>4, ClientTypes
<1>5. CASE StoreUnavailable \/ StoreAvailable \/ \E m \in Messages : MessageChanged(m)
  BY <1>5, WorldTypes
<1>6. CASE UNCHANGED vars
  BY <1>6 DEF vars, world, serve, wire, client, ghost, TypeOK
<1>7. QED  BY <1>1, <1>2, <1>3, <1>4, <1>5, <1>6 DEF Next

\* The types of the search, of the clients and of the wire between them hold throughout, no
\* answer outgrows the client's buffer (BuildMatchBuffer of the session), and what RunL has
\* still to hand over is of the search under way, also when a callback cancelled it.
THEOREM TypeCorrect == Spec => []TypeOK
<1>1. Init => TypeOK
  BY TypeInit
<1>2. TypeOK /\ [Next]_vars => TypeOK'
  BY TypeStep
<1>3. QED  BY <1>1, <1>2, PTL DEF Spec

-----------------------------------------------------------------------------
(* What a client waits for.                                                   *)

\* A message is with the server only while the client searches, and kept there only while
\* there is nothing to answer.
Quiet ==
    \A s \in Sessions :
        /\ searching[s] # "yes" => request[s] = "none"
        /\ request[s] = "held" => matches[s] = <<>> /\ (InProgress(s) \/ handler[s] = NoHandler)

\* A step of one session that leaves the others alone.
LEMMA QuietOthers ==
    ASSUME Quiet, NEW s \in Sessions, OthersSame(s),
           \A t \in Sessions \ {s} : handler'[t] = handler[t] /\ searching'[t] = searching[t],
           searching'[s] # "yes" => request'[s] = "none",
           request'[s] = "held" => matches'[s] = <<>> /\ (InProgress(s)' \/ handler'[s] = NoHandler)
    PROVE  Quiet'
<1>1. ASSUME NEW t \in Sessions
      PROVE  /\ searching'[t] # "yes" => request'[t] = "none"
             /\ request'[t] = "held" =>
                    matches'[t] = <<>> /\ (InProgress(t)' \/ handler'[t] = NoHandler)
  <2>1. CASE t = s
    BY <2>1
  <2>2. CASE t # s
    BY <2>2 DEF Quiet, OthersSame, InProgress
  <2>3. QED  BY <2>1, <2>2
<1>2. QED  BY <1>1 DEF Quiet

\* Every step keeps it.
LEMMA QuietStep == TypeOK /\ Quiet /\ [Next]_vars => Quiet'
<1> SUFFICES ASSUME TypeOK, Quiet, [Next]_vars PROVE Quiet'
  OBVIOUS
<1> USE DEF world, serve, wire, client, ghost
<1>1. ASSUME NEW s \in Sessions, RunL(s) PROVE Quiet'
  <2>1. searching' = searching /\ handler[s] # NoHandler /\ InProgress(s)
    BY <1>1 DEF RunL, InProgress
  <2>2. /\ OthersSame(s) /\ \A t \in Sessions \ {s} : handler'[t] = handler[t]
        /\ handler'[s] \in Handlers
        /\ \/ /\ request[s] = "held" /\ request'[s] = "completed"
           \/ /\ request'[s] = request[s] /\ reply'[s] = reply[s]
              /\ request[s] = "held" => matches'[s] = <<>> /\ handler'[s].active
    BY <1>1, RunLIs
  <2>3. handler'[s] # NoHandler
    BY <2>2, NoHandlerType
  <2>4. searching'[s] # "yes" => request'[s] = "none"
    BY <2>1, <2>2 DEF Quiet
  <2>5. request'[s] = "held" => matches'[s] = <<>> /\ (InProgress(s)' \/ handler'[s] = NoHandler)
    BY <2>2, <2>3 DEF InProgress
  <2>6. QED  BY <2>1, <2>2, <2>4, <2>5, QuietOthers
<1>2. ASSUME NEW s \in Sessions, GetMatches(s) PROVE Quiet'
  <2>1. searching' = searching
    BY <1>2 DEF GetMatches
  <2>2. /\ OthersSame(s) /\ handler' = handler /\ request[s] = "posted"
        /\ \/ matches'[s] = <<>> /\ InProgress(s) /\ request'[s] = "held"
           \/ request'[s] = "completed"
    BY <1>2, GetMatchesIs
  <2>3. searching'[s] = "yes"
    BY <2>1, <2>2 DEF Quiet
  <2>4. request'[s] = "held" => matches'[s] = <<>> /\ (InProgress(s)' \/ handler'[s] = NoHandler)
    BY <2>2 DEF InProgress
  <2>5. QED  BY <2>1, <2>2, <2>3, <2>4, QuietOthers
<1>3. ASSUME NEW s \in Sessions, NEW c \in Criteria, NEW l \in FolderLists, Search(s, c, l)
      PROVE  Quiet'
  <2>1. /\ OthersSame(s) /\ \A t \in Sessions \ {s} : handler'[t] = handler[t]
        /\ searching[s] = "no" /\ searching' = [searching EXCEPT ![s] = "prepared"]
        /\ request[s] = "none" => request'[s] = "none"
    BY <1>3, SearchIs
  <2>2. request'[s] = "none"
    BY <2>1 DEF Quiet
  <2>3. \A t \in Sessions \ {s} : searching'[t] = searching[t]
    BY <2>1 DEF TypeOK
  <2>4. QED  BY <2>1, <2>2, <2>3, QuietOthers
<1>4. ASSUME NEW s \in Sessions, ClientRunL(s) PROVE Quiet'
  <2>1. CASE AskForMatches(s)
    BY <2>1 DEF AskForMatches, Quiet, TypeOK, InProgress
  <2>2. CASE RunLMatches(s)
    BY <2>2 DEF RunLMatches, Completed, Quiet, TypeOK, InProgress
  <2>3. CASE RunLNextMatch(s)
    BY <2>3 DEF RunLNextMatch, Quiet, InProgress
  <2>4. CASE RunLCompleted(s)
    BY <2>4 DEF RunLCompleted, Completed, Quiet, TypeOK, InProgress
  <2>5. CASE SearchCompleted(s)
    BY <2>5 DEF SearchCompleted, Quiet, InProgress
  <2>6. QED  BY <1>4, <2>1, <2>2, <2>3, <2>4, <2>5 DEF ClientRunL
<1>5. ASSUME NEW s \in Sessions, CancelSearch(s) PROVE Quiet'
  <2>1. /\ request' = [request EXCEPT ![s] = "none"] /\ searching' = [searching EXCEPT ![s] = "no"]
        /\ matches' = [matches EXCEPT ![s] = <<>>] /\ reply' = [reply EXCEPT ![s] = NoReply]
        /\ \A t \in Sessions \ {s} : handler'[t] = handler[t]
    BY <1>5 DEF CancelSearch, TypeOK
  <2>2. request'[s] = "none" /\ OthersSame(s)
    BY <2>1 DEF TypeOK, OthersSame
  <2>3. \A t \in Sessions \ {s} : searching'[t] = searching[t]
    BY <2>1 DEF TypeOK
  <2>4. QED  BY <2>1, <2>2, <2>3, QuietOthers
<1>6. ASSUME NEW s \in Sessions, ClearSearchResultCache(s) PROVE Quiet'
  <2>1. /\ searching[s] = "no" /\ UNCHANGED <<searching, request, reply, matches>>
        /\ \A t \in Sessions \ {s} : handler'[t] = handler[t]
    BY <1>6 DEF ClearSearchResultCache, TypeOK
  <2>2. request'[s] = "none" /\ OthersSame(s)
    BY <2>1 DEF Quiet, OthersSame
  <2>3. QED  BY <2>1, <2>2, QuietOthers
<1>7. CASE StoreUnavailable
  BY <1>7 DEF StoreUnavailable, Quiet
<1>8. CASE StoreAvailable
  BY <1>8 DEF StoreAvailable, Quiet, InProgress
<1>9. ASSUME NEW m \in Messages, MessageChanged(m) PROVE Quiet'
  BY <1>9 DEF MessageChanged, Quiet, InProgress
<1>10. CASE UNCHANGED vars
  BY <1>10 DEF vars, Quiet, InProgress
<1>11. QED
  BY <1>1, <1>2, <1>3, <1>4, <1>5, <1>6, <1>7, <1>8, <1>9, <1>10 DEF Next

\* A client waits in the server only while a search is in progress that has not found
\* anything it was not given yet, or after a lock, which forgets it.
THEOREM NothingIsHeldBack == Spec => []NothingHeldBack
<1>1. Init => Quiet
  BY DEF Init, Quiet
<1>2. Quiet => NothingHeldBack
  BY DEF Quiet, NothingHeldBack, Forgotten
<1>3. TypeOK /\ Quiet /\ [Next]_vars => Quiet'
  BY QuietStep
<1>4. QED  BY <1>1, <1>2, <1>3, TypeCorrect, PTL DEF Spec

-----------------------------------------------------------------------------
(* The server is never panicked by a search, when each match fits into the    *)
(* client's buffer.                                                           *)

\* The server runs; the client is never answered with an error, with no match only when the
\* search is over, and no search is in progress that the client does not know of.
Runs ==
    /\ server = "running"
    /\ \A s \in Sessions :
          /\ ~reply[s].error
          /\ (request[s] = "completed" /\ reply[s].ids = <<>>) => ~InProgress(s)
          /\ InProgress(s) => searching[s] # "no"

\* A step of one session that leaves the others alone.
LEMMA RunsOthers ==
    ASSUME Runs, NEW s \in Sessions, server' = "running",
           \A t \in Sessions \ {s} :
               /\ handler'[t] = handler[t] /\ searching'[t] = searching[t]
               /\ request'[t] = request[t] /\ reply'[t] = reply[t],
           ~reply'[s].error,
           (request'[s] = "completed" /\ reply'[s].ids = <<>>) => ~InProgress(s)',
           InProgress(s)' => searching'[s] # "no"
    PROVE  Runs'
<1>1. ASSUME NEW t \in Sessions
      PROVE  /\ ~reply'[t].error
             /\ (request'[t] = "completed" /\ reply'[t].ids = <<>>) => ~InProgress(t)'
             /\ InProgress(t)' => searching'[t] # "no"
  <2>1. CASE t = s
    BY <2>1
  <2>2. CASE t # s
    BY <2>2 DEF Runs, InProgress
  <2>3. QED  BY <2>1, <2>2
<1>2. QED  BY <1>1 DEF Runs

\* Every step keeps it.
LEMMA RunsStep ==
    ASSUME Large = {}, TypeOK, Quiet, Runs, [Next]_vars
    PROVE  Runs'
<1> USE DEF world, serve, wire, client, ghost
<1>1. ASSUME NEW s \in Sessions, RunL(s) PROVE Runs'
  <2>1. UNCHANGED <<server, searching>> /\ InProgress(s)
    BY <1>1 DEF RunL
  <2>2. /\ OthersSame(s) /\ \A t \in Sessions \ {s} : handler'[t] = handler[t]
        /\ \/ /\ request[s] = "held" /\ request'[s] = "completed"
              /\ Large = {} => /\ ~reply'[s].error
                               /\ reply'[s].ids = <<>> => ~InProgress(s)'
           \/ request'[s] = request[s] /\ reply'[s] = reply[s]
    BY <1>1, RunLIs
  <2>3. searching'[s] # "no" /\ server' = "running"
    BY <2>1 DEF Runs
  <2>4. /\ ~reply'[s].error
        /\ (request'[s] = "completed" /\ reply'[s].ids = <<>>) => ~InProgress(s)'
    BY <2>1, <2>2 DEF Runs
  <2>5. QED  BY <2>1, <2>2, <2>3, <2>4, RunsOthers DEF OthersSame
<1>2. ASSUME NEW s \in Sessions, GetMatches(s) PROVE Runs'
  <2>1. UNCHANGED <<server, searching>>
    BY <1>2 DEF GetMatches
  <2>2. /\ OthersSame(s) /\ handler' = handler
        /\ \/ InProgress(s) /\ request'[s] = "held" /\ reply'[s] = reply[s]
           \/ ~reply'[s].error /\ (reply'[s].ids = <<>> => ~InProgress(s))
    BY <1>2, GetMatchesIs
  <2>3. InProgress(s)' = InProgress(s)
    BY <2>2 DEF InProgress
  <2>4. server' = "running" /\ (InProgress(s) => searching'[s] # "no")
    BY <2>1 DEF Runs
  <2>5. /\ ~reply'[s].error
        /\ (request'[s] = "completed" /\ reply'[s].ids = <<>>) => ~InProgress(s)
    BY <2>2 DEF Runs
  <2>6. QED  BY <2>1, <2>2, <2>3, <2>4, <2>5, RunsOthers DEF OthersSame
<1>3. ASSUME NEW s \in Sessions, NEW c \in Criteria, NEW l \in FolderLists, Search(s, c, l)
      PROVE  Runs'
  <2>1. /\ OthersSame(s) /\ \A t \in Sessions \ {s} : handler'[t] = handler[t]
        /\ searching[s] = "no" /\ searching' = [searching EXCEPT ![s] = "prepared"]
        /\ server' = "running" \/ InProgress(s)
        /\ request[s] = "none" => request'[s] = "none" /\ reply'[s] = reply[s]
    BY <1>3, SearchIs
  <2>2. request'[s] = "none" /\ reply'[s] = reply[s]
    BY <2>1 DEF Quiet
  <2>3. server' = "running" /\ ~reply'[s].error
    BY <2>1, <2>2 DEF Runs
  <2>4. searching'[s] # "no" /\ \A t \in Sessions \ {s} : searching'[t] = searching[t]
    BY <2>1 DEF TypeOK
  <2>5. QED  BY <2>1, <2>2, <2>3, <2>4, RunsOthers DEF OthersSame
<1>4. ASSUME NEW s \in Sessions, ClientRunL(s) PROVE Runs'
  <2>1. CASE AskForMatches(s)
    BY <2>1 DEF AskForMatches, Runs, TypeOK, InProgress
  <2>2. CASE RunLMatches(s)
    BY <2>2 DEF RunLMatches, Completed, NoReply, Runs, TypeOK, InProgress
  <2>3. CASE RunLNextMatch(s)
    BY <2>3 DEF RunLNextMatch, Runs, InProgress
  <2>4. CASE RunLCompleted(s)
    <3>1. ~InProgress(s)
      BY <2>4 DEF RunLCompleted, Completed, Runs
    <3>2. QED  BY <2>4, <3>1 DEF RunLCompleted, NoReply, Runs, TypeOK, InProgress
  <2>5. CASE SearchCompleted(s)
    BY <2>5 DEF SearchCompleted, Runs, InProgress
  <2>6. QED  BY <1>4, <2>1, <2>2, <2>3, <2>4, <2>5 DEF ClientRunL
<1>5. ASSUME NEW s \in Sessions, CancelSearch(s) PROVE Runs'
  <2>1. ~InProgress(s)' /\ \A t \in Sessions \ {s} : handler'[t] = handler[t]
    <3>1. handler[s] # NoHandler => handler[s] \in Handlers
      BY DEF TypeOK
    <3>2. CASE handler[s] = NoHandler
      BY <1>5, <3>2 DEF CancelSearch, InProgress, TypeOK
    <3>3. CASE handler[s] # NoHandler
      BY <1>5, <3>1, <3>3 DEF CancelSearch, InProgress, TypeOK, Handlers
    <3>4. QED  BY <3>2, <3>3
  <2>2. /\ request'[s] = "none" /\ ~reply'[s].error /\ server' = "running"
        /\ \A t \in Sessions \ {s} : /\ searching'[t] = searching[t] /\ request'[t] = request[t]
                                     /\ reply'[t] = reply[t]
    BY <1>5 DEF CancelSearch, NoReply, TypeOK, Runs
  <2>3. QED  BY <2>1, <2>2, RunsOthers
<1>6. ASSUME NEW s \in Sessions, ClearSearchResultCache(s) PROVE Runs'
  <2>1. /\ ~InProgress(s)' /\ UNCHANGED <<server, searching, request, reply>>
        /\ \A t \in Sessions \ {s} : handler'[t] = handler[t]
    BY <1>6 DEF ClearSearchResultCache, InProgress, TypeOK
  <2>2. server' = "running" /\ ~reply'[s].error
    BY <2>1 DEF Runs
  <2>3. QED  BY <2>1, <2>2, RunsOthers
<1>7. CASE StoreUnavailable
  BY <1>7 DEF StoreUnavailable, Runs, InProgress
<1>8. CASE StoreAvailable
  BY <1>8 DEF StoreAvailable, Runs, InProgress
<1>9. ASSUME NEW m \in Messages, MessageChanged(m) PROVE Runs'
  BY <1>9 DEF MessageChanged, Runs, InProgress
<1>10. CASE UNCHANGED vars
  BY <1>10 DEF vars, Runs, InProgress
<1>11. QED
  BY <1>1, <1>2, <1>3, <1>4, <1>5, <1>6, <1>7, <1>8, <1>9, <1>10 DEF Next

\* As long as each match fits into the client's buffer, the mailbox refuses a search that
\* would set the handler of the server active a second time, over searches that are
\* repeated, cancelled and cut off by a lock.  (A match that does not fit ends the search
\* of the client with an error, and not that of the server.)
THEOREM ServerKeepsRunning == Large = {} => (Spec => []ServerRuns)
<1> SUFFICES ASSUME Large = {} PROVE Spec => []ServerRuns
  OBVIOUS
<1>1. Init => Quiet /\ Runs
  BY DEF Init, Quiet, Runs, InProgress, NoReply
<1>2. TypeOK /\ Quiet /\ [Next]_vars => Quiet'
  BY QuietStep
<1>3. TypeOK /\ Quiet /\ Runs /\ [Next]_vars => Runs'
  BY RunsStep
<1>4. Runs => ServerRuns
  BY DEF Runs, ServerRuns
<1>5. QED  BY <1>1, <1>2, <1>3, <1>4, TypeCorrect, PTL DEF Spec

-----------------------------------------------------------------------------
(* What a client is given.                                                    *)

\* No folder is named twice.
Distinct(l) == \A i, j \in 1..Len(l) : l[i] = l[j] => i = j

\* A message occurs once at most.
Once(m, ms) == \A i, j \in 1..Len(ms) : ms[i] = m /\ ms[j] = m => i = j

\* The matches on their way from the search to the client, those it has first.
InOrder(f, g, r, ms) == ((f \o g) \o r) \o ms
Pipe(s) == InOrder(found[s], giving[s], reply[s].ids, matches[s])

\* What the handler has still to search.
RowsLeft(s)    == IF handler[s] = NoHandler THEN {} ELSE handler[s].rows
FoldersLeft(s) == IF handler[s] = NoHandler THEN <<>> ELSE handler[s].folders
Left(m, rows, fs) == m \in rows \/ FolderOf[m] \in RangeOf(fs)

\* The search se is for message m.
Wants(se, m) == m \in stored /\ FolderOf[m] \in RangeOf(se.folders) /\ se.criteria \in meets[m]

\* Of the messages of fr: those found are wanted, found once, and not searched again; those
\* of the folder that is searched are in the store, and the folder does not come again.
Sound(p, rows, fs, se, fr) ==
    \A m \in fr :
        /\ Once(m, p)
        /\ m \in RangeOf(p) => Wants(se, m) /\ ~Left(m, rows, fs)
        /\ m \in rows => /\ m \in stored /\ FolderOf[m] \in RangeOf(se.folders)
                         /\ FolderOf[m] \notin RangeOf(fs)

\* Those wanted are found or still to be searched.
Whole(p, rows, fs, se, fr) ==
    \A m \in fr : Wants(se, m) => m \in RangeOf(p) \/ Left(m, rows, fs)

\* The handler of a session is for the search its client made last, and stops when it is
\* through; a client is told of the end when there is nothing left.
HandlerFits(s) ==
    /\ handler[s] # NoHandler => /\ handler[s].criteria = search[s].criteria
                                 /\ handler[s].new <=> ~again[s]
    /\ (request[s] # "completed" \/ reply[s].error) => reply[s].ids = <<>>
    /\ searching[s] # "no" => outcome[s] = "none"
    /\ server = "running" =>
          /\ Distinct(FoldersLeft(s)) /\ RangeOf(FoldersLeft(s)) \subseteq RangeOf(search[s].folders)
          /\ (searching[s] # "no" /\ ~InProgress(s)) => RowsLeft(s) = {} /\ FoldersLeft(s) = <<>>
          /\ (request[s] = "completed" /\ reply[s].ids = <<>> /\ ~reply[s].error) =>
                 matches[s] = <<>> /\ RowsLeft(s) = {} /\ FoldersLeft(s) = <<>>

\* The table of the results is right for the handler of the only session.
TableFits(s) ==
    (Sessions = {s} /\ handler[s] # NoHandler) =>
        \A row \in results :
            row.id \in fresh[s] => (row.match <=> handler[s].criteria \in meets[row.id])

\* A session whose search does not use what others found out.
Trusted(s) == again[s] => Sessions = {s}

\* The matches of a session are those its client searches for.
Given(s) ==
    /\ GivenMatches(s)
    /\ (server = "running" /\ s \notin crashed) =>
          /\ Sound(Pipe(s), RowsLeft(s), FoldersLeft(s), search[s], fresh[s])
          /\ searching[s] # "no" =>
                 Whole(Pipe(s), RowsLeft(s), FoldersLeft(s), search[s], fresh[s])

\* The inductive invariant.
Gives == \A s \in Sessions : HandlerFits(s) /\ TableFits(s) /\ (Trusted(s) => Given(s))

\* The messages of two lists.
LEMMA BothLists ==
    ASSUME NEW S, NEW p \in Seq(S), NEW q \in Seq(S)
    PROVE  /\ p \o q \in Seq(S) /\ RangeOf(p \o q) = RangeOf(p) \cup RangeOf(q)
           /\ \A m : Once(m, p \o q) => Once(m, p)
<1>1. PICK k, n, u : k = Len(p) /\ n = Len(q) /\ u = p \o q
  OBVIOUS
<1>2. /\ u \in Seq(S) /\ Len(u) = k + n /\ k \in Nat /\ n \in Nat
      /\ \A i \in 1..(k + n) : u[i] = IF i <= k THEN p[i] ELSE q[i - k]
  BY <1>1, ConcatProperties, LenProperties
<1>3. \A i \in 1..k : i \in 1..(k + n) /\ u[i] = p[i]
  BY <1>2
<1>4. \A i \in 1..n : k + i \in 1..(k + n) /\ u[k + i] = q[i]
  <2>1. SUFFICES ASSUME NEW i \in 1..n PROVE k + i \in 1..(k + n) /\ u[k + i] = q[i]
    OBVIOUS
  <2>2. PICK j : j = k + i
    OBVIOUS
  <2>3. j \in 1..(k + n) /\ ~(j <= k) /\ j - k = i
    BY <1>2, <2>2
  <2>4. u[j] = q[i]
    BY <1>2, <2>3
  <2>5. QED  BY <2>2, <2>3, <2>4
<1>5. \A i \in 1..(k + n) : i \in 1..k \/ (i - k \in 1..n /\ u[i] = q[i - k])
  <2>1. \A i \in 1..(k + n) : i \in 1..k \/ (i - k \in 1..n /\ ~(i <= k))
    BY <1>2
  <2>2. \A i \in 1..(k + n) : ~(i <= k) => u[i] = q[i - k]
    BY <1>2
  <2>3. QED  BY <2>1, <2>2
<1>6. RangeOf(u) \subseteq RangeOf(p) \cup RangeOf(q)
  BY <1>1, <1>2, <1>3, <1>5 DEF RangeOf
<1>7. RangeOf(p) \subseteq RangeOf(u)
  BY <1>1, <1>2, <1>3 DEF RangeOf
<1>8. RangeOf(q) \subseteq RangeOf(u)
  BY <1>1, <1>2, <1>4 DEF RangeOf
<1>9. \A m : Once(m, u) => Once(m, p)
  BY <1>1, <1>2, <1>3 DEF Once
<1>10. QED  BY <1>1, <1>2, <1>6, <1>7, <1>8, <1>9

\* One more message at the end of a list.
LEMMA OneMore ==
    ASSUME NEW S, NEW p \in Seq(S), NEW x \in S
    PROVE  /\ Append(p, x) \in Seq(S) /\ RangeOf(Append(p, x)) = RangeOf(p) \cup {x}
           /\ \A m : Once(m, p) /\ (m = x => m \notin RangeOf(p)) => Once(m, Append(p, x))
<1>1. PICK k, u : k = Len(p) /\ u = Append(p, x)
  OBVIOUS
<1>2. /\ u \in Seq(S) /\ Len(u) = k + 1 /\ k \in Nat /\ u[k + 1] = x
      /\ \A i \in 1..k : u[i] = p[i]
  BY <1>1, AppendProperties, LenProperties
<1>3. \A i : i \in 1..(k + 1) <=> i \in 1..k \/ i = k + 1
  BY <1>2
<1>4. RangeOf(u) = RangeOf(p) \cup {x}
  BY <1>1, <1>2, <1>3 DEF RangeOf
<1>5. ASSUME NEW m, Once(m, p), m = x => m \notin RangeOf(p)
      PROVE  Once(m, u)
  <2>1. SUFFICES ASSUME NEW i \in 1..(k + 1), NEW j \in 1..(k + 1), u[i] = m, u[j] = m
                 PROVE  i = j
    BY <1>2 DEF Once
  <2>2. CASE i \in 1..k /\ j \in 1..k
    BY <1>1, <1>2, <1>5, <2>1, <2>2 DEF Once
  <2>3. CASE i = k + 1 /\ j = k + 1
    BY <2>3
  <2>4. CASE (i = k + 1 /\ j \in 1..k) \/ (j = k + 1 /\ i \in 1..k)
    <3>1. m = x
      BY <1>2, <2>1, <2>4
    <3>2. m \in RangeOf(p)
      BY <1>1, <1>2, <2>1, <2>4 DEF RangeOf
    <3>3. QED  BY <1>5, <3>1, <3>2
  <2>5. QED  BY <1>3, <2>2, <2>3, <2>4
<1>6. QED  BY <1>1, <1>2, <1>4, <1>5

\* How often a message is in a list where it is at most once.
LEMMA TimesIs ==
    ASSUME NEW S, NEW p \in Seq(S), NEW m, Once(m, p)
    PROVE  Times(m, p) = IF m \in RangeOf(p) THEN 1 ELSE 0
<1>1. PICK P : P = {i \in 1..Len(p) : p[i] = m}
  OBVIOUS
<1>2. CASE m \in RangeOf(p)
  <2>1. PICK i \in 1..Len(p) : p[i] = m
    BY <1>2 DEF RangeOf
  <2>2. P = {i}
    BY <1>1, <2>1 DEF Once
  <2>3. Cardinality(P) = 1
    BY <2>2, FS_Singleton
  <2>4. QED  BY <1>1, <1>2, <2>3 DEF Times
<1>3. CASE m \notin RangeOf(p)
  <2>1. P = {}
    BY <1>1, <1>3 DEF RangeOf
  <2>2. Cardinality(P) = 0
    BY <2>1, FS_EmptySet
  <2>3. QED  BY <1>1, <1>3, <2>2 DEF Times
<1>4. QED  BY <1>2, <1>3

\* The two parts of a list that is cut.
LEMMA CutJoins ==
    ASSUME NEW S, NEW ms \in Seq(S), NEW n \in 0..Len(ms)
    PROVE  SubSeq(ms, 1, n) \o SubSeq(ms, n + 1, Len(ms)) = ms
<1>1. Len(ms) \in Nat
  BY LenProperties
<1>2. 1 \in 1..(Len(ms) + 1) /\ n \in (1 - 1)..Len(ms) /\ Len(ms) \in n..Len(ms)
  BY <1>1
<1>3. SubSeq(ms, 1, n) \o SubSeq(ms, n + 1, Len(ms)) = SubSeq(ms, 1, Len(ms))
  BY <1>2, ConcatAdjacentSubSeq
<1>4. QED  BY <1>3, SubSeqFull

\* The first message of a list, and the others.
LEMMA FirstAndRest ==
    ASSUME NEW S, NEW p \in Seq(S), NEW ids \in Seq(S), ids # <<>>
    PROVE  /\ ids[1] \in S /\ Tail(ids) \in Seq(S)
           /\ Append(p, ids[1]) \o Tail(ids) = p \o ids
<1>1. Len(ids) \in Nat \ {0} /\ 1 \in 1..Len(ids) /\ Len(ids) \in 1..Len(ids)
  BY EmptySeq, LenProperties
<1>2. ids[1] \in S /\ Tail(ids) \in Seq(S)
  BY <1>1, ElementOfSeq, HeadTailProperties
<1>3. ids = <<ids[1]>> \o Tail(ids)
  <2>1. SubSeq(ids, 1, Len(ids)) = <<ids[1]>> \o SubSeq(ids, 1 + 1, Len(ids))
    BY <1>1, SubSeqRecursiveFirst
  <2>2. QED  BY <2>1, SubSeqFull, TailIsSubSeq
<1>4. Append(p, ids[1]) = p \o <<ids[1]>>
  BY <1>2, AppendIsConcat
<1>5. (p \o <<ids[1]>>) \o Tail(ids) = p \o (<<ids[1]>> \o Tail(ids))
  <2>1. <<ids[1]>> \in Seq(S)
    BY <1>2
  <2>2. QED  BY <1>2, <2>1, ConcatAssociative
<1>6. QED  BY <1>2, <1>3, <1>4, <1>5

\* SortNextFolderL passes over folders without messages only, and takes a folder from the
\* list when its messages become the rows.
LEMMA NextRowIs ==
    ASSUME TypeOK, NEW h \in Handlers, Distinct(h.folders), NEW at, at = AtNextRow(h)
    PROVE  /\ at \in Handlers /\ at.active = h.active /\ at.criteria = h.criteria /\ at.new = h.new
           /\ Distinct(at.folders) /\ RangeOf(at.folders) \subseteq RangeOf(h.folders)
           /\ at.rows = {} => at.folders = <<>>
           /\ \A m \in stored : Left(m, h.rows, h.folders) => Left(m, at.rows, at.folders)
           /\ \A m : Left(m, at.rows, at.folders) => Left(m, h.rows, h.folders)
           /\ \/ at.rows = h.rows /\ at.folders = h.folders
              \/ \A m \in at.rows : /\ m \in stored /\ FolderOf[m] \in RangeOf(h.folders)
                                    /\ FolderOf[m] \notin RangeOf(at.folders)
<1>1. at \in Handlers /\ at.active = h.active /\ at.criteria = h.criteria
  BY NextRowTypes
<1>2. CASE h.rows # {}
  BY <1>1, <1>2 DEF AtNextRow
<1>3. CASE h.rows = {}
  <2> DEFINE nonEmpty == {i \in 1..Len(h.folders) : RowsOf(h.folders[i]) # {}}
  <2>1. PICK fs : fs = h.folders /\ fs \in Seq(Folders) /\ Len(fs) \in Nat
    BY LenProperties DEF Handlers
  <2>2. ASSUME NEW m \in stored, FolderOf[m] \in RangeOf(fs)
        PROVE  \E j \in nonEmpty : FolderOf[m] = fs[j] /\ m \in RowsOf(fs[j])
    <3>1. PICK j \in 1..Len(fs) : fs[j] = FolderOf[m]
      BY <2>2 DEF RangeOf
    <3>2. m \in RowsOf(fs[j])
      BY <3>1 DEF RowsOf
    <3>3. QED  BY <2>1, <3>1, <3>2
  <2>3. CASE nonEmpty = {}
    <3>1. at = [h EXCEPT !.folders = <<>>]
      BY <1>3, <2>3 DEF AtNextRow
    <3>2. at.rows = {} /\ at.folders = <<>> /\ at.new = h.new
      BY <1>3, <3>1 DEF Handlers
    <3>3. RangeOf(at.folders) = {} /\ Distinct(at.folders)
      BY <3>2, EmptySeq DEF RangeOf, Distinct
    <3>4. \A m \in stored : ~Left(m, h.rows, h.folders)
      BY <1>3, <2>1, <2>2, <2>3 DEF Left
    <3>5. \A m : ~Left(m, at.rows, at.folders)
      BY <3>2, <3>3 DEF Left
    <3>6. QED  BY <1>1, <3>2, <3>3, <3>4, <3>5
  <2>4. CASE nonEmpty # {}
    <3>1. PICK x : x = CHOOSE i \in nonEmpty : \A j \in nonEmpty : i <= j
      OBVIOUS
    <3>2. nonEmpty \subseteq Nat
      OBVIOUS
    <3>3. PICK y \in nonEmpty : \A j \in nonEmpty : y <= j
      BY <2>4, <3>2, LeastNumber
    <3>4. x \in nonEmpty /\ \A j \in nonEmpty : x <= j
      BY <3>1, <3>3
    <3>5. x \in 1..Len(fs) /\ RowsOf(fs[x]) # {}
      BY <2>1, <3>4
    <3>6. PICK rest : rest = SubSeq(fs, x + 1, Len(fs))
      OBVIOUS
    <3>7. at = [h EXCEPT !.rows = RowsOf(fs[x]), !.folders = rest]
      BY <1>3, <2>1, <2>4, <3>1, <3>6 DEF AtNextRow
    <3>8. at.rows = RowsOf(fs[x]) /\ at.folders = rest /\ at.new = h.new
      BY <3>7 DEF Handlers
    <3> HIDE DEF nonEmpty
    <3>9. /\ Len(rest) = Len(fs) - x
          /\ \A i \in 1..Len(rest) : i + x \in 1..Len(fs) /\ rest[i] = fs[i + x]
      <4>1. \A i \in (x + 1)..Len(fs) : fs[i] \in Folders
        BY <2>1, <3>5, ElementOfSeq
      <4>2. x + 1 \in Int /\ Len(fs) \in Int
        BY <2>1, <3>5
      <4>3. /\ Len(rest) = IF x + 1 <= Len(fs) THEN Len(fs) - (x + 1) + 1 ELSE 0
            /\ \A i \in 1..(Len(fs) - (x + 1) + 1) : rest[i] = fs[(x + 1) + i - 1]
        BY <3>6, <4>1, <4>2, SubSeqProperties
      <4>4. Len(rest) = Len(fs) - x
        BY <2>1, <3>5, <4>3
      <4>5. Len(fs) - (x + 1) + 1 = Len(fs) - x /\ \A i \in 1..(Len(fs) - x) : (x + 1) + i - 1 = i + x
        BY <2>1, <3>5
      <4>6. \A i \in 1..(Len(fs) - x) : rest[i] = fs[i + x]
        BY <4>3, <4>5
      <4>7. \A i \in 1..(Len(fs) - x) : i + x \in 1..Len(fs)
        BY <2>1, <3>5
      <4>8. QED  BY <4>4, <4>6, <4>7
    <3>10. \A i, j \in 1..Len(fs) : fs[i] = fs[j] => i = j
      BY <2>1 DEF Distinct
    <3>11. Distinct(rest)
      <4>1. SUFFICES ASSUME NEW i \in 1..Len(rest), NEW j \in 1..Len(rest), rest[i] = rest[j]
                     PROVE  i = j
        BY DEF Distinct
      <4>2. i + x = j + x
        BY <3>9, <3>10, <4>1
      <4>3. i \in Int /\ j \in Int /\ x \in Int
        BY <3>5
      <4>4. QED  BY <4>2, <4>3
    <3>12. RangeOf(rest) \subseteq RangeOf(fs) /\ fs[x] \in RangeOf(fs)
      BY <3>5, <3>9 DEF RangeOf
    <3>13. fs[x] \notin RangeOf(rest)
      <4>1. SUFFICES ASSUME NEW i \in 1..Len(rest), rest[i] = fs[x] PROVE FALSE
        BY DEF RangeOf
      <4>2. i + x = x
        BY <3>5, <3>9, <3>10, <4>1
      <4>3. i \in Nat \ {0} /\ x \in Int
        BY <3>5
      <4>4. QED  BY <4>2, <4>3
    <3>14. \A m \in at.rows : /\ m \in stored /\ FolderOf[m] \in RangeOf(fs)
                              /\ FolderOf[m] \notin RangeOf(rest)
      BY <3>8, <3>12, <3>13 DEF RowsOf
    <3>15. ASSUME NEW m \in stored, Left(m, h.rows, h.folders)
           PROVE  Left(m, at.rows, at.folders)
      <4>1. FolderOf[m] \in RangeOf(fs)
        BY <1>3, <2>1, <3>15 DEF Left
      <4>2. PICK j \in nonEmpty : FolderOf[m] = fs[j] /\ m \in RowsOf(fs[j])
        BY <2>2, <4>1
      <4>3. j \in 1..Len(fs) /\ x <= j
        BY <2>1, <3>4 DEF nonEmpty
      <4>4. CASE j = x
        BY <3>8, <4>2, <4>4 DEF Left
      <4>5. CASE j # x
        <5>1. j - x \in 1..Len(rest) /\ (j - x) + x = j
          BY <2>1, <3>5, <3>9, <4>3, <4>5
        <5>2. rest[j - x] = fs[j]
          BY <3>9, <5>1
        <5>3. FolderOf[m] \in RangeOf(rest)
          BY <4>2, <5>1, <5>2 DEF RangeOf
        <5>4. QED  BY <3>8, <5>3 DEF Left
      <4>6. QED  BY <4>4, <4>5
    <3>16. \A m : Left(m, at.rows, at.folders) => Left(m, h.rows, h.folders)
      BY <2>1, <3>8, <3>12, <3>14 DEF Left
    <3>17. at.rows # {}
      BY <3>5, <3>8
    <3>18. QED
      BY <1>1, <2>1, <3>8, <3>11, <3>12, <3>14, <3>15, <3>16, <3>17
  <2>5. QED  BY <2>3, <2>4
<1>4. QED  BY <1>2, <1>3

\* SearchL says of a message that is there whether it meets the criteria, if the table does
\* for the criteria of the handler, and so do the rows it adds.
LEMMA ResultIs ==
    ASSUME TypeOK, NEW h \in Handlers, NEW m \in Messages, m \in stored,
           NEW table \in SUBSET [id : Messages, match : BOOLEAN], NEW result \in SearchL(h, m, table),
           h.new \/ \A row \in table : row.id = m => (row.match <=> h.criteria \in meets[m])
    PROVE  result.match <=> h.criteria \in meets[m]
<1>1. CASE ~h.new /\ {row \in table : row.id = m} # {}
  <2>1. PICK row \in table : row.id = m /\ result = [match |-> row.match /\ m \in stored, table |-> table]
    BY <1>1 DEF SearchL
  <2>2. result.match <=> (row.match /\ m \in stored)
    BY <2>1
  <2>3. QED  BY <1>1, <2>1, <2>2
<1>2. CASE ~(~h.new /\ {row \in table : row.id = m} # {})
  <2>1. result = [match |-> h.criteria \in meets[m],
                  table |-> table \cup {[id |-> m, match |-> h.criteria \in meets[m]]}]
    BY <1>2 DEF SearchL
  <2>2. QED  BY <2>1
<1>3. QED  BY <1>1, <1>2

\* A row of the table was there before, or says whether its message meets the criteria.
LEMMA RowsAdded ==
    ASSUME NEW h, NEW m, NEW table, NEW result \in SearchL(h, m, table), NEW row \in result.table
    PROVE  row \in table \/ (row.id = m /\ (row.match <=> h.criteria \in meets[m]))
<1>1. CASE ~h.new /\ {r \in table : r.id = m} # {}
  <2>1. result.table = table
    BY <1>1 DEF SearchL
  <2>2. QED  BY <2>1
<1>2. CASE ~(~h.new /\ {r \in table : r.id = m} # {})
  <2>1. PICK is : is = (h.criteria \in meets[m])
    OBVIOUS
  <2>2. result.table = table \/ result.table = table \cup {[id |-> m, match |-> is]}
    BY <1>2, <2>1 DEF SearchL
  <2>3. row \in table \/ row = [id |-> m, match |-> is]
    BY <2>2
  <2>4. CASE row = [id |-> m, match |-> is]
    <3>1. row.id = m /\ row.match = is
      BY <2>4
    <3>2. QED  BY <2>1, <3>1
  <2>5. QED  BY <2>3, <2>4
<1>3. QED  BY <1>1, <1>2

\* Lists one after the other, in whatever groups.
LEMMA Regrouped ==
    ASSUME NEW a \in Seq(Messages), NEW b \in Seq(Messages), NEW c \in Seq(Messages)
    PROVE  (a \o b) \o c = a \o (b \o c)
BY ConcatAssociative

\* An answer takes the first matches of the list, and an answer that is the end leaves none.
LEMMA AnswerTakes ==
    ASSUME TypeOK, NEW s \in Sessions, NEW ms \in Seq(Messages), NEW q \in Seq(Messages),
           reply[s].ids = <<>>, Answer(s, ms)
    PROVE  /\ (q \o reply'[s].ids) \o matches'[s] = (q \o reply[s].ids) \o ms
           /\ request'[s] = "completed" /\ (reply'[s].error => reply'[s].ids = <<>>)
           /\ (reply'[s].ids = <<>> /\ ~reply'[s].error) => ms = <<>> /\ matches'[s] = <<>>
<1>1. PICK n \in Fitting(ms) :
         /\ request' = [request EXCEPT ![s] = "completed"]
         /\ reply' = [reply EXCEPT ![s] = [ids |-> SubSeq(ms, 1, n), error |-> ms # <<>> /\ n = 0]]
         /\ matches' = [matches EXCEPT ![s] = SubSeq(ms, n + 1, Len(ms))]
  BY DEF Answer
<1>2. n \in 0..Len(ms)
  BY DEF Fitting
<1>3. PICK first, rest : first = SubSeq(ms, 1, n) /\ rest = SubSeq(ms, n + 1, Len(ms))
  OBVIOUS
<1>4. /\ first \in Seq(Messages) /\ Len(first) = n /\ rest \in Seq(Messages)
      /\ first \o rest = ms
  BY <1>2, <1>3, Cut, CutJoins
<1>5. PICK fails \in BOOLEAN : fails = (ms # <<>> /\ n = 0)
  OBVIOUS
<1>6. PICK answer : answer = [ids |-> first, error |-> fails]
  OBVIOUS
<1>7. answer \in Replies /\ answer.ids = first /\ answer.error = fails
  BY <1>4, <1>6 DEF Replies
<1>8. reply' = [reply EXCEPT ![s] = answer]
  BY <1>1, <1>3, <1>5, <1>6
<1>9. reply'[s] = answer /\ matches'[s] = rest /\ request'[s] = "completed"
  BY <1>1, <1>3, <1>8 DEF TypeOK
<1>10. (q \o first) \o rest = (q \o <<>>) \o ms
  <2>1. (q \o first) \o rest = q \o (first \o rest)
    <3>1. first \in Seq(Messages) /\ rest \in Seq(Messages)
      BY <1>4
    <3>2. QED  BY <3>1, Regrouped
  <2>2. q \o <<>> = q
    BY ConcatEmptySeq
  <2>3. QED  BY <1>4, <2>1, <2>2
<1>11. ASSUME first = <<>>, ~fails PROVE ms = <<>> /\ rest = <<>>
  <2>1. n = 0
    BY <1>4, <1>11, EmptySeq
  <2>2. ms = <<>>
    BY <1>5, <1>11, <2>1
  <2>3. first \o rest = rest
    BY <1>4, <1>11, ConcatEmptySeq
  <2>4. QED  BY <1>4, <2>2, <2>3
<1>12. fails => first = <<>>
  <2>1. fails => Len(first) = 0
    BY <1>4, <1>5
  <2>2. QED  BY <1>4, <2>1, EmptySeq
<1>13. QED  BY <1>7, <1>9, <1>10, <1>11, <1>12

\* Sending the matches keeps their order, and tells the end only when there is none left.
LEMMA SendTakes ==
    ASSUME TypeOK, NEW s \in Sessions, NEW ms \in Seq(Messages), NEW q \in Seq(Messages),
           (request[s] # "completed" \/ reply[s].error) => reply[s].ids = <<>>,
           NEW always \in BOOLEAN,
           SendMatchesToClient(s, ms, always)
    PROVE  /\ (q \o reply'[s].ids) \o matches'[s] = (q \o reply[s].ids) \o ms
           /\ (request'[s] # "completed" \/ reply'[s].error) => reply'[s].ids = <<>>
           /\ \/ request'[s] = request[s] /\ reply'[s] = reply[s] /\ matches'[s] = ms
              \/ /\ always \/ ms # <<>>
                 /\ (reply'[s].ids = <<>> /\ ~reply'[s].error) => ms = <<>> /\ matches'[s] = <<>>
<1>1. CASE request[s] = "held" /\ (always \/ ms # <<>>)
  <2>1. Answer(s, ms)
    BY <1>1 DEF SendMatchesToClient
  <2>2. reply[s].ids = <<>>
    BY <1>1
  <2>3. QED  BY <1>1, <2>1, <2>2, AnswerTakes
<1>2. CASE ~(request[s] = "held" /\ (always \/ ms # <<>>))
  <2>1. matches' = [matches EXCEPT ![s] = ms] /\ request' = request /\ reply' = reply
    BY <1>2 DEF SendMatchesToClient, wire
  <2>2. matches'[s] = ms
    BY <2>1 DEF TypeOK
  <2>3. QED  BY <2>1, <2>2
<1>3. QED  BY <1>1, <1>2

\* The matches that were found stay right, and the others are still to be found, when the
\* handler gets to the next row.
LEMMA NextRowKeeps ==
    ASSUME TypeOK, NEW h \in Handlers, Distinct(h.folders), NEW at, at = AtNextRow(h),
           NEW p, NEW se, NEW fr, RangeOf(h.folders) \subseteq RangeOf(se.folders)
    PROVE  /\ Sound(p, h.rows, h.folders, se, fr) => Sound(p, at.rows, at.folders, se, fr)
           /\ Whole(p, h.rows, h.folders, se, fr) => Whole(p, at.rows, at.folders, se, fr)
<1>1. /\ RangeOf(at.folders) \subseteq RangeOf(h.folders)
      /\ \A m \in stored : Left(m, h.rows, h.folders) => Left(m, at.rows, at.folders)
      /\ \A m : Left(m, at.rows, at.folders) => Left(m, h.rows, h.folders)
      /\ \/ at.rows = h.rows /\ at.folders = h.folders
         \/ \A m \in at.rows : /\ m \in stored /\ FolderOf[m] \in RangeOf(h.folders)
                               /\ FolderOf[m] \notin RangeOf(at.folders)
  BY NextRowIs
<1>2. ASSUME Sound(p, h.rows, h.folders, se, fr) PROVE Sound(p, at.rows, at.folders, se, fr)
  <2>1. SUFFICES ASSUME NEW m \in fr
                 PROVE  /\ Once(m, p)
                        /\ m \in RangeOf(p) => Wants(se, m) /\ ~Left(m, at.rows, at.folders)
                        /\ m \in at.rows => /\ m \in stored /\ FolderOf[m] \in RangeOf(se.folders)
                                            /\ FolderOf[m] \notin RangeOf(at.folders)
    BY DEF Sound
  <2>2. /\ Once(m, p)
        /\ m \in RangeOf(p) => Wants(se, m) /\ ~Left(m, h.rows, h.folders)
        /\ m \in h.rows => /\ m \in stored /\ FolderOf[m] \in RangeOf(se.folders)
                           /\ FolderOf[m] \notin RangeOf(h.folders)
    BY <1>2 DEF Sound
  <2>3. QED  BY <1>1, <2>2
<1>3. ASSUME Whole(p, h.rows, h.folders, se, fr) PROVE Whole(p, at.rows, at.folders, se, fr)
  BY <1>1, <1>3 DEF Whole, Wants
<1>4. QED  BY <1>2, <1>3

\* So they do when a message of the rows is looked at.
LEMMA LookedAt ==
    ASSUME NEW p \in Seq(Messages), NEW m \in Messages, NEW rows \in SUBSET Messages, m \in rows,
           NEW fs, NEW se, NEW fr, NEW is \in BOOLEAN,
           Sound(p, rows, fs, se, fr),
           m \in fr => (is <=> se.criteria \in meets[m]),
           NEW more, more = IF is THEN Append(p, m) ELSE p
    PROVE  /\ Sound(more, rows \ {m}, fs, se, fr)
           /\ Whole(p, rows, fs, se, fr) => Whole(more, rows \ {m}, fs, se, fr)
<1>1. /\ RangeOf(more) = IF is THEN RangeOf(p) \cup {m} ELSE RangeOf(p)
      /\ \A x : Once(x, p) /\ (x = m => m \notin RangeOf(p)) => Once(x, more)
  <2>1. CASE is
    <3>1. more = Append(p, m)
      BY <2>1
    <3>2. QED  BY <2>1, <3>1, OneMore
  <2>2. CASE ~is
    BY <2>2
  <2>3. QED  BY <2>1, <2>2
<1>2. m \in fr => /\ m \notin RangeOf(p) /\ m \in stored /\ FolderOf[m] \in RangeOf(se.folders)
                  /\ FolderOf[m] \notin RangeOf(fs)
  BY DEF Sound, Left
<1>3. ASSUME NEW x \in fr
      PROVE  /\ Once(x, more)
             /\ x \in RangeOf(more) => Wants(se, x) /\ ~Left(x, rows \ {m}, fs)
             /\ x \in rows \ {m} => /\ x \in stored /\ FolderOf[x] \in RangeOf(se.folders)
                                    /\ FolderOf[x] \notin RangeOf(fs)
  <2>1. /\ Once(x, p)
        /\ x \in RangeOf(p) => Wants(se, x) /\ ~Left(x, rows, fs)
        /\ x \in rows => /\ x \in stored /\ FolderOf[x] \in RangeOf(se.folders)
                         /\ FolderOf[x] \notin RangeOf(fs)
    BY <1>3 DEF Sound
  <2>2. Once(x, more)
    BY <1>1, <1>2, <1>3, <2>1
  <2>3. CASE x \in RangeOf(p)
    BY <2>1, <2>2, <2>3 DEF Left
  <2>4. CASE x \notin RangeOf(p) /\ x = m
    <3>1. x \in RangeOf(more) => is
      BY <1>1, <2>4
    <3>2. x \in RangeOf(more) => Wants(se, x)
      BY <1>2, <1>3, <2>4, <3>1 DEF Wants
    <3>3. ~Left(x, rows \ {m}, fs)
      BY <1>2, <1>3, <2>4 DEF Left
    <3>4. QED  BY <2>2, <2>4, <3>2, <3>3
  <2>5. CASE x \notin RangeOf(p) /\ x # m
    <3>1. x \notin RangeOf(more)
      BY <1>1, <2>5
    <3>2. QED  BY <2>1, <2>2, <3>1
  <2>6. QED  BY <2>3, <2>4, <2>5
<1>4. Sound(more, rows \ {m}, fs, se, fr)
  BY <1>3 DEF Sound
<1>5. ASSUME Whole(p, rows, fs, se, fr) PROVE Whole(more, rows \ {m}, fs, se, fr)
  <2>1. SUFFICES ASSUME NEW x \in fr, Wants(se, x)
                 PROVE  x \in RangeOf(more) \/ Left(x, rows \ {m}, fs)
    BY DEF Whole
  <2>2. x \in RangeOf(p) \/ Left(x, rows, fs)
    BY <1>5, <2>1 DEF Whole
  <2>3. CASE x = m
    <3>1. is
      BY <2>1, <2>3 DEF Wants
    <3>2. QED  BY <1>1, <2>3, <3>1
  <2>4. CASE x # m
    BY <1>1, <2>2, <2>4 DEF Left
  <2>5. QED  BY <2>3, <2>4
<1>6. QED  BY <1>4, <1>5

\* A message at the end of the second list is at the end of both.
LEMMA AppendedToBoth ==
    ASSUME NEW a \in Seq(Messages), NEW b \in Seq(Messages), NEW m \in Messages
    PROVE  a \o Append(b, m) = Append(a \o b, m)
<1>1. PICK c, d : c = <<m>> /\ d = a \o b
  OBVIOUS
<1>2. c \in Seq(Messages) /\ d \in Seq(Messages)
  BY <1>1, BothLists
<1>3. Append(b, m) = b \o c /\ Append(d, m) = d \o c
  BY <1>1, <1>2, AppendIsConcat
<1>4. (a \o b) \o c = a \o (b \o c)
  BY <1>2, Regrouped
<1>5. QED  BY <1>1, <1>3, <1>4

\* Before the end of the search.
LEMMA SendSome ==
    ASSUME TypeOK, NEW s \in Sessions, NEW ms \in Seq(Messages), NEW q \in Seq(Messages),
           (request[s] # "completed" \/ reply[s].error) => reply[s].ids = <<>>,
           SendMatchesToClient(s, ms, FALSE)
    PROVE  /\ (q \o reply'[s].ids) \o matches'[s] = (q \o reply[s].ids) \o ms
           /\ (request'[s] # "completed" \/ reply'[s].error) => reply'[s].ids = <<>>
           /\ \/ request'[s] = request[s] /\ reply'[s] = reply[s]
              \/ ~(reply'[s].ids = <<>> /\ ~reply'[s].error)
<1>1. PICK always \in BOOLEAN : always = FALSE
  OBVIOUS
<1>2. SendMatchesToClient(s, ms, always)
  BY <1>1
<1>3. /\ (q \o reply'[s].ids) \o matches'[s] = (q \o reply[s].ids) \o ms
      /\ (request'[s] # "completed" \/ reply'[s].error) => reply'[s].ids = <<>>
      /\ \/ request'[s] = request[s] /\ reply'[s] = reply[s] /\ matches'[s] = ms
         \/ /\ always \/ ms # <<>>
            /\ (reply'[s].ids = <<>> /\ ~reply'[s].error) => ms = <<>> /\ matches'[s] = <<>>
  BY <1>2, SendTakes
<1>4. QED  BY <1>1, <1>3

\* A step of the search: the matches on their way to the client stay right, as far as the
\* table is, and whole; the client is told of the end when nothing is left; and each new row
\* of the table is right.
LEMMA NextGives ==
    ASSUME TypeOK, NEW s \in Sessions, NEW h \in Handlers, Distinct(h.folders),
           NEW table \in SUBSET [id : Messages, match : BOOLEAN],
           NEW ms \in Seq(Messages), NEW q \in Seq(Messages), NEW se, NEW fr,
           RangeOf(h.folders) \subseteq RangeOf(se.folders), h.criteria = se.criteria,
           (request[s] # "completed" \/ reply[s].error) => reply[s].ids = <<>>,
           (request[s] = "completed" /\ reply[s].ids = <<>> /\ ~reply[s].error) =>
               ms = <<>> /\ h.rows = {} /\ h.folders = <<>>,
           DoNextSearch(s, h, table, ms)
    PROVE  LET g == handler'[s]
               p == (q \o reply[s].ids) \o ms
               new == (q \o reply'[s].ids) \o matches'[s]
           IN /\ g \in Handlers /\ g.criteria = h.criteria /\ g.new = h.new
              /\ Distinct(g.folders) /\ RangeOf(g.folders) \subseteq RangeOf(h.folders)
              /\ g.active \/ (g.rows = {} /\ g.folders = <<>>)
              /\ (request'[s] # "completed" \/ reply'[s].error) => reply'[s].ids = <<>>
              /\ (request'[s] = "completed" /\ reply'[s].ids = <<>> /\ ~reply'[s].error) =>
                     matches'[s] = <<>> /\ g.rows = {} /\ g.folders = <<>>
              /\ \A row \in results' : row \in table \/ (row.match <=> h.criteria \in meets[row.id])
              /\ (/\ Sound(p, h.rows, h.folders, se, fr)
                  /\ h.new \/ \A row \in table :
                                  row.id \in fr => (row.match <=> h.criteria \in meets[row.id]))
                 => /\ Sound(new, g.rows, g.folders, se, fr)
                    /\ Whole(p, h.rows, h.folders, se, fr) => Whole(new, g.rows, g.folders, se, fr)
<1>1. PICK at : at = AtNextRow(h)
  OBVIOUS
<1>2. /\ at \in Handlers /\ at.criteria = h.criteria /\ at.new = h.new
      /\ Distinct(at.folders) /\ RangeOf(at.folders) \subseteq RangeOf(h.folders)
      /\ at.rows = {} => at.folders = <<>>
      /\ \A m : Left(m, at.rows, at.folders) => Left(m, h.rows, h.folders)
  BY <1>1, NextRowIs
<1>3. PICK p, new, g : /\ p = (q \o reply[s].ids) \o ms
                       /\ new = (q \o reply'[s].ids) \o matches'[s] /\ g = handler'[s]
  OBVIOUS
<1>4. reply[s].ids \in Seq(Messages)
  BY DEF TypeOK
<1>5. PICK x : x = q \o reply[s].ids /\ x \in Seq(Messages)
  BY <1>4, BothLists
<1>6. p = x \o ms /\ p \in Seq(Messages)
  BY <1>3, <1>5, BothLists
<1>7. /\ Sound(p, h.rows, h.folders, se, fr) => Sound(p, at.rows, at.folders, se, fr)
      /\ Whole(p, h.rows, h.folders, se, fr) => Whole(p, at.rows, at.folders, se, fr)
  BY <1>1, NextRowKeeps
<1>8. CASE /\ at.rows = {} /\ handler' = [handler EXCEPT ![s] = at] /\ results' = table
           /\ SendMatchesToClient(s, ms, TRUE)
  <2>1. g = at
    BY <1>3, <1>8 DEF TypeOK
  <2>2. PICK always \in BOOLEAN : always = TRUE
    OBVIOUS
  <2>3. SendMatchesToClient(s, ms, always)
    BY <1>8, <2>2
  <2>4. /\ (q \o reply'[s].ids) \o matches'[s] = (q \o reply[s].ids) \o ms
        /\ (request'[s] # "completed" \/ reply'[s].error) => reply'[s].ids = <<>>
        /\ \/ request'[s] = request[s] /\ reply'[s] = reply[s] /\ matches'[s] = ms
           \/ /\ always \/ ms # <<>>
              /\ (reply'[s].ids = <<>> /\ ~reply'[s].error) => ms = <<>> /\ matches'[s] = <<>>
    BY <2>3, SendTakes
  <2>5. new = p
    BY <1>3, <2>4
  <2>6. g.rows = {} /\ g.folders = <<>>
    BY <1>2, <1>8, <2>1
  <2>7. (request'[s] = "completed" /\ reply'[s].ids = <<>> /\ ~reply'[s].error) =>
            matches'[s] = <<>>
    BY <2>4
  <2>8. \A row \in results' : row \in table
    BY <1>8
  <2>9. /\ g \in Handlers /\ g.criteria = h.criteria /\ g.new = h.new
        /\ Distinct(g.folders) /\ RangeOf(g.folders) \subseteq RangeOf(h.folders)
    BY <1>2, <2>1
  <2>10. /\ Sound(p, h.rows, h.folders, se, fr) => Sound(new, g.rows, g.folders, se, fr)
         /\ Whole(p, h.rows, h.folders, se, fr) => Whole(new, g.rows, g.folders, se, fr)
    BY <1>7, <2>1, <2>5
  <2>11. QED  BY <1>3, <2>4, <2>6, <2>7, <2>8, <2>9, <2>10
<1>9. ASSUME NEW m \in at.rows, NEW result \in SearchL(h, m, table),
             handler' = [handler EXCEPT ![s] = [at EXCEPT !.active = TRUE, !.rows = @ \ {m}]],
             results' = result.table,
             SendMatchesToClient(s, IF result.match THEN Append(ms, m) ELSE ms, FALSE)
      PROVE  /\ g \in Handlers /\ g.criteria = h.criteria /\ g.new = h.new
             /\ Distinct(g.folders) /\ RangeOf(g.folders) \subseteq RangeOf(h.folders)
             /\ g.active
             /\ (request'[s] # "completed" \/ reply'[s].error) => reply'[s].ids = <<>>
             /\ ~(request'[s] = "completed" /\ reply'[s].ids = <<>> /\ ~reply'[s].error)
             /\ \A row \in results' : row \in table \/ (row.match <=> h.criteria \in meets[row.id])
             /\ (/\ Sound(p, h.rows, h.folders, se, fr)
                 /\ h.new \/ \A row \in table :
                                 row.id \in fr => (row.match <=> h.criteria \in meets[row.id]))
                => /\ Sound(new, g.rows, g.folders, se, fr)
                   /\ Whole(p, h.rows, h.folders, se, fr) => Whole(new, g.rows, g.folders, se, fr)
  <2>1. m \in Messages /\ at.rows \in SUBSET Messages
    BY <1>2 DEF Handlers
  <2>2. /\ g \in Handlers /\ g.criteria = h.criteria /\ g.new = h.new /\ g.active
        /\ g.rows = at.rows \ {m} /\ g.folders = at.folders
    <3>1. g = [at EXCEPT !.active = TRUE, !.rows = at.rows \ {m}]
      BY <1>3, <1>9 DEF TypeOK
    <3>2. QED  BY <1>2, <3>1 DEF Handlers
  <2>3. PICK is \in BOOLEAN : is <=> result.match
    <3>1. CASE result.match
      BY <3>1
    <3>2. CASE ~result.match
      BY <3>2
    <3>3. QED  BY <3>1, <3>2
  <2>4. PICK more : more = IF is THEN Append(ms, m) ELSE ms
    OBVIOUS
  <2>5. more \in Seq(Messages)
    BY <2>1, <2>4, AppendProperties
  <2>6. SendMatchesToClient(s, more, FALSE)
    BY <1>9, <2>3, <2>4
  <2>7. (request[s] # "completed" \/ reply[s].error) => reply[s].ids = <<>>
    OBVIOUS
  <2>8. /\ (q \o reply'[s].ids) \o matches'[s] = (q \o reply[s].ids) \o more
        /\ (request'[s] # "completed" \/ reply'[s].error) => reply'[s].ids = <<>>
        /\ \/ request'[s] = request[s] /\ reply'[s] = reply[s]
           \/ ~(reply'[s].ids = <<>> /\ ~reply'[s].error)
    BY <2>5, <2>6, <2>7, SendSome
  <2>9. ~(request'[s] = "completed" /\ reply'[s].ids = <<>> /\ ~reply'[s].error)
    <3>1. Left(m, h.rows, h.folders)
      BY <1>2, <1>9 DEF Left
    <3>2. ~(h.rows = {} /\ h.folders = <<>>)
      BY <3>1, EmptySeq DEF Left, RangeOf
    <3>3. QED  BY <2>8, <3>2
  <2>10. new = IF is THEN Append(p, m) ELSE p
    <3>1. new = x \o more
      BY <1>3, <1>5, <2>8
    <3>2. CASE is
      <4>1. x \o Append(ms, m) = Append(x \o ms, m)
        BY <1>5, <2>1, AppendedToBoth
      <4>2. QED  BY <1>6, <2>4, <3>1, <3>2, <4>1
    <3>3. CASE ~is
      BY <1>6, <2>4, <3>1, <3>3
    <3>4. QED  BY <3>2, <3>3
  <2>11. \A row \in results' : row \in table \/ (row.match <=> h.criteria \in meets[row.id])
    BY <1>9, RowsAdded
  <2>12. ASSUME Sound(p, h.rows, h.folders, se, fr),
                h.new \/ \A row \in table :
                             row.id \in fr => (row.match <=> h.criteria \in meets[row.id])
         PROVE  /\ Sound(new, g.rows, g.folders, se, fr)
                /\ Whole(p, h.rows, h.folders, se, fr) => Whole(new, g.rows, g.folders, se, fr)
    <3>1. Sound(p, at.rows, at.folders, se, fr)
      BY <1>7, <2>12
    <3>2. ASSUME m \in fr PROVE is <=> se.criteria \in meets[m]
      <4>1. m \in stored
        BY <1>9, <3>1, <3>2 DEF Sound
      <4>2. h.new \/ \A row \in table : row.id = m => (row.match <=> h.criteria \in meets[m])
        BY <2>12, <3>2
      <4>3. result.match <=> h.criteria \in meets[m]
        BY <1>9, <2>1, <4>1, <4>2, ResultIs
      <4>4. QED  BY <2>3, <4>3
    <3>3. /\ Sound(new, at.rows \ {m}, at.folders, se, fr)
          /\ Whole(p, at.rows, at.folders, se, fr) => Whole(new, at.rows \ {m}, at.folders, se, fr)
      BY <1>6, <1>9, <2>1, <2>10, <3>1, <3>2, LookedAt
    <3>4. QED  BY <1>7, <2>2, <3>3
  <2>13. QED  BY <1>2, <2>2, <2>8, <2>9, <2>11, <2>12
<1>10. \/ /\ at.rows = {} /\ handler' = [handler EXCEPT ![s] = at] /\ results' = table
          /\ SendMatchesToClient(s, ms, TRUE)
       \/ \E m \in at.rows : \E result \in SearchL(h, m, table) :
             /\ handler' = [handler EXCEPT ![s] = [at EXCEPT !.active = TRUE, !.rows = @ \ {m}]]
             /\ results' = result.table
             /\ SendMatchesToClient(s, IF result.match THEN Append(ms, m) ELSE ms, FALSE)
  BY <1>1 DEF DoNextSearch
<1>11. CASE \E m \in at.rows : \E result \in SearchL(h, m, table) :
             /\ handler' = [handler EXCEPT ![s] = [at EXCEPT !.active = TRUE, !.rows = @ \ {m}]]
             /\ results' = result.table
             /\ SendMatchesToClient(s, IF result.match THEN Append(ms, m) ELSE ms, FALSE)
  BY <1>3, <1>9, <1>11
<1>12. QED  BY <1>8, <1>10, <1>11

\* How often a message was given, if those on their way are right.
LEMMA TimesGiven ==
    ASSUME NEW f \in Seq(Messages), NEW r \in Seq(Messages), NEW rows, NEW fs, NEW se, NEW fr,
           Sound(f \o r, rows, fs, se, fr), NEW m \in fr
    PROVE  /\ Times(m, f) <= IF Wants(se, m) THEN 1 ELSE 0
           /\ Whole(f, {}, <<>>, se, fr) => Times(m, f) = IF Wants(se, m) THEN 1 ELSE 0
<1>1. Once(m, f \o r) /\ (m \in RangeOf(f \o r) => Wants(se, m))
  BY DEF Sound
<1>2. Once(m, f) /\ (m \in RangeOf(f) => Wants(se, m))
  BY <1>1, BothLists
<1>3. Times(m, f) = IF m \in RangeOf(f) THEN 1 ELSE 0
  BY <1>2, TimesIs
<1>4. ASSUME Whole(f, {}, <<>>, se, fr), Wants(se, m) PROVE m \in RangeOf(f)
  <2>1. ~Left(m, {}, <<>>)
    BY EmptySeq DEF Left, RangeOf
  <2>2. QED  BY <1>4, <2>1 DEF Whole
<1>5. QED  BY <1>2, <1>3, <1>4

\* What comes after the first of four lists.
LEMMA FourLists ==
    ASSUME NEW f \in Seq(Messages), NEW g \in Seq(Messages), NEW r \in Seq(Messages),
           NEW ms \in Seq(Messages)
    PROVE  \E rest \in Seq(Messages) : InOrder(f, g, r, ms) = f \o rest
<1>1. PICK a, b, c : a = f \o g /\ b = r \o ms /\ c = g \o b
  OBVIOUS
<1>2. a \in Seq(Messages) /\ b \in Seq(Messages)
  BY <1>1, BothLists
<1>3. c \in Seq(Messages)
  BY <1>1, <1>2, BothLists
<1>4. (a \o r) \o ms = a \o (r \o ms)
  BY <1>2, Regrouped
<1>5. (f \o g) \o b = f \o (g \o b)
  BY <1>2, Regrouped
<1>6. ((f \o g) \o r) \o ms = f \o c
  BY <1>1, <1>4, <1>5
<1>7. QED  BY <1>3, <1>6 DEF InOrder

\* What the client has is the beginning of it.
LEMMA PipeAfter ==
    ASSUME NEW s \in Sessions, TypeOK'
    PROVE  found'[s] \in Seq(Messages) /\ \E rest \in Seq(Messages) : Pipe(s)' = found'[s] \o rest
<1>1. PICK f, g, r, ms : f = found'[s] /\ g = giving'[s] /\ r = reply'[s].ids /\ ms = matches'[s]
  OBVIOUS
<1>2. f \in Seq(Messages) /\ g \in Seq(Messages) /\ r \in Seq(Messages) /\ ms \in Seq(Messages)
  BY <1>1 DEF TypeOK
<1>3. \E rest \in Seq(Messages) : InOrder(f, g, r, ms) = f \o rest
  BY <1>2, FourLists
<1>4. Pipe(s)' = InOrder(f, g, r, ms)
  BY <1>1 DEF Pipe
<1>5. QED  BY <1>1, <1>2, <1>3, <1>4

\* What a session is given after a step of its own.
LEMMA GivenAfter ==
    ASSUME NEW s \in Sessions, TypeOK', stored' = stored, meets' = meets,
           NEW rows, NEW fs, NEW se, NEW fr, NEW p,
           Pipe(s)' = p, RowsLeft(s)' = rows, FoldersLeft(s)' = fs, search'[s] = se, fresh'[s] = fr,
           Sound(p, rows, fs, se, fr), searching'[s] # "no" => Whole(p, rows, fs, se, fr),
           GivenMatches(s)' \/ (outcome'[s] = "complete" => Whole(found'[s], {}, <<>>, se, fr))
    PROVE  Given(s)'
<1>1. PICK f : f = found'[s]
  OBVIOUS
<1>2. f \in Seq(Messages) /\ \E rest \in Seq(Messages) : p = f \o rest
  BY <1>1, PipeAfter
<1>10. PICK rest \in Seq(Messages) : p = f \o rest
  BY <1>2
<1>3. Sound(f \o rest, rows, fs, se, fr)
  BY <1>10
<1>4. ASSUME NEW m \in fr
      PROVE  /\ Times(m, f) <= IF Wants(se, m) THEN 1 ELSE 0
             /\ Whole(f, {}, <<>>, se, fr) => Times(m, f) = IF Wants(se, m) THEN 1 ELSE 0
  BY <1>2, <1>3, TimesGiven
<1>5. ASSUME NEW m PROVE m \in Wanted(s)' <=> Wants(se, m)
  BY DEF Wanted, Wants
<1>6. GivenMatches(s)'
  <2>1. SUFFICES ASSUME NEW m \in fr, outcome'[s] = "complete" => Whole(found'[s], {}, <<>>, se, fr)
                 PROVE  /\ Times(m, f) <= IF m \in Wanted(s)' THEN 1 ELSE 0
                        /\ outcome'[s] = "complete" =>
                               Times(m, f) = IF m \in Wanted(s)' THEN 1 ELSE 0
    BY <1>1 DEF GivenMatches
  <2>2. /\ Times(m, f) <= IF Wants(se, m) THEN 1 ELSE 0
        /\ Whole(f, {}, <<>>, se, fr) => Times(m, f) = IF Wants(se, m) THEN 1 ELSE 0
    BY <1>4
  <2>3. outcome'[s] = "complete" => Whole(f, {}, <<>>, se, fr)
    BY <1>1, <2>1
  <2>4. CASE Wants(se, m)
    <3>1. m \in Wanted(s)'
      BY <1>5, <2>4
    <3>2. QED  BY <2>2, <2>3, <2>4, <3>1
  <2>5. CASE ~Wants(se, m)
    <3>1. m \notin Wanted(s)'
      BY <1>5, <2>5
    <3>2. QED  BY <2>2, <2>3, <2>5, <3>1
  <2>6. QED  BY <2>4, <2>5
<1>7. Sound(p, rows, fs, se, fr)'
  BY DEF Sound, Wants, Left
<1>8. searching'[s] # "no" => Whole(p, rows, fs, se, fr)'
  BY DEF Whole, Wants, Left
<1>9. QED  BY <1>6, <1>7, <1>8 DEF Given

\* What was given stays right while nothing is given.
LEMMA GivenMatchesStays ==
    ASSUME NEW s \in Sessions, GivenMatches(s), stored' = stored, meets' = meets,
           found'[s] = found[s], search'[s] = search[s], fresh'[s] = fresh[s],
           outcome'[s] = outcome[s]
    PROVE  GivenMatches(s)'
<1>1. Wanted(s)' = Wanted(s)
  BY DEF Wanted
<1>2. QED  BY <1>1 DEF GivenMatches

\* A session for which nothing changed.
LEMMA GivenStays ==
    ASSUME NEW s \in Sessions, Given(s), stored' = stored, meets' = meets,
           found'[s] = found[s], search'[s] = search[s], fresh'[s] = fresh[s],
           outcome'[s] = outcome[s],
           \/ server' # "running" \/ s \in crashed'
           \/ /\ giving'[s] = giving[s] /\ reply'[s] = reply[s] /\ matches'[s] = matches[s]
              /\ handler'[s] = handler[s] /\ server = "running" /\ s \notin crashed
              /\ searching'[s] # "no" => searching[s] # "no"
    PROVE  Given(s)'
<1>2. GivenMatches(s)'
  BY GivenMatchesStays DEF Given
<1>3. CASE server' # "running" \/ s \in crashed'
  BY <1>2, <1>3 DEF Given
<1>4. CASE /\ giving'[s] = giving[s] /\ reply'[s] = reply[s] /\ matches'[s] = matches[s]
           /\ handler'[s] = handler[s] /\ server = "running" /\ s \notin crashed
           /\ searching'[s] # "no" => searching[s] # "no"
  <2>1. PICK p, rows, fs : p = Pipe(s) /\ rows = RowsLeft(s) /\ fs = FoldersLeft(s)
    OBVIOUS
  <2>2. Pipe(s)' = p /\ RowsLeft(s)' = rows /\ FoldersLeft(s)' = fs
    BY <1>4, <2>1 DEF Pipe, RowsLeft, FoldersLeft
  <2>3. /\ Sound(p, rows, fs, search[s], fresh[s])
        /\ searching[s] # "no" => Whole(p, rows, fs, search[s], fresh[s])
    BY <1>4, <2>1 DEF Given
  <2>4. PICK se, fr : se = search[s] /\ fr = fresh[s]
    OBVIOUS
  <2>5. Sound(p, rows, fs, se, fr)' /\ (searching[s] # "no" => Whole(p, rows, fs, se, fr)')
    BY <2>3, <2>4 DEF Sound, Whole, Wants, Left
  <2>6. QED  BY <1>2, <1>4, <2>2, <2>4, <2>5 DEF Given
<1>5. QED  BY <1>3, <1>4

\* A step of one session, which leaves the others as they are.
LEMMA GivesOthers ==
    ASSUME Gives, NEW s \in Sessions, stored' = stored, meets' = meets, OthersSame(s),
           server' = server \/ server' = "panicked", server = "running",
           \A t \in Sessions \ {s} :
              /\ handler'[t] = handler[t] /\ searching'[t] = searching[t]
              /\ giving'[t] = giving[t] /\ found'[t] = found[t] /\ search'[t] = search[t]
              /\ outcome'[t] = outcome[t] /\ again'[t] = again[t] /\ fresh'[t] = fresh[t]
              /\ t \in crashed' <=> t \in crashed,
           HandlerFits(s)', TableFits(s)', Trusted(s)' => Given(s)'
    PROVE  Gives'
<1>1. ASSUME NEW t \in Sessions \ {s}
      PROVE  HandlerFits(t)' /\ TableFits(t)' /\ (Trusted(t)' => Given(t)')
  <2>1. HandlerFits(t) /\ (Trusted(t) => Given(t))
    BY DEF Gives
  <2>2. /\ request'[t] = request[t] /\ reply'[t] = reply[t] /\ matches'[t] = matches[t]
    BY DEF OthersSame
  <2>3. /\ RowsLeft(t)' = RowsLeft(t) /\ FoldersLeft(t)' = FoldersLeft(t)
        /\ InProgress(t)' <=> InProgress(t)
    BY DEF RowsLeft, FoldersLeft, InProgress
  <2>4. PICK rows, fs : rows = RowsLeft(t) /\ fs = FoldersLeft(t)
    OBVIOUS
  <2>5. HandlerFits(t)'
    BY <2>1, <2>2, <2>3, <2>4 DEF HandlerFits, Distinct
  <2>6. TableFits(t)'
    BY DEF TableFits
  <2>7. Trusted(t)' <=> Trusted(t)
    BY DEF Trusted
  <2>8. ASSUME Given(t) PROVE Given(t)'
    BY <2>2, <2>8, GivenStays
  <2>9. QED  BY <2>1, <2>5, <2>6, <2>7, <2>8
<1>2. QED  BY <1>1 DEF Gives

\* Nothing was given yet.
LEMMA NothingGiven ==
    ASSUME NEW s \in Sessions, found'[s] = <<>>, outcome'[s] = "none"
    PROVE  GivenMatches(s)'
<1>1. PICK f : f = found'[s]
  OBVIOUS
<1>2. ASSUME NEW m PROVE Times(m, f) = 0
  <2>1. <<>> \in Seq(Messages) /\ Len(f) = 0 /\ f \in Seq(Messages)
    BY <1>1, EmptySeq
  <2>2. Once(m, f) /\ m \notin RangeOf(f)
    BY <2>1 DEF Once, RangeOf
  <2>3. QED  BY <2>1, <2>2, TimesIs
<1>3. QED  BY <1>1, <1>2 DEF GivenMatches

\* The handler of a session, in the terms of the invariant.
LEMMA HandlerIs ==
    ASSUME TypeOK, NEW s \in Sessions
    PROVE  /\ handler[s] # NoHandler => /\ handler[s] \in Handlers
                                        /\ RowsLeft(s) = handler[s].rows
                                        /\ FoldersLeft(s) = handler[s].folders
           /\ handler[s] = NoHandler => RowsLeft(s) = {} /\ FoldersLeft(s) = <<>>
           /\ RowsLeft(s)' = IF handler'[s] = NoHandler THEN {} ELSE handler'[s].rows
           /\ FoldersLeft(s)' = IF handler'[s] = NoHandler THEN <<>> ELSE handler'[s].folders
BY DEF TypeOK, RowsLeft, FoldersLeft

\* A run of the handler.
LEMMA RunLGives ==
    ASSUME TypeOK, TypeOK', Gives, NEW s \in Sessions, RunL(s)
    PROVE  Gives'
<1>1. /\ server = "running" /\ handler[s] # NoHandler
      /\ DoNextSearch(s, [handler[s] EXCEPT !.active = FALSE], results, matches[s])
      /\ UNCHANGED <<world, server, client, search, found, outcome, again, fresh, events>>
  BY DEF RunL, InProgress
<1>2. /\ stored' = stored /\ meets' = meets /\ server' = server /\ searching' = searching
      /\ giving' = giving /\ crashed' = crashed /\ search' = search /\ found' = found
      /\ outcome' = outcome /\ again' = again /\ fresh' = fresh
  BY <1>1 DEF world, client
<1>3. OthersSame(s) /\ \A t \in Sessions \ {s} : handler'[t] = handler[t]
  BY RunLIs
<1>4. HandlerFits(s) /\ TableFits(s) /\ (Trusted(s) => Given(s))
  BY DEF Gives
<1>5. PICK h : h = [handler[s] EXCEPT !.active = FALSE]
  OBVIOUS
<1>6. /\ handler[s] \in Handlers /\ RowsLeft(s) = handler[s].rows
      /\ FoldersLeft(s) = handler[s].folders
  BY <1>1, HandlerIs
<1>7. /\ h \in Handlers /\ h.criteria = handler[s].criteria /\ h.new = handler[s].new
      /\ h.rows = RowsLeft(s) /\ h.folders = FoldersLeft(s)
  BY <1>5, <1>6 DEF Handlers
<1>8. PICK q, se, fr, ms, table : /\ q = found[s] \o giving[s] /\ se = search[s]
                                  /\ fr = fresh[s] /\ ms = matches[s] /\ table = results
  OBVIOUS
<1>9. q \in Seq(Messages)
  <2>1. found[s] \in Seq(Messages) /\ giving[s] \in Seq(Messages)
    BY DEF TypeOK
  <2>2. QED  BY <1>8, <2>1, BothLists
<1>10. ms \in Seq(Messages) /\ table \in SUBSET [id : Messages, match : BOOLEAN]
  BY <1>8 DEF TypeOK
<1>11. DoNextSearch(s, h, table, ms)
  BY <1>1, <1>5, <1>8
<1>12. /\ Distinct(h.folders) /\ RangeOf(h.folders) \subseteq RangeOf(se.folders)
       /\ h.criteria = se.criteria
       /\ (request[s] # "completed" \/ reply[s].error) => reply[s].ids = <<>>
       /\ (request[s] = "completed" /\ reply[s].ids = <<>> /\ ~reply[s].error) =>
              ms = <<>> /\ h.rows = {} /\ h.folders = <<>>
  BY <1>1, <1>4, <1>7, <1>8 DEF HandlerFits
<1>13. PICK g, p, new : /\ g = handler'[s] /\ p = (q \o reply[s].ids) \o ms
                        /\ new = (q \o reply'[s].ids) \o matches'[s]
  OBVIOUS
<1>14. /\ g \in Handlers /\ g.criteria = h.criteria /\ g.new = h.new
       /\ Distinct(g.folders) /\ RangeOf(g.folders) \subseteq RangeOf(h.folders)
       /\ g.active \/ (g.rows = {} /\ g.folders = <<>>)
       /\ (request'[s] # "completed" \/ reply'[s].error) => reply'[s].ids = <<>>
       /\ (request'[s] = "completed" /\ reply'[s].ids = <<>> /\ ~reply'[s].error) =>
              matches'[s] = <<>> /\ g.rows = {} /\ g.folders = <<>>
       /\ \A row \in results' : row \in table \/ (row.match <=> h.criteria \in meets[row.id])
       /\ (/\ Sound(p, h.rows, h.folders, se, fr)
           /\ h.new \/ \A row \in table :
                           row.id \in fr => (row.match <=> h.criteria \in meets[row.id]))
          => /\ Sound(new, g.rows, g.folders, se, fr)
             /\ Whole(p, h.rows, h.folders, se, fr) => Whole(new, g.rows, g.folders, se, fr)
  BY <1>7, <1>9, <1>10, <1>11, <1>12, <1>13, NextGives
<1>15. /\ handler'[s] # NoHandler /\ RowsLeft(s)' = g.rows /\ FoldersLeft(s)' = g.folders
       /\ InProgress(s)' <=> g.active
  BY <1>13, <1>14, NoHandlerType DEF RowsLeft, FoldersLeft, InProgress
<1>16. HandlerFits(s)'
  BY <1>1, <1>2, <1>4, <1>7, <1>8, <1>12, <1>13, <1>14, <1>15 DEF HandlerFits, Distinct
<1>17. TableFits(s)'
  BY <1>1, <1>2, <1>4, <1>7, <1>8, <1>13, <1>14 DEF TableFits
<1>18. ASSUME Trusted(s)' PROVE Given(s)'
  <2>1. Given(s) /\ Trusted(s)
    BY <1>2, <1>4, <1>18 DEF Trusted
  <2>2. CASE s \in crashed
    BY <1>2, <2>1, <2>2, GivenStays
  <2>3. CASE s \notin crashed
    <3>1. Pipe(s) = p /\ Pipe(s)' = new
      BY <1>2, <1>8, <1>13 DEF Pipe, InOrder
    <3>2. /\ Sound(p, h.rows, h.folders, se, fr)
          /\ searching[s] # "no" => Whole(p, h.rows, h.folders, se, fr)
      BY <1>1, <1>7, <1>8, <2>1, <2>3, <3>1 DEF Given
    <3>3. h.new \/ \A row \in table : row.id \in fr => (row.match <=> h.criteria \in meets[row.id])
      <4>1. CASE ~again[s]
        BY <1>1, <1>4, <1>7, <4>1 DEF HandlerFits
      <4>2. CASE again[s]
        BY <1>1, <1>4, <1>7, <1>8, <2>1, <4>2 DEF Trusted, TableFits
      <4>3. QED  BY <4>1, <4>2
    <3>4. /\ Sound(new, g.rows, g.folders, se, fr)
          /\ searching'[s] # "no" => Whole(new, g.rows, g.folders, se, fr)
      BY <1>2, <1>14, <3>2, <3>3
    <3>5. GivenMatches(s)'
      BY <1>2, <2>1, GivenMatchesStays DEF Given
    <3>6. search'[s] = se /\ fresh'[s] = fr
      BY <1>2, <1>8
    <3>7. QED  BY <1>2, <1>15, <3>1, <3>4, <3>5, <3>6, GivenAfter
  <2>4. QED  BY <2>2, <2>3
<1>19. QED  BY <1>1, <1>2, <1>3, <1>16, <1>17, <1>18, GivesOthers

\* An answer to the client's GetMatches.
LEMMA GetMatchesGives ==
    ASSUME TypeOK, TypeOK', Quiet, Gives, NEW s \in Sessions, GetMatches(s)
    PROVE  Gives'
<1>1. /\ server = "running" /\ request[s] = "posted"
      /\ UNCHANGED <<world, server, results, handler, client, ghost, events>>
  BY DEF GetMatches
<1>2. /\ stored' = stored /\ meets' = meets /\ server' = server /\ searching' = searching
      /\ giving' = giving /\ crashed' = crashed /\ search' = search /\ found' = found
      /\ outcome' = outcome /\ again' = again /\ fresh' = fresh /\ handler' = handler
      /\ results' = results
  BY <1>1 DEF world, client, ghost
<1>3. OthersSame(s)
  BY GetMatchesIs
<1>4. HandlerFits(s) /\ TableFits(s) /\ (Trusted(s) => Given(s))
  BY DEF Gives
<1>5. /\ RowsLeft(s)' = RowsLeft(s) /\ FoldersLeft(s)' = FoldersLeft(s)
      /\ InProgress(s)' <=> InProgress(s)
  BY <1>2 DEF RowsLeft, FoldersLeft, InProgress
<1>6. PICK rows, fs : rows = RowsLeft(s) /\ fs = FoldersLeft(s)
  OBVIOUS
<1>7. searching[s] # "no" /\ reply[s].ids = <<>>
  BY <1>1, <1>4 DEF Quiet, HandlerFits
<1>8. TableFits(s)' /\ (Trusted(s)' <=> Trusted(s))
  BY <1>2, <1>4 DEF TableFits, Trusted
<1>9. CASE /\ matches[s] = <<>> /\ InProgress(s)
           /\ request' = [request EXCEPT ![s] = "held"] /\ UNCHANGED <<reply, matches>>
  <2>1. request'[s] = "held"
    BY <1>9 DEF TypeOK
  <2>2. HandlerFits(s)'
    BY <1>2, <1>4, <1>5, <1>6, <1>7, <1>9, <2>1 DEF HandlerFits, Distinct
  <2>3. Trusted(s)' => Given(s)'
    BY <1>1, <1>2, <1>4, <1>8, <1>9, GivenStays
  <2>4. QED  BY <1>1, <1>2, <1>3, <1>8, <2>2, <2>3, GivesOthers
<1>10. CASE (matches[s] # <<>> \/ ~InProgress(s)) /\ Answer(s, matches[s])
  <2>1. PICK q, ms : q = found[s] \o giving[s] /\ ms = matches[s]
    OBVIOUS
  <2>2. q \in Seq(Messages) /\ ms \in Seq(Messages)
    <3>1. found[s] \in Seq(Messages) /\ giving[s] \in Seq(Messages) /\ matches[s] \in Seq(Messages)
      BY DEF TypeOK
    <3>2. QED  BY <2>1, <3>1, BothLists
  <2>3. Answer(s, ms)
    BY <1>10, <2>1
  <2>4. /\ (q \o reply'[s].ids) \o matches'[s] = (q \o reply[s].ids) \o ms
        /\ request'[s] = "completed" /\ (reply'[s].error => reply'[s].ids = <<>>)
        /\ (reply'[s].ids = <<>> /\ ~reply'[s].error) => ms = <<>> /\ matches'[s] = <<>>
    BY <1>7, <2>2, <2>3, AnswerTakes
  <2>5. ASSUME reply'[s].ids = <<>>, ~reply'[s].error
        PROVE  matches'[s] = <<>> /\ rows = {} /\ fs = <<>>
    <3>1. ms = <<>> /\ matches'[s] = <<>>
      BY <2>4, <2>5
    <3>2. ~InProgress(s)
      BY <1>10, <2>1, <3>1
    <3>3. QED  BY <1>1, <1>4, <1>6, <1>7, <3>1, <3>2 DEF HandlerFits
  <2>6. HandlerFits(s)'
    BY <1>2, <1>4, <1>5, <1>6, <2>4, <2>5 DEF HandlerFits, Distinct
  <2>7. ASSUME Trusted(s)' PROVE Given(s)'
    <3>1. Given(s)
      BY <1>4, <1>8, <2>7
    <3>2. CASE s \in crashed
      BY <1>2, <3>1, <3>2, GivenStays
    <3>3. CASE s \notin crashed
      <4>1. PICK p, se, fr : p = Pipe(s) /\ se = search[s] /\ fr = fresh[s]
        OBVIOUS
      <4>2. Pipe(s)' = p
        <5>1. Pipe(s) = (q \o reply[s].ids) \o ms
          BY <2>1 DEF Pipe, InOrder
        <5>2. Pipe(s)' = (q \o reply'[s].ids) \o matches'[s]
          BY <1>2, <2>1 DEF Pipe, InOrder
        <5>3. QED  BY <2>4, <4>1, <5>1, <5>2
      <4>3. /\ Sound(p, rows, fs, se, fr) /\ Whole(p, rows, fs, se, fr)
        BY <1>1, <1>6, <1>7, <3>1, <3>3, <4>1 DEF Given
      <4>4. GivenMatches(s)'
        BY <1>2, <3>1, GivenMatchesStays DEF Given
      <4>5. /\ RowsLeft(s)' = rows /\ FoldersLeft(s)' = fs /\ search'[s] = se /\ fresh'[s] = fr
        BY <1>2, <1>5, <1>6, <4>1
      <4>6. QED  BY <1>2, <4>2, <4>3, <4>4, <4>5, GivenAfter
    <3>4. QED  BY <3>2, <3>3
  <2>8. QED  BY <1>1, <1>2, <1>3, <1>8, <2>6, <2>7, GivesOthers
<1>11. QED  BY <1>9, <1>10 DEF GetMatches

\* A search that starts with nothing found: nothing is given yet, and all is left.
LEMMA NothingFound ==
    ASSUME NEW l, NEW se, se.folders = l, NEW fr
    PROVE  Sound(<<>>, {}, l, se, fr) /\ Whole(<<>>, {}, l, se, fr)
<1>1. Len(<<>>) = 0
  OBVIOUS
<1>2. \A m : Once(m, <<>>) /\ m \notin RangeOf(<<>>)
  BY <1>1 DEF Once, RangeOf
<1>3. QED  BY <1>2 DEF Sound, Whole, Left, Wants

\* Each session has a search that its client made last.
EachSearches == DOMAIN search = Sessions

\* It keeps one.
LEMMA SearchesStep == TypeOK /\ EachSearches /\ [Next]_vars => EachSearches'
<1> SUFFICES ASSUME EachSearches, [Next]_vars PROVE DOMAIN search' = DOMAIN search
  BY DEF EachSearches
<1>1. ASSUME NEW s \in Sessions, NEW c \in Criteria, NEW l \in FolderLists, Search(s, c, l)
      PROVE  DOMAIN search' = DOMAIN search
  BY <1>1 DEF Search
<1>2. ASSUME NEW s \in Sessions, RunL(s) \/ GetMatches(s)
      PROVE  DOMAIN search' = DOMAIN search
  BY <1>2 DEF RunL, GetMatches, ghost
<1>3. ASSUME NEW s \in Sessions, ClientRunL(s) \/ CancelSearch(s) \/ ClearSearchResultCache(s)
      PROVE  DOMAIN search' = DOMAIN search
  BY <1>3 DEF ClientRunL, AskForMatches, RunLMatches, RunLNextMatch, RunLCompleted,
              SearchCompleted, CancelSearch, ClearSearchResultCache, ghost
<1>4. CASE StoreUnavailable \/ StoreAvailable \/ \E m \in Messages : MessageChanged(m)
  BY <1>4 DEF StoreUnavailable, StoreAvailable, MessageChanged, ghost
<1>5. CASE UNCHANGED vars
  BY <1>5 DEF vars, ghost
<1>6. QED  BY <1>1, <1>2, <1>3, <1>4, <1>5 DEF Next

\* A search that a client asks for, of a list that names no folder twice.
LEMMA SearchGives ==
    ASSUME TypeOK, TypeOK', Quiet, EachSearches, Gives, NEW s \in Sessions, NEW c \in Criteria,
           NEW l \in FolderLists, Distinct(l), Search(s, c, l)
    PROVE  Gives'
<1>1. /\ server = "running" /\ searching[s] = "no" /\ DoPrepareSearch(s, c, l)
      /\ searching' = [searching EXCEPT ![s] = "prepared"]
      /\ search' = [search EXCEPT ![s] = [criteria |-> c, folders |-> l]]
      /\ found' = [found EXCEPT ![s] = <<>>] /\ outcome' = [outcome EXCEPT ![s] = "none"]
      /\ UNCHANGED <<world, told, giving, ending, crashed>>
  BY DEF Search, Calls, Served
<1>2. /\ OthersSame(s) /\ \A t \in Sessions \ {s} : handler'[t] = handler[t]
      /\ server' = "running" \/ InProgress(s)
  BY SearchIs
<1>3. /\ stored' = stored /\ meets' = meets /\ giving' = giving /\ crashed' = crashed
      /\ searching'[s] = "prepared" /\ found'[s] = <<>> /\ outcome'[s] = "none"
      /\ \A t \in Sessions \ {s} : /\ searching'[t] = searching[t] /\ found'[t] = found[t]
                                   /\ outcome'[t] = outcome[t]
  BY <1>1 DEF world, TypeOK
<1>4. request[s] = "none" /\ reply[s].ids = <<>> /\ giving[s] = <<>>
  BY <1>1 DEF Quiet, Gives, HandlerFits, TypeOK
<1>5. HandlerFits(s) /\ TableFits(s) /\ (Trusted(s) => Given(s))
  BY DEF Gives
<1>6. GivenMatches(s)'
  BY <1>3, NothingGiven
<1> DEFINE expr == handler[s] # NoHandler /\ handler[s].criteria = c
<1>7. PICK same \in BOOLEAN : same = expr
                             /\ (same => handler[s] # NoHandler /\ handler[s].criteria = c)
  <2>1. CASE handler[s] # NoHandler /\ handler[s].criteria = c
    <3>1. expr = TRUE
      BY <2>1
    <3>2. QED  BY <2>1, <3>1
  <2>2. CASE ~(handler[s] # NoHandler /\ handler[s].criteria = c)
    <3>1. expr = FALSE
      BY <2>2
    <3>2. QED  BY <3>1
  <2>3. QED  BY <2>1, <2>2
<1>8. StartSearch(s, c, l, expr)
  BY <1>1 DEF DoPrepareSearch
<1> HIDE DEF expr
<1>9. StartSearch(s, c, l, same)
  BY <1>7, <1>8
<1>10. PICK runs \in BOOLEAN : runs = (same /\ handler[s].active)
                               /\ (runs => same /\ handler[s].active)
  <2>1. CASE same /\ handler[s].active
    <3>1. TRUE = (same /\ handler[s].active)
      BY <2>1
    <3>2. QED  BY <2>1, <3>1
  <2>2. CASE ~(same /\ handler[s].active)
    <3>1. FALSE = (same /\ handler[s].active)
      BY <2>2
    <3>2. QED  BY <3>1
  <2>3. QED  BY <2>1, <2>2
<1>11. PICK h : h = [criteria |-> c, new |-> ~same, active |-> runs, rows |-> {}, folders |-> l]
  OBVIOUS
<1>12. /\ h \in Handlers /\ h.criteria = c /\ h.new = ~same /\ h.active = runs
       /\ h.rows = {} /\ h.folders = l
  <2>1. l \in Seq(Folders)
    BY MessagesType
  <2>2. QED  BY <1>11, <2>1 DEF Handlers
<1>13. PICK se, fr, table : /\ se = search'[s] /\ fr = fresh'[s]
                           /\ table = IF same THEN results ELSE {}
  OBVIOUS
<1>14. se.criteria = c /\ se.folders = l /\ \A t \in Sessions \ {s} : search'[t] = search[t]
  BY <1>1, <1>13 DEF EachSearches
<1>15. CASE h.active /\ AtNextRow(h).rows # {}
  <2>1. server' = "panicked" /\ UNCHANGED <<results, handler, matches, wire, again, fresh>>
    BY <1>9, <1>10, <1>11, <1>15, Zenon DEF StartSearch
  <2>2. same /\ handler[s].criteria = c
    BY <1>7, <1>10, <1>12, <1>15
  <2>3. HandlerFits(s)'
    BY <1>3, <1>4, <1>5, <1>13, <1>14, <2>1, <2>2 DEF HandlerFits, wire
  <2>4. TableFits(s)'
    BY <1>3, <1>5, <2>1 DEF TableFits
  <2>5. Given(s)'
    BY <1>6, <2>1 DEF Given
  <2>6. QED  BY <1>1, <1>2, <1>3, <1>14, <2>1, <2>3, <2>4, <2>5, GivesOthers
<1>16. CASE ~(h.active /\ AtNextRow(h).rows # {})
  <2>1. /\ server' = server /\ DoNextSearch(s, h, table, <<>>)
        /\ again' = [again EXCEPT ![s] = same]
        /\ fresh' = IF same THEN fresh ELSE [fresh EXCEPT ![s] = Messages]
    BY <1>9, <1>10, <1>11, <1>13, <1>16, Zenon DEF StartSearch
  <2>2. /\ again'[s] = same /\ (same => fr = fresh[s])
        /\ \A t \in Sessions \ {s} : again'[t] = again[t] /\ fresh'[t] = fresh[t]
    BY <1>13, <2>1 DEF TypeOK
  <2>3. PICK none \in Seq(Messages) : none = <<>>
    BY EmptySeq
  <2>4. table \in SUBSET [id : Messages, match : BOOLEAN]
    BY <1>13 DEF TypeOK
  <2>5. PICK g, p, new : /\ g = handler'[s] /\ p = (none \o reply[s].ids) \o none
                         /\ new = (none \o reply'[s].ids) \o matches'[s]
    OBVIOUS
  <2>6. /\ Distinct(h.folders) /\ RangeOf(h.folders) \subseteq RangeOf(se.folders)
        /\ h.criteria = se.criteria /\ DoNextSearch(s, h, table, none)
        /\ (request[s] # "completed" \/ reply[s].error) => reply[s].ids = <<>>
        /\ (request[s] = "completed" /\ reply[s].ids = <<>> /\ ~reply[s].error) =>
               none = <<>> /\ h.rows = {} /\ h.folders = <<>>
    BY <1>4, <1>12, <1>14, <2>1, <2>3
  <2>7. /\ g \in Handlers /\ g.criteria = h.criteria /\ g.new = h.new
        /\ Distinct(g.folders) /\ RangeOf(g.folders) \subseteq RangeOf(h.folders)
        /\ g.active \/ (g.rows = {} /\ g.folders = <<>>)
        /\ (request'[s] # "completed" \/ reply'[s].error) => reply'[s].ids = <<>>
        /\ (request'[s] = "completed" /\ reply'[s].ids = <<>> /\ ~reply'[s].error) =>
               matches'[s] = <<>> /\ g.rows = {} /\ g.folders = <<>>
        /\ \A row \in results' : row \in table \/ (row.match <=> h.criteria \in meets[row.id])
        /\ (/\ Sound(p, h.rows, h.folders, se, fr)
            /\ h.new \/ \A row \in table :
                            row.id \in fr => (row.match <=> h.criteria \in meets[row.id]))
           => /\ Sound(new, g.rows, g.folders, se, fr)
              /\ Whole(p, h.rows, h.folders, se, fr) => Whole(new, g.rows, g.folders, se, fr)
    BY <1>12, <2>3, <2>4, <2>5, <2>6, NextGives
  <2>8. /\ handler'[s] # NoHandler /\ RowsLeft(s)' = g.rows /\ FoldersLeft(s)' = g.folders
        /\ InProgress(s)' <=> g.active
    BY <2>5, <2>7, NoHandlerType DEF RowsLeft, FoldersLeft, InProgress
  <2>9. HandlerFits(s)'
    <3>1. handler'[s].criteria = search'[s].criteria
      BY <1>12, <1>13, <1>14, <2>5, <2>7
    <3>2. handler'[s].new <=> ~again'[s]
      <4>1. CASE same
        BY <1>12, <2>2, <2>5, <2>7, <4>1
      <4>2. CASE ~same
        BY <1>12, <2>2, <2>5, <2>7, <4>2
      <4>3. QED  BY <4>1, <4>2
    <3>3. Distinct(FoldersLeft(s))' /\ RangeOf(FoldersLeft(s))' \subseteq RangeOf(search'[s].folders)
      BY <1>12, <1>13, <1>14, <2>7, <2>8 DEF Distinct, RangeOf
    <3>4. QED  BY <1>3, <2>7, <2>8, <3>1, <3>2, <3>3 DEF HandlerFits
  <2>10. Sessions = {s} /\ ~h.new =>
             \A row \in table : row.id \in fr => (row.match <=> h.criteria \in meets[row.id])
    BY <1>5, <1>7, <1>12, <1>13, <2>2 DEF TableFits
  <2>11. TableFits(s)'
    <3>1. ASSUME Sessions = {s}, NEW row \in results', row.id \in fr
          PROVE  row.match <=> c \in meets[row.id]
      <4>1. row \in table \/ (row.match <=> c \in meets[row.id])
        BY <1>12, <2>7
      <4>2. CASE row \in table
        <5>1. ~h.new
          BY <1>12, <1>13, <4>2
        <5>2. QED  BY <1>12, <2>10, <3>1, <4>2, <5>1
      <4>3. QED  BY <4>1, <4>2
    <3>2. QED  BY <1>3, <1>12, <1>13, <2>5, <2>7, <3>1 DEF TableFits
  <2>12. ASSUME Trusted(s)' PROVE Given(s)'
    <3>1. Sound(p, h.rows, h.folders, se, fr) /\ Whole(p, h.rows, h.folders, se, fr)
      <4>1. p = <<>>
        <5>1. none \o reply[s].ids = <<>>
          BY <1>4, <2>3
        <5>2. QED  BY <2>3, <2>5, <5>1
      <4>2. QED  BY <1>12, <1>14, <4>1, NothingFound
    <3>2. h.new \/ \A row \in table :
                      row.id \in fr => (row.match <=> h.criteria \in meets[row.id])
      BY <1>12, <2>2, <2>10, <2>12 DEF Trusted
    <3>3. Sound(new, g.rows, g.folders, se, fr) /\ Whole(new, g.rows, g.folders, se, fr)
      BY <2>7, <3>1, <3>2
    <3>4. Pipe(s)' = new
      <4>1. found'[s] \o giving'[s] = none
        BY <1>3, <1>4, <2>3
      <4>2. QED  BY <2>5, <4>1 DEF Pipe, InOrder
    <3>5. QED  BY <1>3, <1>6, <1>13, <2>8, <3>3, <3>4, GivenAfter
  <2>13. QED  BY <1>1, <1>2, <1>3, <1>14, <2>1, <2>2, <2>9, <2>11, <2>12, GivesOthers
<1>17. QED  BY <1>15, <1>16

\* The client asks for matches.
LEMMA AskGives ==
    ASSUME TypeOK, Quiet, Gives, NEW s \in Sessions, AskForMatches(s)
    PROVE  Gives'
<1>1. /\ server = "running" /\ searching[s] = "prepared"
      /\ request' = [request EXCEPT ![s] = "posted"]
      /\ searching' = [searching EXCEPT ![s] = "yes"]
      /\ UNCHANGED <<world, serve, reply, giving, ending, crashed, ghost, events>>
  BY DEF AskForMatches
<1>2. /\ stored' = stored /\ meets' = meets /\ server' = server /\ reply' = reply
      /\ giving' = giving /\ crashed' = crashed /\ search' = search /\ found' = found
      /\ outcome' = outcome /\ again' = again /\ fresh' = fresh /\ handler' = handler
      /\ results' = results /\ matches' = matches
  BY <1>1 DEF world, serve, ghost
<1>3. /\ request'[s] = "posted" /\ searching'[s] = "yes" /\ OthersSame(s)
      /\ \A t \in Sessions \ {s} : searching'[t] = searching[t]
  BY <1>1, <1>2 DEF TypeOK, OthersSame
<1>4. HandlerFits(s) /\ TableFits(s) /\ (Trusted(s) => Given(s))
  BY DEF Gives
<1>5. reply[s].ids = <<>>
  BY <1>1, <1>4 DEF Quiet, HandlerFits
<1>6. /\ RowsLeft(s)' = RowsLeft(s) /\ FoldersLeft(s)' = FoldersLeft(s)
      /\ InProgress(s)' <=> InProgress(s)
  BY <1>2 DEF RowsLeft, FoldersLeft, InProgress
<1>7. PICK rows, fs : rows = RowsLeft(s) /\ fs = FoldersLeft(s)
  OBVIOUS
<1>8. HandlerFits(s)'
  BY <1>1, <1>2, <1>3, <1>4, <1>5, <1>6, <1>7 DEF HandlerFits, Distinct
<1>9. TableFits(s)'
  BY <1>2, <1>4 DEF TableFits
<1>10. Trusted(s)' => Given(s)'
  <2>1. ASSUME Given(s) PROVE Given(s)'
    <3>1. CASE s \in crashed
      BY <1>2, <2>1, <3>1, GivenStays
    <3>2. CASE s \notin crashed
      BY <1>1, <1>2, <2>1, <3>2, GivenStays
    <3>3. QED  BY <3>1, <3>2
  <2>2. QED  BY <1>2, <1>4, <2>1 DEF Trusted
<1>11. QED  BY <1>1, <1>2, <1>3, <1>8, <1>9, <1>10, GivesOthers

\* The client is handed the first of ids: what is on its way, over all, stays.
LEMMA FoundMoves ==
    ASSUME TypeOK, NEW s \in Sessions, NEW ids \in Seq(Messages), ids # <<>>,
           MatchFound(s, ids), told[s]
    PROVE  /\ found'[s] \o giving'[s] = found[s] \o ids /\ crashed' = crashed
           /\ \A t \in Sessions \ {s} : found'[t] = found[t] /\ giving'[t] = giving[t]
<1>1. /\ found' = [found EXCEPT ![s] = Append(@, ids[1])]
      /\ giving' = [giving EXCEPT ![s] = Tail(ids)] /\ crashed' = crashed
  BY DEF MatchFound
<1>2. /\ found'[s] = Append(found[s], ids[1]) /\ giving'[s] = Tail(ids)
      /\ \A t \in Sessions \ {s} : found'[t] = found[t] /\ giving'[t] = giving[t]
  BY <1>1 DEF TypeOK
<1>3. found[s] \in Seq(Messages)
  BY DEF TypeOK
<1>4. Append(found[s], ids[1]) \o Tail(ids) = found[s] \o ids
  BY <1>3, FirstAndRest
<1>5. QED  BY <1>1, <1>2, <1>4

\* What was handed to a client came from what was on its way, or the client ended.
LEMMA HandedOver ==
    ASSUME TypeOK, TypeOK', Gives, NEW s \in Sessions, NEW ids \in Seq(Messages), ids # <<>>,
           MatchFound(s, ids), server = "running", s \notin crashed, searching[s] = "yes",
           UNCHANGED <<world, serve, searching, search, outcome, again, fresh>>,
           OthersSame(s), HandlerFits(s)',
           ((found[s] \o ids) \o reply'[s].ids) \o matches[s] = Pipe(s)
    PROVE  Gives'
<1>1. /\ stored' = stored /\ meets' = meets /\ server' = server /\ searching' = searching
      /\ search' = search /\ outcome' = outcome /\ again' = again /\ fresh' = fresh
      /\ handler' = handler /\ results' = results /\ matches' = matches
  BY DEF world, serve
<1>2. TableFits(s) /\ (Trusted(s) => Given(s))
  BY DEF Gives
<1>3. TableFits(s)'
  BY <1>1, <1>2 DEF TableFits
<1>4. CASE told[s]
  <2>1. /\ found'[s] \o giving'[s] = found[s] \o ids /\ crashed' = crashed
        /\ \A t \in Sessions \ {s} : found'[t] = found[t] /\ giving'[t] = giving[t]
    BY <1>4, FoundMoves
  <2>2. PICK p, rows, fs, se, fr : /\ p = Pipe(s) /\ rows = RowsLeft(s) /\ fs = FoldersLeft(s)
                                   /\ se = search[s] /\ fr = fresh[s]
    OBVIOUS
  <2>3. Pipe(s)' = p
    <3>1. Pipe(s)' = ((found'[s] \o giving'[s]) \o reply'[s].ids) \o matches'[s]
      BY DEF Pipe, InOrder
    <3>2. QED  BY <1>1, <2>1, <2>2, <3>1
  <2>4. /\ RowsLeft(s)' = rows /\ FoldersLeft(s)' = fs /\ search'[s] = se /\ fresh'[s] = fr
    BY <1>1, <2>2 DEF RowsLeft, FoldersLeft
  <2>5. ASSUME Given(s) PROVE Given(s)'
    <3>1. Sound(p, rows, fs, se, fr) /\ Whole(p, rows, fs, se, fr)
      BY <2>2, <2>5 DEF Given
    <3>2. outcome'[s] = "none"
      BY <1>1 DEF Gives, HandlerFits
    <3>3. outcome'[s] # "complete"
      BY <3>2
    <3>4. QED  BY <1>1, <2>3, <2>4, <3>1, <3>3, GivenAfter
  <2>6. Trusted(s)' => Given(s)'
    BY <1>1, <1>2, <2>5 DEF Trusted
  <2>7. QED  BY <1>1, <1>3, <2>1, <2>6, GivesOthers
<1>5. CASE ~told[s]
  <2>1. /\ crashed' = crashed \cup {s} /\ found' = found /\ giving' = giving
    BY <1>5 DEF MatchFound
  <2>2. Trusted(s)' => Given(s)'
    <3>1. ASSUME Given(s) PROVE Given(s)'
      BY <1>1, <2>1, <3>1, GivenStays
    <3>2. QED  BY <1>1, <1>2, <3>1 DEF Trusted
  <2>3. QED  BY <1>1, <1>3, <2>1, <2>2, GivesOthers
<1>6. QED  BY <1>4, <1>5

\* RunL of the client has matches.
LEMMA RunLMatchesGives ==
    ASSUME TypeOK, TypeOK', Gives, NEW s \in Sessions, RunLMatches(s)
    PROVE  Gives'
<1>1. /\ server = "running" /\ s \notin crashed /\ searching[s] = "yes" /\ giving[s] = <<>>
      /\ reply[s].ids # <<>> /\ MatchFound(s, reply[s].ids)
      /\ request' = [request EXCEPT ![s] = "posted"] /\ reply' = [reply EXCEPT ![s] = NoReply]
      /\ UNCHANGED <<world, serve, searching, told, ending, search, outcome, again, fresh, events>>
  BY DEF RunLMatches, Completed
<1>2. PICK ids : ids = reply[s].ids
  OBVIOUS
<1>3. ids \in Seq(Messages) /\ ids # <<>> /\ MatchFound(s, ids)
  BY <1>1, <1>2 DEF TypeOK
<1>4. /\ request'[s] = "posted" /\ reply'[s].ids = <<>> /\ OthersSame(s)
  BY <1>1 DEF TypeOK, NoReply, OthersSame, serve
<1>5. /\ handler' = handler /\ server' = server /\ searching' = searching /\ outcome' = outcome
      /\ search' = search /\ again' = again /\ matches' = matches
  BY <1>1 DEF serve
<1>6. /\ RowsLeft(s)' = RowsLeft(s) /\ FoldersLeft(s)' = FoldersLeft(s)
      /\ InProgress(s)' <=> InProgress(s)
  BY <1>5 DEF RowsLeft, FoldersLeft, InProgress
<1>7. PICK rows, fs : rows = RowsLeft(s) /\ fs = FoldersLeft(s)
  OBVIOUS
<1>8. HandlerFits(s)'
  BY <1>4, <1>5, <1>6, <1>7 DEF Gives, HandlerFits, Distinct
<1>9. ((found[s] \o ids) \o reply'[s].ids) \o matches[s] = Pipe(s)
  <2>1. found[s] \in Seq(Messages)
    BY DEF TypeOK
  <2>2. PICK some : some = found[s] \o ids /\ some \in Seq(Messages)
    BY <1>3, <2>1, BothLists
  <2>3. some \o <<>> = some
    BY <2>2, ConcatEmptySeq
  <2>4. found[s] \o giving[s] = found[s]
    BY <1>1, <2>1, ConcatEmptySeq
  <2>5. QED  BY <1>2, <1>4, <2>2, <2>3, <2>4 DEF Pipe, InOrder
<1>10. QED  BY <1>1, <1>3, <1>4, <1>8, <1>9, HandedOver

\* The client returned and is called with the next match.
LEMMA RunLNextMatchGives ==
    ASSUME TypeOK, TypeOK', Gives, NEW s \in Sessions, RunLNextMatch(s)
    PROVE  Gives'
<1>1. /\ server = "running" /\ s \notin crashed /\ searching[s] = "yes" /\ giving[s] # <<>>
      /\ MatchFound(s, giving[s])
      /\ UNCHANGED <<world, serve, wire, searching, told, ending, search, outcome, again, fresh, events>>
  BY DEF RunLNextMatch
<1>2. PICK ids : ids = giving[s]
  OBVIOUS
<1>3. ids \in Seq(Messages) /\ ids # <<>> /\ MatchFound(s, ids)
  BY <1>1, <1>2 DEF TypeOK
<1>4. /\ handler' = handler /\ server' = server /\ searching' = searching /\ outcome' = outcome
      /\ search' = search /\ again' = again /\ matches' = matches
      /\ request' = request /\ reply' = reply /\ OthersSame(s)
  BY <1>1 DEF serve, wire, OthersSame
<1>5. /\ RowsLeft(s)' = RowsLeft(s) /\ FoldersLeft(s)' = FoldersLeft(s)
      /\ InProgress(s)' <=> InProgress(s)
  BY <1>4 DEF RowsLeft, FoldersLeft, InProgress
<1>6. PICK rows, fs : rows = RowsLeft(s) /\ fs = FoldersLeft(s)
  OBVIOUS
<1>7. HandlerFits(s)'
  BY <1>4, <1>5, <1>6 DEF Gives, HandlerFits, Distinct
<1>8. ((found[s] \o ids) \o reply'[s].ids) \o matches[s] = Pipe(s)
  BY <1>2, <1>4 DEF Pipe, InOrder
<1>9. QED  BY <1>1, <1>3, <1>4, <1>7, <1>8, HandedOver

\* The client is told of the end.
LEMMA RunLCompletedGives ==
    ASSUME TypeOK, TypeOK', Gives, NEW s \in Sessions, RunLCompleted(s)
    PROVE  Gives'
<1>1. /\ server = "running" /\ s \notin crashed /\ searching[s] = "yes" /\ giving[s] = <<>>
      /\ request[s] = "completed" /\ (reply[s].error \/ reply[s].ids = <<>>)
      /\ request' = [request EXCEPT ![s] = "none"] /\ reply' = [reply EXCEPT ![s] = NoReply]
      /\ searching' = [searching EXCEPT ![s] = "no"]
      /\ outcome' = [outcome EXCEPT ![s] = IF reply[s].error THEN "error" ELSE "complete"]
      /\ UNCHANGED <<world, serve, told, giving, search, found, again, fresh, events>>
  BY DEF RunLCompleted, Completed
<1>2. /\ stored' = stored /\ meets' = meets /\ server' = server /\ search' = search
      /\ again' = again /\ fresh' = fresh /\ handler' = handler /\ results' = results
      /\ matches' = matches /\ found' = found /\ giving' = giving
  BY <1>1 DEF world, serve
<1>3. /\ request'[s] = "none" /\ reply'[s].ids = <<>> /\ searching'[s] = "no" /\ OthersSame(s)
      /\ outcome'[s] = "complete" => ~reply[s].error
      /\ \A t \in Sessions \ {s} : /\ searching'[t] = searching[t] /\ outcome'[t] = outcome[t]
                                   /\ t \in crashed' <=> t \in crashed
  <2>1. /\ request'[s] = "none" /\ reply'[s].ids = <<>> /\ searching'[s] = "no" /\ OthersSame(s)
        /\ \A t \in Sessions \ {s} : searching'[t] = searching[t] /\ outcome'[t] = outcome[t]
    BY <1>1, <1>2 DEF TypeOK, NoReply, OthersSame
  <2>2. outcome'[s] = IF reply[s].error THEN "error" ELSE "complete"
    BY <1>1 DEF TypeOK
  <2>3. \A t \in Sessions \ {s} : t \in crashed' <=> t \in crashed
    BY DEF RunLCompleted
  <2>4. QED  BY <2>1, <2>2, <2>3
<1>4. HandlerFits(s) /\ TableFits(s) /\ (Trusted(s) => Given(s))
  BY DEF Gives
<1>5. reply[s].ids = <<>>
  BY <1>1, <1>4 DEF HandlerFits
<1>6. /\ RowsLeft(s)' = RowsLeft(s) /\ FoldersLeft(s)' = FoldersLeft(s)
  BY <1>2 DEF RowsLeft, FoldersLeft
<1>7. PICK p, rows, fs, se, fr : /\ p = Pipe(s) /\ rows = RowsLeft(s) /\ fs = FoldersLeft(s)
                                 /\ se = search[s] /\ fr = fresh[s]
  OBVIOUS
<1>8. HandlerFits(s)'
  BY <1>1, <1>2, <1>3, <1>4, <1>6, <1>7 DEF HandlerFits, Distinct
<1>9. TableFits(s)'
  BY <1>2, <1>4 DEF TableFits
<1>10. Pipe(s)' = p
  BY <1>2, <1>3, <1>5, <1>7 DEF Pipe, InOrder
<1>11. ASSUME Given(s) PROVE Given(s)'
  <2>1. Sound(p, rows, fs, se, fr) /\ Whole(p, rows, fs, se, fr)
    BY <1>1, <1>7, <1>11 DEF Given
  <2>2. ASSUME outcome'[s] = "complete" PROVE Whole(found'[s], {}, <<>>, se, fr)
    <3>1. matches[s] = <<>> /\ rows = {} /\ fs = <<>>
      BY <1>1, <1>3, <1>4, <1>5, <1>7, <2>2 DEF HandlerFits
    <3>2. p = found'[s]
      <4>1. found[s] \in Seq(Messages)
        BY DEF TypeOK
      <4>2. found[s] \o <<>> = found[s]
        BY <4>1, ConcatEmptySeq
      <4>3. QED  BY <1>1, <1>2, <1>5, <1>7, <3>1, <4>2 DEF Pipe, InOrder
    <3>3. QED  BY <2>1, <3>1, <3>2
  <2>3. QED  BY <1>2, <1>3, <1>6, <1>7, <1>10, <2>1, <2>2, GivenAfter
<1>12. Trusted(s)' => Given(s)'
  BY <1>2, <1>4, <1>11 DEF Trusted
<1>13. QED  BY <1>1, <1>2, <1>3, <1>8, <1>9, <1>12, GivesOthers

\* Fewer matches on their way, and less to search, is still right.
LEMMA SoundLess ==
    ASSUME NEW f \in Seq(Messages), NEW r \in Seq(Messages), NEW rows, NEW fs, NEW se, NEW fr,
           Sound(f \o r, rows, fs, se, fr)
    PROVE  Sound(f, rows, fs, se, fr)
BY BothLists DEF Sound

\* The client cancels its search.
LEMMA CancelGives ==
    ASSUME TypeOK, TypeOK', Gives, NEW s \in Sessions, CancelSearch(s)
    PROVE  Gives'
<1>1. /\ server = "running" /\ s \notin crashed
      /\ matches' = [matches EXCEPT ![s] = <<>>]
      /\ handler' = [handler EXCEPT ![s] = IF @ = NoHandler THEN @ ELSE [@ EXCEPT !.active = FALSE]]
      /\ request' = [request EXCEPT ![s] = "none"] /\ reply' = [reply EXCEPT ![s] = NoReply]
      /\ searching' = [searching EXCEPT ![s] = "no"]
      /\ giving' = [giving EXCEPT ![s] = <<>>] /\ outcome' = [outcome EXCEPT ![s] = "cancelled"]
      /\ UNCHANGED <<world, server, results, ending, crashed, search, found, again, fresh, events>>
  BY DEF CancelSearch, Calls, Served
<1>2. /\ stored' = stored /\ meets' = meets /\ server' = server /\ search' = search
      /\ again' = again /\ fresh' = fresh /\ results' = results /\ found' = found
      /\ crashed' = crashed
  BY <1>1 DEF world
<1>3. /\ request'[s] = "none" /\ reply'[s].ids = <<>> /\ searching'[s] = "no"
      /\ giving'[s] = <<>> /\ matches'[s] = <<>> /\ outcome'[s] = "cancelled" /\ OthersSame(s)
      /\ \A t \in Sessions \ {s} : /\ searching'[t] = searching[t] /\ outcome'[t] = outcome[t]
                                   /\ giving'[t] = giving[t] /\ handler'[t] = handler[t]
  BY <1>1 DEF TypeOK, NoReply, OthersSame
<1>4. HandlerFits(s) /\ TableFits(s) /\ (Trusted(s) => Given(s))
  BY DEF Gives
<1>5. /\ handler[s] = NoHandler => handler'[s] = NoHandler
      /\ handler[s] # NoHandler =>
             /\ handler'[s] # NoHandler
             /\ handler'[s].criteria = handler[s].criteria /\ handler'[s].new = handler[s].new
             /\ handler'[s].rows = handler[s].rows /\ handler'[s].folders = handler[s].folders
  <2>1. handler'[s] = IF handler[s] = NoHandler THEN NoHandler ELSE [handler[s] EXCEPT !.active = FALSE]
    BY <1>1 DEF TypeOK
  <2>2. CASE handler[s] = NoHandler
    BY <2>1, <2>2
  <2>3. CASE handler[s] # NoHandler
    <3>1. handler[s] \in Handlers
      BY <2>3 DEF TypeOK
    <3>2. handler'[s] \in Handlers
      BY <2>1, <2>3, <3>1 DEF Handlers
    <3>3. handler'[s] # NoHandler
      BY <3>2, NoHandlerType
    <3>4. QED  BY <2>1, <2>3, <3>1, <3>3 DEF Handlers
  <2>4. QED  BY <2>2, <2>3
<1>6. /\ RowsLeft(s)' = RowsLeft(s) /\ FoldersLeft(s)' = FoldersLeft(s)
  BY <1>5 DEF RowsLeft, FoldersLeft
<1>7. PICK rows, fs, se, fr : /\ rows = RowsLeft(s) /\ fs = FoldersLeft(s)
                              /\ se = search[s] /\ fr = fresh[s]
  OBVIOUS
<1>8. HandlerFits(s)'
  BY <1>1, <1>2, <1>3, <1>4, <1>5, <1>6, <1>7 DEF HandlerFits, Distinct
<1>9. TableFits(s)'
  BY <1>2, <1>4, <1>5 DEF TableFits
<1>10. PICK f, g, r, ms : f = found[s] /\ g = giving[s] /\ r = reply[s].ids /\ ms = matches[s]
  OBVIOUS
<1>11. f \in Seq(Messages) /\ g \in Seq(Messages) /\ r \in Seq(Messages) /\ ms \in Seq(Messages)
  BY <1>10 DEF TypeOK
<1>12. PICK rest \in Seq(Messages) : InOrder(f, g, r, ms) = f \o rest
  BY <1>11, FourLists
<1>13. Pipe(s)' = f
  <2>1. f \o <<>> = f
    BY <1>11, ConcatEmptySeq
  <2>2. QED  BY <1>2, <1>3, <1>10, <2>1 DEF Pipe, InOrder
<1>14. ASSUME Given(s) PROVE Given(s)'
  <2>1. Sound(InOrder(f, g, r, ms), rows, fs, se, fr)
    BY <1>1, <1>7, <1>10, <1>14 DEF Given, Pipe
  <2>2. Sound(f \o rest, rows, fs, se, fr)
    BY <1>12, <2>1
  <2>3. Sound(f, rows, fs, se, fr)
    BY <1>11, <2>2, SoundLess
  <2>4. searching'[s] = "no" /\ outcome'[s] # "complete"
    BY <1>3
  <2>5. QED  BY <1>2, <1>6, <1>7, <1>13, <2>3, <2>4, GivenAfter
<1>15. Trusted(s)' => Given(s)'
  BY <1>2, <1>4, <1>14 DEF Trusted
<1>16. QED  BY <1>1, <1>2, <1>3, <1>8, <1>9, <1>15, GivesOthers

\* The results of the search are cleared, and the handler with them.
LEMMA ClearGives ==
    ASSUME TypeOK, TypeOK', Quiet, Gives, NEW s \in Sessions, ClearSearchResultCache(s)
    PROVE  Gives'
<1>1. /\ server = "running" /\ s \notin crashed /\ searching[s] = "no"
      /\ handler' = [handler EXCEPT ![s] = NoHandler] /\ results' = {}
      /\ UNCHANGED <<world, server, matches, wire, client, ghost, events>>
  BY DEF ClearSearchResultCache, Calls, Served
<1>2. /\ stored' = stored /\ meets' = meets /\ server' = server /\ search' = search
      /\ again' = again /\ fresh' = fresh /\ found' = found /\ giving' = giving
      /\ crashed' = crashed /\ request' = request /\ reply' = reply /\ matches' = matches
      /\ searching' = searching /\ outcome' = outcome
  BY <1>1 DEF world, wire, client, ghost
<1>3. /\ OthersSame(s) /\ handler'[s] = NoHandler /\ request[s] = "none"
      /\ \A t \in Sessions \ {s} : handler'[t] = handler[t]
  BY <1>1, <1>2 DEF OthersSame, TypeOK, Quiet
<1>4. HandlerFits(s) /\ TableFits(s) /\ (Trusted(s) => Given(s))
  BY DEF Gives
<1>5. RowsLeft(s)' = {} /\ FoldersLeft(s)' = <<>>
  BY <1>3 DEF RowsLeft, FoldersLeft
<1>6. Distinct(<<>>) /\ RangeOf(<<>>) = {}
  <2>1. Len(<<>>) = 0
    OBVIOUS
  <2>2. QED  BY <2>1 DEF Distinct, RangeOf
<1>7. HandlerFits(s)'
  <2>1. PICK fs : fs = FoldersLeft(s)'
    OBVIOUS
  <2>2. Distinct(fs) /\ RangeOf(fs) = {}
    BY <1>5, <1>6, <2>1
  <2>3. (Distinct(FoldersLeft(s)) /\ RangeOf(FoldersLeft(s)) = {})'
    BY <2>1, <2>2 DEF Distinct, RangeOf
  <2>4. QED  BY <1>1, <1>2, <1>3, <1>4, <1>5, <2>3 DEF HandlerFits
<1>8. TableFits(s)'
  BY <1>3 DEF TableFits
<1>9. PICK p, rows, fs, se, fr : /\ p = Pipe(s) /\ rows = RowsLeft(s) /\ fs = FoldersLeft(s)
                                 /\ se = search[s] /\ fr = fresh[s]
  OBVIOUS
<1>10. ASSUME Given(s) PROVE Given(s)'
  <2>1. Sound(p, rows, fs, se, fr)
    BY <1>1, <1>9, <1>10 DEF Given
  <2>2. Sound(p, {}, <<>>, se, fr)
    BY <1>6, <2>1 DEF Sound, Left
  <2>3. Pipe(s)' = p
    BY <1>2, <1>9 DEF Pipe
  <2>4. GivenMatches(s)'
    BY <1>2, <1>10, GivenMatchesStays DEF Given
  <2>5. QED  BY <1>1, <1>2, <1>5, <1>9, <2>2, <2>3, <2>4, GivenAfter
<1>11. Trusted(s)' => Given(s)'
  BY <1>2, <1>4, <1>10 DEF Trusted
<1>12. QED  BY <1>1, <1>2, <1>3, <1>7, <1>8, <1>11, GivesOthers

\* A step that changes none of it.
LEMMA GivesSame ==
    ASSUME Gives, stored' = stored, meets' = meets,
           UNCHANGED <<serve, wire, searching, giving, crashed, ghost>>
    PROVE  Gives'
<1>1. /\ stored' = stored /\ meets' = meets /\ server' = server /\ searching' = searching
      /\ giving' = giving /\ crashed' = crashed /\ search' = search /\ found' = found
      /\ outcome' = outcome /\ again' = again /\ fresh' = fresh /\ handler' = handler
      /\ results' = results /\ matches' = matches /\ request' = request /\ reply' = reply
  BY DEF serve, wire, ghost
<1>2. ASSUME NEW s \in Sessions
      PROVE  HandlerFits(s)' /\ TableFits(s)' /\ (Trusted(s)' => Given(s)')
  <2>1. HandlerFits(s) /\ TableFits(s) /\ (Trusted(s) => Given(s))
    BY DEF Gives
  <2>2. HandlerFits(s)'
    BY <1>1, <2>1 DEF HandlerFits, InProgress, RowsLeft, FoldersLeft, Distinct
  <2>3. TableFits(s)'
    BY <1>1, <2>1 DEF TableFits
  <2>4. ASSUME Given(s) PROVE Given(s)'
    <3>1. CASE server' # "running" \/ s \in crashed'
      BY <1>1, <2>4, <3>1, GivenStays
    <3>2. CASE ~(server' # "running" \/ s \in crashed')
      BY <1>1, <2>4, <3>2, GivenStays
    <3>3. QED  BY <3>1, <3>2
  <2>5. QED  BY <1>1, <2>1, <2>2, <2>3, <2>4 DEF Trusted
<1>3. QED  BY <1>2 DEF Gives

\* A lock.
LEMMA UnavailableGives ==
    ASSUME TypeOK, Gives, StoreUnavailable
    PROVE  Gives'
<1>1. /\ server' = server /\ request' = request /\ reply' = reply /\ searching' = searching
      /\ search' = search /\ found' = found /\ outcome' = outcome /\ again' = again
      /\ \A s \in Sessions : handler'[s] = NoHandler /\ matches'[s] = <<>> /\ fresh'[s] = {}
  BY DEF StoreUnavailable, Nothing, wire, client
<1>2. Distinct(<<>>) /\ RangeOf(<<>>) = {}
  <2>1. Len(<<>>) = 0
    OBVIOUS
  <2>2. QED  BY <2>1 DEF Distinct, RangeOf
<1>3. ASSUME NEW s \in Sessions
      PROVE  HandlerFits(s)' /\ TableFits(s)' /\ (Trusted(s)' => Given(s)')
  <2>1. RowsLeft(s)' = {} /\ FoldersLeft(s)' = <<>>
    BY <1>1 DEF RowsLeft, FoldersLeft
  <2>2. HandlerFits(s)'
    <3>1. PICK fs : fs = FoldersLeft(s)'
      OBVIOUS
    <3>2. Distinct(fs) /\ RangeOf(fs) = {}
      BY <1>2, <2>1, <3>1
    <3>3. Distinct(FoldersLeft(s))'
      BY <3>1, <3>2 DEF Distinct
    <3>4. RangeOf(FoldersLeft(s))' = {}
      BY <3>1, <3>2 DEF RangeOf
    <3>5. QED  BY <1>1, <2>1, <3>3, <3>4 DEF Gives, HandlerFits
  <2>3. TableFits(s)'
    BY <1>1 DEF TableFits
  <2>4. Given(s)'
    BY <1>1 DEF Given, GivenMatches, Sound, Whole
  <2>5. QED  BY <2>2, <2>3, <2>4
<1>4. QED  BY <1>3 DEF Gives

\* Another client changes a message, which the searches are not sure of any more.
LEMMA ChangedGives ==
    ASSUME TypeOK, Gives, NEW m \in Messages, MessageChanged(m)
    PROVE  Gives'
<1>1. /\ server' = server /\ request' = request /\ reply' = reply /\ searching' = searching
      /\ search' = search /\ found' = found /\ outcome' = outcome /\ again' = again
      /\ handler' = handler /\ results' = results /\ matches' = matches
      /\ giving' = giving /\ crashed' = crashed
      /\ fresh' = [s \in Sessions |-> fresh[s] \ {m}]
  BY DEF MessageChanged, serve, wire, client
<1>2. \A x : x # m => /\ x \in stored' <=> x \in stored
                      /\ x \in Messages => meets'[x] = meets[x]
  BY DEF MessageChanged, TypeOK
<1>3. ASSUME NEW s \in Sessions
      PROVE  HandlerFits(s)' /\ TableFits(s)' /\ (Trusted(s)' => Given(s)')
  <2>1. HandlerFits(s) /\ TableFits(s) /\ (Trusted(s) => Given(s))
    BY DEF Gives
  <2>2. fresh'[s] = fresh[s] \ {m} /\ fresh[s] \subseteq Messages
    BY <1>1 DEF TypeOK
  <2>3. /\ RowsLeft(s)' = RowsLeft(s) /\ FoldersLeft(s)' = FoldersLeft(s)
        /\ Pipe(s)' = Pipe(s) /\ (InProgress(s)' <=> InProgress(s))
    BY <1>1 DEF RowsLeft, FoldersLeft, Pipe, InProgress
  <2>4. PICK p, rows, fs, se, fr, less : /\ p = Pipe(s) /\ rows = RowsLeft(s) /\ fs = FoldersLeft(s)
                                         /\ se = search[s] /\ fr = fresh[s] /\ less = fresh'[s]
    OBVIOUS
  <2>5. less = fr \ {m} /\ fr \subseteq Messages
    BY <2>2, <2>4
  <2>6. ASSUME NEW x \in less PROVE x \in fr /\ (Wants(se, x)' <=> Wants(se, x)) /\ (x \in stored' <=> x \in stored)
    BY <1>2, <2>5, <2>6 DEF Wants
  <2>7. HandlerFits(s)'
    BY <1>1, <2>1, <2>3, <2>4 DEF HandlerFits, Distinct
  <2>8. TableFits(s)'
    <3>1. ASSUME Sessions = {s}, handler[s] # NoHandler, NEW row \in results, row.id \in less
          PROVE  row.match <=> handler[s].criteria \in meets'[row.id]
      <4>1. meets'[row.id] = meets[row.id] /\ row.id \in fr
        BY <1>2, <2>5, <3>1
      <4>2. QED  BY <2>1, <2>4, <3>1, <4>1 DEF TableFits
    <3>2. QED  BY <1>1, <2>4, <3>1 DEF TableFits
  <2>9. ASSUME Given(s) PROVE Given(s)'
    <3>1. GivenMatches(s)'
      <4>1. \A x \in less : x \in Wanted(s)' <=> x \in Wanted(s)
        BY <1>1, <1>2, <2>5 DEF Wanted
      <4>2. QED  BY <1>1, <2>4, <2>5, <2>9, <4>1 DEF Given, GivenMatches
    <3>2. ASSUME server = "running", s \notin crashed
          PROVE  /\ Sound(p, rows, fs, se, less)'
                 /\ searching[s] # "no" => Whole(p, rows, fs, se, less)'
      <4>1. /\ Sound(p, rows, fs, se, fr)
            /\ searching[s] # "no" => Whole(p, rows, fs, se, fr)
        BY <2>4, <2>9, <3>2 DEF Given
      <4>2. Sound(p, rows, fs, se, less)'
        BY <2>6, <4>1 DEF Sound, Left
      <4>3. searching[s] # "no" => Whole(p, rows, fs, se, less)'
        BY <2>6, <4>1 DEF Whole, Left
      <4>4. QED  BY <4>2, <4>3
    <3>3. QED  BY <1>1, <2>3, <2>4, <3>1, <3>2 DEF Given
  <2>10. QED  BY <1>1, <2>1, <2>7, <2>8, <2>9 DEF Trusted
<1>4. QED  BY <1>3 DEF Gives

\* Every step keeps it, when no list of folders names one twice.
LEMMA GivesStep ==
    ASSUME \A l \in FolderLists : Distinct(l),
           TypeOK, TypeOK', Quiet, EachSearches, Gives, [Next]_vars
    PROVE  Gives'
<1>1. ASSUME NEW s \in Sessions, RunL(s) PROVE Gives'
  BY <1>1, RunLGives
<1>2. ASSUME NEW s \in Sessions, GetMatches(s) PROVE Gives'
  BY <1>2, GetMatchesGives
<1>3. ASSUME NEW s \in Sessions, NEW c \in Criteria, NEW l \in FolderLists, Search(s, c, l)
      PROVE  Gives'
  BY <1>3, SearchGives
<1>4. ASSUME NEW s \in Sessions, ClientRunL(s) PROVE Gives'
  <2>1. CASE AskForMatches(s)
    BY <2>1, AskGives
  <2>2. CASE RunLMatches(s)
    BY <2>2, RunLMatchesGives
  <2>3. CASE RunLNextMatch(s)
    BY <2>3, RunLNextMatchGives
  <2>4. CASE RunLCompleted(s)
    BY <2>4, RunLCompletedGives
  <2>5. CASE SearchCompleted(s)
    BY <2>5, GivesSame DEF SearchCompleted, world
  <2>6. QED  BY <1>4, <2>1, <2>2, <2>3, <2>4, <2>5 DEF ClientRunL
<1>5. ASSUME NEW s \in Sessions, CancelSearch(s) PROVE Gives'
  BY <1>5, CancelGives
<1>6. ASSUME NEW s \in Sessions, ClearSearchResultCache(s) PROVE Gives'
  BY <1>6, ClearGives
<1>7. CASE StoreUnavailable
  BY <1>7, UnavailableGives
<1>8. CASE StoreAvailable
  <2>1. /\ stored' = stored /\ meets' = meets /\ UNCHANGED <<serve, wire, client, ghost, events>>
    BY <1>8 DEF StoreAvailable
  <2>2. QED  BY <2>1, GivesSame DEF client
<1>9. ASSUME NEW m \in Messages, MessageChanged(m) PROVE Gives'
  BY <1>9, ChangedGives
<1>10. CASE UNCHANGED vars
  BY <1>10, GivesSame DEF vars, world, client
<1>11. QED
  BY <1>1, <1>2, <1>3, <1>4, <1>5, <1>6, <1>7, <1>8, <1>9, <1>10 DEF Next

\* Initially nothing is searched for.
LEMMA GivesInit == Init => Gives /\ EachSearches
<1> SUFFICES ASSUME Init PROVE Gives /\ EachSearches
  OBVIOUS
<1>1. EachSearches
  BY DEF Init, EachSearches
<1>2. Distinct(<<>>) /\ RangeOf(<<>>) = {}
  <2>1. Len(<<>>) = 0
    OBVIOUS
  <2>2. QED  BY <2>1 DEF Distinct, RangeOf
<1>3. ASSUME NEW s \in Sessions
      PROVE  /\ handler[s] = NoHandler /\ request[s] = "none" /\ reply[s].ids = <<>>
             /\ searching[s] = "no" /\ fresh[s] = {}
  BY DEF Init, NoReply, Nothing
<1>4. ASSUME NEW s \in Sessions PROVE HandlerFits(s) /\ TableFits(s) /\ Given(s)
  <2>1. RowsLeft(s) = {} /\ FoldersLeft(s) = <<>>
    BY <1>3 DEF RowsLeft, FoldersLeft
  <2>2. HandlerFits(s)
    BY <1>2, <1>3, <2>1 DEF HandlerFits
  <2>3. TableFits(s) /\ Given(s)
    BY <1>3 DEF TableFits, Given, GivenMatches, Sound, Whole
  <2>4. QED  BY <2>2, <2>3
<1>5. QED  BY <1>1, <1>4 DEF Gives

\* A client is given matching messages only, and none twice, in a first search and in one
\* that is repeated with the results of an earlier, perhaps cancelled one, however the
\* matches are cut into batches and whatever is locked, cancelled and changed meanwhile; and
\* when it is told that the search is complete it was given all that match.  The lists of
\* folders must not name one twice: SortNextFolderL takes each folder of the list as it
\* comes, and finds the messages of one that comes again once more.
THEOREM GivesEachMatch ==
    (\A l \in FolderLists : \A i, j \in 1..Len(l) : l[i] = l[j] => i = j)
        => (Spec => []GivesMatches)
<1> SUFFICES ASSUME \A l \in FolderLists : Distinct(l) PROVE Spec => []GivesMatches
  BY DEF Distinct
<1>1. Init => Quiet /\ EachSearches /\ Gives
  BY GivesInit DEF Init, Quiet
<1>2. TypeOK /\ Quiet /\ [Next]_vars => Quiet'
  BY QuietStep
<1>3. TypeOK /\ EachSearches /\ [Next]_vars => EachSearches'
  BY SearchesStep
<1>4. TypeOK /\ TypeOK' /\ Quiet /\ EachSearches /\ Gives /\ [Next]_vars => Gives'
  BY GivesStep
<1>5. Gives => GivesMatches
  BY DEF Gives, Trusted, Given, GivesMatches
<1>6. QED  BY <1>1, <1>2, <1>3, <1>4, <1>5, TypeCorrect, PTL DEF Spec
=============================================================================
