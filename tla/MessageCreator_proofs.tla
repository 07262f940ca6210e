------------------------ MODULE MessageCreator_proofs ------------------------
(***************************************************************************)
(* Theorems about how messages get into the store, for any numbers of       *)
(* sessions, messages, writes and faults.                                   *)
(***************************************************************************)
EXTENDS MessageCreator, SequenceTheorems, TLAPS

Creators == [inProgress : BOOLEAN, batch : BOOLEAN,
             containers : Seq(Containers), ids : Seq(Ids)]

-----------------------------------------------------------------------------
(* Sequences of ids.                                                          *)

\* A function on the first numbers is a sequence.
LEMMA ListIs ==
    ASSUME NEW n \in Nat, NEW S, NEW f, f = [i \in 1..n |-> f[i]], \A i \in 1..n : f[i] \in S
    PROVE  f \in Seq(S) /\ Len(f) = n
  OBVIOUS

\* The ids of containers.
LEMMA IdsOfIs ==
    ASSUME NEW cs \in Seq(Containers)
    PROVE  /\ IdsOf(cs) \in Seq(Ids) /\ Len(IdsOf(cs)) = Len(cs)
           /\ \A i \in 1..Len(cs) : IdsOf(cs)[i] = cs[i].id /\ cs[i].id \in Ids
<1>1. \A i \in 1..Len(cs) : cs[i] \in Containers
  BY ElementOfSeq
<1>2. \A i \in 1..Len(cs) : cs[i].id \in Ids
  BY <1>1 DEF Containers
<1>3. Len(cs) \in Nat
  BY LenProperties
<1>4. IdsOf(cs) \in Seq(Ids) /\ Len(IdsOf(cs)) = Len(cs)
  BY <1>2, <1>3, ListIs DEF IdsOf
<1>5. QED  BY <1>2, <1>4 DEF IdsOf

\* The ids of one block.
LEMMA BlockIs ==
    ASSUME NEW n \in Nat \ {0}, n + Block - 1 <= MaxId
    PROVE  LET b == [i \in 1..Block |-> n + i - 1]
           IN /\ b \in Seq(Ids) /\ Len(b) = Block
              /\ \A i \in 1..Block : b[i] = n + i - 1
<1> DEFINE b == [i \in 1..Block |-> n + i - 1]
<1>1. Block \in Nat \ {0} /\ MaxId \in Nat
  BY SizesType
<1>2. \A i \in 1..Block : b[i] = n + i - 1 /\ n + i - 1 \in Ids
  BY <1>1 DEF Ids
<1>3. b = [i \in 1..Block |-> b[i]]
  OBVIOUS
<1> HIDE DEF b
<1>4. QED  BY <1>1, <1>2, <1>3, ListIs DEF b

\* Two lists, one after the other.
LEMMA Joined ==
    ASSUME NEW S, NEW s \in Seq(S), NEW t \in Seq(S)
    PROVE  /\ s \o t \in Seq(S) /\ Len(s \o t) = Len(s) + Len(t)
           /\ \A i \in 1..Len(s) : i \in 1..Len(s \o t) /\ (s \o t)[i] = s[i]
           /\ \A i \in 1..Len(t) : Len(s) + i \in 1..Len(s \o t) /\ (s \o t)[Len(s) + i] = t[i]
           /\ \A i \in 1..Len(s \o t) : \/ i \in 1..Len(s)
                                        \/ \E j \in 1..Len(t) : i = Len(s) + j
<1>1. PICK m, n : m = Len(s) /\ n = Len(t) /\ m \in Nat /\ n \in Nat
  BY LenProperties
<1>2. PICK u : u = s \o t
  OBVIOUS
<1>3. /\ u \in Seq(S) /\ Len(u) = m + n
      /\ \A i \in 1..(m + n) : u[i] = IF i <= m THEN s[i] ELSE t[i - m]
  BY <1>1, <1>2, ConcatProperties
<1>4. \A i \in 1..m : i \in 1..(m + n) /\ u[i] = s[i]
  BY <1>1, <1>3
<1>5. ASSUME NEW i \in 1..n PROVE m + i \in 1..(m + n) /\ u[m + i] = t[i]
  <2>1. PICK k : k = m + i
    OBVIOUS
  <2>2. k \in 1..(m + n) /\ ~(k <= m) /\ k - m = i
    BY <1>1, <2>1
  <2>3. u[k] = t[k - m]
    BY <1>3, <2>2
  <2>4. QED  BY <2>1, <2>2, <2>3
<1>6. ASSUME NEW i \in 1..(m + n), i \notin 1..m PROVE \E j \in 1..n : i = m + j
  <2>1. i - m \in 1..n /\ i = m + (i - m)
    BY <1>1, <1>6
  <2>2. QED  BY <2>1
<1>7. QED  BY <1>1, <1>2, <1>3, <1>4, <1>5, <1>6

\* The first id goes to the new container: which ids are held stays the same.
LEMMA FirstGoes ==
    ASSUME NEW cs \in Seq(Containers), NEW ids \in Seq(Ids), ids # <<>>,
           NEW c \in Containers, c.id = ids[1]
    PROVE  /\ IdsOf(Append(cs, c)) \o Tail(ids) = IdsOf(cs) \o ids
           /\ Tail(ids) \in Seq(Ids) /\ Append(cs, c) \in Seq(Containers)
<1> DEFINE new == Append(cs, c)
<1>1. /\ new \in Seq(Containers) /\ Len(new) = Len(cs) + 1 /\ new[Len(cs) + 1] = c
      /\ \A i \in 1..Len(cs) : new[i] = cs[i]
  BY AppendProperties
<1>2. Tail(ids) \in Seq(Ids) /\ c.id \in Ids /\ Len(ids) \in Nat /\ Len(cs) \in Nat
  BY HeadTailProperties, LenProperties DEF Containers
<1>3. IdsOf(cs) \in Seq(Ids) /\ Len(IdsOf(cs)) = Len(cs)
  BY IdsOfIs
<1>4. IdsOf(new) = Append(IdsOf(cs), c.id)
  <2>1. /\ IdsOf(new) \in Seq(Ids) /\ Len(IdsOf(new)) = Len(cs) + 1
        /\ \A i \in 1..(Len(cs) + 1) : IdsOf(new)[i] = new[i].id
    <3> HIDE DEF new
    <3>1. QED  BY <1>1, IdsOfIs
  <2>2. \A i \in 1..Len(cs) : IdsOf(cs)[i] = cs[i].id
    BY IdsOfIs
  <2> DEFINE app == Append(IdsOf(cs), c.id)
  <2>3. /\ app \in Seq(Ids) /\ Len(app) = Len(cs) + 1 /\ app[Len(cs) + 1] = c.id
        /\ \A i \in 1..Len(cs) : app[i] = IdsOf(cs)[i]
    BY <1>2, <1>3, AppendProperties
  <2> HIDE DEF app, new
  <2>4. \A i \in 1..(Len(cs) + 1) : i \in 1..Len(cs) \/ i = Len(cs) + 1
    BY <1>2
  <2>5. \A i \in 1..(Len(cs) + 1) : IdsOf(new)[i] = app[i]
    BY <1>1, <2>1, <2>2, <2>3, <2>4
  <2>6. IdsOf(new) = app
    BY <2>1, <2>3, <2>5, SeqEqual
  <2>7. QED  BY <2>6 DEF app
<1>5. ids = <<c.id>> \o Tail(ids)
  <2>1. 1 \in 1..(Len(ids) + 1) /\ Len(ids) \in 1..Len(ids)
    BY <1>2, EmptySeq
  <2>2. ids = SubSeq(ids, 1, Len(ids))
    BY SubSeqFull
  <2>3. SubSeq(ids, 1, Len(ids)) = <<ids[1]>> \o SubSeq(ids, 1 + 1, Len(ids))
    BY <2>1, SubSeqRecursiveFirst
  <2>4. Tail(ids) = SubSeq(ids, 2, Len(ids))
    BY TailIsSubSeq
  <2>5. QED  BY <2>2, <2>3, <2>4
<1>6. IdsOf(new) = IdsOf(cs) \o <<c.id>>
  BY <1>2, <1>3, <1>4, AppendIsConcat
<1>7. (IdsOf(cs) \o <<c.id>>) \o Tail(ids) = IdsOf(cs) \o (<<c.id>> \o Tail(ids))
  <2>1. <<c.id>> \in Seq(Ids)
    BY <1>2
  <2>2. QED  BY <1>2, <1>3, <2>1, ConcatAssociative
<1>8. QED  BY <1>1, <1>2, <1>5, <1>6, <1>7

\* What a session that does not commit holds.
LEMMA HeldIs ==
    ASSUME TypeOK, NEW s \in Sessions, s # committer
    PROVE  /\ Held(s) \in Seq(Ids)
           /\ Len(Held(s)) = Len(creator[s].containers) + Len(creator[s].ids)
           /\ \A i \in 1..Len(creator[s].containers) :
                 i \in 1..Len(Held(s)) /\ Held(s)[i] = creator[s].containers[i].id
           /\ \A i \in 1..Len(creator[s].ids) :
                 /\ Len(creator[s].containers) + i \in 1..Len(Held(s))
                 /\ Held(s)[Len(creator[s].containers) + i] = creator[s].ids[i]
<1>1. PICK cs, ids : cs = creator[s].containers /\ ids = creator[s].ids
  OBVIOUS
<1>2. cs \in Seq(Containers) /\ ids \in Seq(Ids)
  BY <1>1 DEF TypeOK
<1>3. /\ IdsOf(cs) \in Seq(Ids) /\ Len(IdsOf(cs)) = Len(cs)
      /\ \A i \in 1..Len(cs) : IdsOf(cs)[i] = cs[i].id
      /\ Len(cs) \in Nat /\ Len(ids) \in Nat
  BY <1>2, IdsOfIs, LenProperties
<1>4. PICK l : l = IdsOf(cs)
  OBVIOUS
<1>5. /\ l \in Seq(Ids) /\ Len(l) = Len(cs) /\ Len(cs) \in Nat /\ Len(ids) \in Nat
      /\ \A i \in 1..Len(cs) : l[i] = cs[i].id
  BY <1>3, <1>4
<1>6. PICK h : h = l \o ids
  OBVIOUS
<1>7. /\ h \in Seq(Ids) /\ Len(h) = Len(cs) + Len(ids)
      /\ \A i \in 1..Len(cs) : i \in 1..Len(h) /\ h[i] = l[i]
      /\ \A i \in 1..Len(ids) : Len(cs) + i \in 1..Len(h) /\ h[Len(cs) + i] = ids[i]
  <2>1. l \in Seq(Ids) /\ ids \in Seq(Ids)
    BY <1>2, <1>5
  <2>2. /\ h \in Seq(Ids) /\ Len(h) = Len(l) + Len(ids)
        /\ \A i \in 1..Len(l) : i \in 1..Len(h) /\ h[i] = l[i]
        /\ \A i \in 1..Len(ids) : Len(l) + i \in 1..Len(h) /\ h[Len(l) + i] = ids[i]
    BY <2>1, <1>6, Joined
  <2>3. QED  BY <2>2, <1>5
<1>8. Held(s) = h
  BY <1>1, <1>4, <1>6 DEF Held
<1>9. /\ h \in Seq(Ids) /\ Len(h) = Len(cs) + Len(ids)
      /\ \A i \in 1..Len(cs) : i \in 1..Len(h) /\ h[i] = cs[i].id
      /\ \A i \in 1..Len(ids) : Len(cs) + i \in 1..Len(h) /\ h[Len(cs) + i] = ids[i]
  BY <1>5, <1>7
<1>10. QED  BY <1>1, <1>8, <1>9

-----------------------------------------------------------------------------
(* The types.                                                                 *)

\* The creator of a session that holds nothing.
LEMMA IdleIs ==
    /\ Idle \in Creators /\ [Idle EXCEPT !.batch = TRUE] \in Creators
    /\ Idle.containers = <<>> /\ Idle.ids = <<>> /\ ~Idle.inProgress
    /\ [Idle EXCEPT !.batch = TRUE].containers = <<>> /\ [Idle EXCEPT !.batch = TRUE].ids = <<>>
    /\ ~[Idle EXCEPT !.batch = TRUE].inProgress
<1>1. <<>> \in Seq(Containers) /\ <<>> \in Seq(Ids)
  BY EmptySeq
<1>2. QED  BY <1>1 DEF Idle, Creators

\* What AddRequestL makes of a creator.
LEMMA AddedTo ==
    ASSUME TypeOK, NEW s \in Sessions, NEW c \in Creators, c.inProgress,
           NEW ids \in Seq(Ids), ids # <<>>, NEW kind \in Kinds, NEW parent \in Ids \cup Folders,
           AddRequestL(s, c, ids, kind, parent)
    PROVE  \E d \in Creators :
              /\ creator' = [creator EXCEPT ![s] = d]
              /\ d.inProgress /\ d.containers # <<>>
              /\ d.batch = c.batch /\ d.ids = Tail(ids)
              /\ IdsOf(d.containers) \o d.ids = IdsOf(c.containers) \o ids
              /\ \A r \in RangeOf(d.containers) : r \in RangeOf(c.containers) \/ r.id = ids[1]
<1> DEFINE new == [id |-> ids[1], kind |-> kind, parent |-> parent]
<1>1. /\ ids[1] \in Ids
      /\ c.containers \in Seq(Containers) /\ c.ids \in Seq(Ids)
  <2>1. Len(ids) \in Nat \ {0} /\ 1 \in 1..Len(ids)
    BY EmptySeq, LenProperties
  <2>2. ids[1] \in Ids
    BY <2>1, ElementOfSeq
  <2>3. QED  BY <2>2 DEF Creators
<1>2. new \in Containers /\ new.id = ids[1]
  BY <1>1 DEF Containers
<1> HIDE DEF new
<1>3. PICK cs : cs = c.containers
  OBVIOUS
<1>4. cs \in Seq(Containers)
  BY <1>1, <1>3
<1>5. PICK more : more = Append(cs, new)
  OBVIOUS
<1>6. /\ IdsOf(more) \o Tail(ids) = IdsOf(cs) \o ids
      /\ Tail(ids) \in Seq(Ids) /\ more \in Seq(Containers)
  BY <1>2, <1>4, <1>5, FirstGoes
<1>7. /\ Len(more) = Len(cs) + 1 /\ more[Len(cs) + 1] = new /\ Len(cs) \in Nat
      /\ \A i \in 1..Len(cs) : more[i] = cs[i]
  BY <1>2, <1>4, <1>5, AppendProperties, LenProperties
<1>8. more # <<>>
  BY <1>6, <1>7, EmptySeq
<1>9. PICK tail : tail = Tail(ids) /\ tail \in Seq(Ids)
  BY <1>6
<1>10. PICK d : d = [c EXCEPT !.ids = tail, !.containers = more]
  OBVIOUS
<1>11. d \in Creators /\ d.inProgress = c.inProgress /\ d.batch = c.batch
       /\ d.ids = tail /\ d.containers = more
  BY <1>6, <1>9, <1>10 DEF Creators
<1>12. creator' = [creator EXCEPT ![s] = d]
  BY <1>3, <1>5, <1>9, <1>10 DEF AddRequestL, new
<1>13. \A r \in RangeOf(more) : r \in RangeOf(cs) \/ r.id = ids[1]
  <2>1. ASSUME NEW i \in 1..Len(more) PROVE more[i] \in RangeOf(cs) \/ more[i].id = ids[1]
    <3>1. i \in 1..Len(cs) \/ i = Len(cs) + 1
      BY <1>7
    <3>2. CASE i \in 1..Len(cs)
      BY <1>7, <3>2 DEF RangeOf
    <3>3. CASE i = Len(cs) + 1
      BY <1>2, <1>7, <3>3
    <3>4. QED  BY <3>1, <3>2, <3>3
  <2>2. QED  BY <2>1 DEF RangeOf
<1>14. QED
  <2>1. d.inProgress
    BY <1>11
  <2>2. IdsOf(d.containers) \o d.ids = IdsOf(c.containers) \o ids
    BY <1>3, <1>6, <1>9, <1>11
  <2>3. \A r \in RangeOf(d.containers) : r \in RangeOf(c.containers) \/ r.id = ids[1]
    BY <1>3, <1>11, <1>13
  <2>4. QED  BY <1>8, <1>9, <1>11, <1>12, <2>1, <2>2, <2>3

\* The ids that a session has once it takes a block.
LEMMA BlockTaken ==
    ASSUME TypeOK, NEW ids \in Seq(Ids), nextId + Block - 1 <= MaxId
    PROVE  /\ WithBlock(ids) \in Seq(Ids) /\ WithBlock(ids) # <<>>
           /\ nextId + Block \in Nat \ {0} /\ nextId + Block > nextId
<1>1. nextId \in Nat \ {0} /\ Block \in Nat \ {0}
  BY SizesType DEF TypeOK
<1>2. PICK b : b = [i \in 1..Block |-> nextId + i - 1]
  OBVIOUS
<1>3. b \in Seq(Ids) /\ Len(b) = Block
  BY <1>1, <1>2, BlockIs
<1>4. ids \o b \in Seq(Ids) /\ Len(ids \o b) = Len(ids) + Len(b) /\ Len(ids) \in Nat
  BY <1>3, Joined, LenProperties
<1>5. ids \o b # <<>>
  BY <1>1, <1>3, <1>4, EmptySeq
<1>6. WithBlock(ids) = ids \o b
  BY <1>2 DEF WithBlock
<1>7. nextId + Block \in Nat \ {0} /\ nextId + Block > nextId
  BY <1>1
<1>8. QED  BY <1>4, <1>5, <1>6, <1>7

\* The ids that a session has once there is at least one.
LEMMA OneTaken ==
    ASSUME TypeOK, NEW ids \in Seq(Ids), RangeOf(WithOne(ids)) \subseteq Ids
    PROVE  /\ WithOne(ids) \in Seq(Ids) /\ WithOne(ids) # <<>>
           /\ \/ ids # <<>> /\ WithOne(ids) = ids /\ Taken(ids, WithOne(ids)) = 0
              \/ /\ ids = <<>> /\ WithOne(ids) = <<nextId>>
                 /\ Taken(ids, WithOne(ids)) = 1 /\ nextId \in Ids
<1>1. CASE ids = <<>>
  <2>1. WithOne(ids) = <<nextId>>
    BY <1>1 DEF WithOne
  <2>2. nextId \in Ids
    BY <2>1 DEF RangeOf
  <2>3. <<nextId>> \in Seq(Ids) /\ Len(<<nextId>>) = 1 /\ <<nextId>> # <<>>
    BY <2>2
  <2>4. Len(ids) = 0
    BY <1>1, EmptySeq
  <2>5. Taken(ids, <<nextId>>) = 1
    BY <2>3, <2>4 DEF Taken
  <2>6. WithOne(ids) \in Seq(Ids) /\ WithOne(ids) # <<>>
    BY <2>1, <2>3
  <2>7. Taken(ids, WithOne(ids)) = 1
    BY <2>1, <2>5
  <2>8. QED  BY <1>1, <2>1, <2>2, <2>6, <2>7
<1>2. CASE ids # <<>>
  <2>1. WithOne(ids) = ids
    BY <1>2 DEF WithOne
  <2>2. Len(ids) \in Nat
    BY LenProperties
  <2>3. Taken(ids, WithOne(ids)) = 0
    BY <2>1, <2>2 DEF Taken
  <2>4. QED  BY <1>2, <2>1, <2>3
<1>3. QED  BY <1>1, <1>2

\* What ResetL does to the types.
LEMMA ResetTypes ==
    ASSUME TypeOK, NEW s \in Sessions, ResetL(s)
    PROVE  /\ files' \in [Ids -> Contents] /\ written' \in [Ids -> Contents]
           /\ swept' \subseteq Ids
<1>1. swept \subseteq Ids /\ written \in [Ids -> Contents]
  BY DEF TypeOK
<1>2. OfOthers(s) \subseteq Ids
  BY DEF OfOthers
<1>3. NoFile \in Contents
  BY DEF Contents
<1>4. files' \in [Ids -> Contents]
  BY <1>3 DEF ResetL, NoFiles
<1>5. written' \in [Ids -> Contents]
  BY <1>1, <1>3 DEF ResetL, Without
<1>6. swept' \subseteq Ids
  BY <1>1, <1>2 DEF ResetL
<1>7. QED  BY <1>4, <1>5, <1>6

\* A creator that changes to one whose containers are there exactly if it is in progress.
LEMMA CreatorTypes ==
    ASSUME TypeOK, NEW s \in Sessions, NEW d \in Creators,
           d.inProgress <=> d.containers # <<>>,
           creator' = [creator EXCEPT ![s] = d], committer = Nobody, committer' = Nobody
    PROVE  /\ creator' \in [Sessions -> Creators]
           /\ \A t \in Sessions \ {committer'} :
                 creator'[t].inProgress <=> creator'[t].containers # <<>>
<1>1. creator \in [Sessions -> Creators]
  BY DEF TypeOK, Creators
<1>2. creator' \in [Sessions -> Creators]
  BY <1>1
<1>3. ASSUME NEW t \in Sessions
      PROVE  creator'[t].inProgress <=> creator'[t].containers # <<>>
  <2>1. CASE t = s
    <3>1. creator'[t] = d
      BY <1>1, <2>1
    <3>2. QED  BY <3>1
  <2>2. CASE t # s
    <3>1. creator'[t] = creator[t]
      BY <1>1, <2>2
    <3>2. t \in Sessions \ {committer}
      BY NoneType
    <3>3. QED  BY <3>1, <3>2 DEF TypeOK
  <2>3. QED  BY <2>1, <2>2
<1>4. QED  BY <1>2, <1>3

\* A session that buffers a container has a message in progress.
LEMMA BufferedMeans ==
    ASSUME TypeOK, NEW s \in Sessions, NEW id, id \in Buffered(s)
    PROVE  /\ creator[s].inProgress /\ id \in Ids
           /\ \E i \in 1..Len(creator[s].containers) : creator[s].containers[i].id = id
<1>1. creator[s].inProgress
  BY DEF Buffered
<1>2. id \in IdsIn(RangeOf(creator[s].containers))
  BY <1>1 DEF Buffered
<1>3. PICK i \in 1..Len(creator[s].containers) : creator[s].containers[i].id = id
  BY <1>2 DEF IdsIn, RangeOf
<1>4. creator[s].containers \in Seq(Containers)
  BY DEF TypeOK
<1>5. creator[s].containers[i] \in Containers
  BY <1>3, <1>4, ElementOfSeq
<1>6. QED  BY <1>1, <1>3, <1>5 DEF Containers

\* The creators of the sessions.
LEMMA CreatorIs ==
    ASSUME TypeOK, NEW s \in Sessions
    PROVE  /\ creator[s] \in Creators /\ creator \in [Sessions -> Creators]
           /\ creator[s].containers \in Seq(Containers) /\ creator[s].ids \in Seq(Ids)
BY DEF TypeOK, Creators

\* CreateMessageL keeps the types.
LEMMA CreateMessageTypes ==
    ASSUME TypeOK, NEW s \in Sessions, NEW f \in Folders, CreateMessage(s, f)
    PROVE  TypeOK'
<1> DEFINE before == IF creator[s].batch THEN creator[s] ELSE Idle
           start == [before EXCEPT !.inProgress = TRUE]
<1>1. before \in Creators
  BY CreatorIs, IdleIs
<1>2. start \in Creators /\ start.inProgress /\ before.ids \in Seq(Ids)
  <2> HIDE DEF before
  <2>1. QED  BY <1>1 DEF Creators
<1>3. WithBlock(before.ids) \in Seq(Ids) /\ WithBlock(before.ids) # <<>>
      /\ nextId' \in Nat \ {0}
  <2>1. nextId + Block - 1 <= MaxId /\ nextId' = nextId + Block
    BY DEF CreateMessage
  <2> HIDE DEF before
  <2>2. QED  BY <1>2, <2>1, BlockTaken
<1>4. AddRequestL(s, start, WithBlock(before.ids), "message", f)
  BY DEF CreateMessage
<1>5. "message" \in Kinds /\ f \in Ids \cup Folders
  BY DEF Kinds
<1> HIDE DEF before, start
<1>6. PICK d \in Creators : /\ creator' = [creator EXCEPT ![s] = d]
                            /\ d.inProgress /\ d.containers # <<>>
  BY <1>2, <1>3, <1>4, <1>5, AddedTo
<1>7. committer = Nobody /\ committer' = Nobody
  BY DEF CreateMessage, Serving, commit
<1>8. /\ creator' \in [Sessions -> Creators]
      /\ \A t \in Sessions \ {committer'} :
            creator'[t].inProgress <=> creator'[t].containers # <<>>
  BY <1>6, <1>7, CreatorTypes
<1>9. /\ files' \in [Ids -> Contents] /\ written' \in [Ids -> Contents] /\ swept' \subseteq Ids
  <2>1. CASE creator[s].batch
    BY <2>1 DEF CreateMessage, TypeOK
  <2>2. CASE ~creator[s].batch
    BY <2>2, ResetTypes DEF CreateMessage
  <2>3. QED  BY <2>1, <2>2
<1>10. UNCHANGED <<folders, rows, content, commit, lost, reused, bounds>>
  BY DEF CreateMessage
<1>11. QED  BY <1>3, <1>8, <1>9, <1>10 DEF TypeOK, Creators, commit, bounds

\* A new part keeps the types.
LEMMA CreatePartTypes ==
    ASSUME TypeOK, NEW s \in Sessions, NEW parent \in Ids, CreatePart(s, parent)
    PROVE  TypeOK'
<1>1. creator[s].inProgress
  BY BufferedMeans DEF CreatePart
<1>2. PICK ids : ids = creator[s].ids
  OBVIOUS
<1>3. ids \in Seq(Ids) /\ creator[s] \in Creators
  BY <1>2, CreatorIs
<1>4. RangeOf(WithOne(ids)) \subseteq Ids /\ nextId' = nextId + Taken(ids, WithOne(ids))
      /\ AddRequestL(s, creator[s], WithOne(ids), "part", parent)
  BY <1>2 DEF CreatePart
<1>5. /\ WithOne(ids) \in Seq(Ids) /\ WithOne(ids) # <<>>
      /\ Taken(ids, WithOne(ids)) \in {0, 1}
  BY <1>3, <1>4, OneTaken
<1>6. "part" \in Kinds /\ parent \in Ids \cup Folders
  BY DEF Kinds
<1>7. PICK d \in Creators : /\ creator' = [creator EXCEPT ![s] = d]
                            /\ d.inProgress /\ d.containers # <<>>
  BY <1>1, <1>3, <1>4, <1>5, <1>6, AddedTo
<1>8. committer = Nobody /\ committer' = Nobody
  BY DEF CreatePart, Serving, commit
<1>9. /\ creator' \in [Sessions -> Creators]
      /\ \A t \in Sessions \ {committer'} :
            creator'[t].inProgress <=> creator'[t].containers # <<>>
  BY <1>7, <1>8, CreatorTypes
<1>10. nextId' \in Nat \ {0}
  BY <1>4, <1>5 DEF TypeOK
<1>11. UNCHANGED <<folders, rows, disk, commit, ghost, bounds>>
  BY DEF CreatePart
<1>12. QED  BY <1>9, <1>10, <1>11 DEF TypeOK, Creators, disk, commit, ghost, bounds

\* Writing a content keeps the types.
LEMMA WriteTypes ==
    ASSUME TypeOK, NEW s \in Sessions, NEW id \in Ids,
           NEW mode \in {"replace", "append", "prepend"}, WriteContent(s, id, mode)
    PROVE  TypeOK'
<1>1. ASSUME NEW old \in Contents, NEW piece \in Nat
      PROVE  WrittenTo(old, mode, piece) \in Contents
  <2>1. <<piece>> \in Seq(Nat)
    OBVIOUS
  <2>2. CASE mode = "replace" \/ old = NoFile
    BY <2>1, <2>2 DEF WrittenTo, Contents
  <2>3. CASE ~(mode = "replace" \/ old = NoFile)
    <3>1. old \in Seq(Nat)
      BY <2>3 DEF Contents
    <3>2. Append(old, piece) \in Seq(Nat) /\ <<piece>> \o old \in Seq(Nat)
      BY <2>1, <3>1, AppendProperties, ConcatProperties
    <3>3. QED  BY <2>3, <3>2 DEF WrittenTo, Contents
  <2>4. QED  BY <2>2, <2>3
<1>2. writes \in Nat /\ files \in [Ids -> Contents] /\ written \in [Ids -> Contents]
  BY DEF TypeOK
<1>3. PICK a, b : a = WrittenTo(files[id], mode, writes) /\ b = WrittenTo(written[id], mode, writes)
  OBVIOUS
<1>4. a \in Contents /\ b \in Contents
  BY <1>1, <1>2, <1>3
<1>5. files' = [files EXCEPT ![id] = a] /\ written' = [written EXCEPT ![id] = b]
  BY <1>3 DEF WriteContent
<1>6. files' \in [Ids -> Contents] /\ written' \in [Ids -> Contents]
  BY <1>2, <1>4, <1>5
<1>7. writes' \in Nat
  BY <1>2 DEF WriteContent
<1>8. UNCHANGED <<store, content, creator, commit, swept, lost, reused, faults>>
  BY DEF WriteContent
<1>9. QED  BY <1>6, <1>7, <1>8 DEF TypeOK, store, commit

\* Dropping the buffer keeps the types.
LEMMA DropTypes ==
    ASSUME TypeOK, NEW s \in Sessions, NEW next \in {Idle, [Idle EXCEPT !.batch = TRUE]},
           Drop(s, next)
    PROVE  TypeOK'
<1>1. next \in Creators /\ (next.inProgress <=> next.containers # <<>>)
  BY IdleIs
<1>2. creator' = [creator EXCEPT ![s] = next] /\ ResetL(s) /\ committer = Nobody
      /\ UNCHANGED <<store, content, commit, lost, reused, bounds>>
  BY DEF Drop, Serving
<1>3. committer' = Nobody
  BY <1>2 DEF commit
<1>4. /\ creator' \in [Sessions -> Creators]
      /\ \A t \in Sessions \ {committer'} :
            creator'[t].inProgress <=> creator'[t].containers # <<>>
  BY <1>1, <1>2, <1>3, CreatorTypes
<1>5. /\ files' \in [Ids -> Contents] /\ written' \in [Ids -> Contents] /\ swept' \subseteq Ids
  BY <1>2, ResetTypes
<1>6. QED  BY <1>2, <1>4, <1>5 DEF TypeOK, Creators, store, commit, bounds

\* The transaction of a commit keeps the types.
LEMMA CommitRowsTypes ==
    ASSUME TypeOK, Serving, NEW s \in Sessions, CommitRows(s, creator[s].containers)
    PROVE  TypeOK'
<1>1. PICK cs : cs = creator[s].containers /\ cs \in Seq(Containers)
  BY CreatorIs
<1>2. /\ rows' = rows \cup RangeOf(cs)
      /\ creator' = [creator EXCEPT ![s].inProgress = FALSE, ![s].batch = FALSE]
      /\ committer' = s /\ moving' = [i \in 1..Len(cs) |-> cs[i].id]
      /\ UNCHANGED <<folders, nextId, disk, written, swept, lost, reused, bounds>>
  BY <1>1 DEF CommitRows
<1>3. \A i \in 1..Len(cs) : cs[i] \in Containers /\ cs[i].id \in Ids
  BY <1>1, IdsOfIs, ElementOfSeq
<1>4. moving' = IdsOf(cs)
  BY <1>2 DEF IdsOf
<1>5. moving' \in Seq(Ids)
  BY <1>1, <1>4, IdsOfIs
<1>6. rows' \subseteq Containers
  BY <1>2, <1>3 DEF RangeOf, TypeOK
<1>7. creator' \in [Sessions -> Creators] /\ \A t \in Sessions \ {s} : creator'[t] = creator[t]
  BY <1>2, CreatorIs DEF Creators
<1>8. \A t \in Sessions \ {committer'} :
            creator'[t].inProgress <=> creator'[t].containers # <<>>
  <2>1. \A t \in Sessions \ {s} : creator[t].inProgress <=> creator[t].containers # <<>>
    <3>1. committer = Nobody
      BY DEF Serving
    <3>2. QED  BY <3>1, NoneType DEF TypeOK
  <2>2. QED  BY <1>2, <1>7, <2>1
<1>9. committer' \in Sessions \cup {Nobody}
  BY <1>2
<1>10. QED  BY <1>2, <1>5, <1>6, <1>7, <1>8, <1>9 DEF TypeOK, Creators, disk, bounds

\* The session that commits.
LEMMA CommitterIs ==
    ASSUME TypeOK, committer # Nobody
    PROVE  committer \in Sessions
BY DEF TypeOK

\* Moving a file keeps the types.
LEMMA MoveTypes ==
    ASSUME TypeOK, MoveFile
    PROVE  /\ TypeOK' /\ Head(moving) \in Ids /\ moving \in Seq(Ids)
<1>1. moving \in Seq(Ids) /\ moving # <<>>
  BY DEF TypeOK, MoveFile
<1>2. Head(moving) \in Ids /\ Tail(moving) \in Seq(Ids)
  BY <1>1, HeadTailProperties
<1>3. PICK id \in Ids : id = Head(moving)
  BY <1>2
<1>4. /\ \/ /\ files[id] # NoFile /\ content' = [content EXCEPT ![id] = files[id]]
            /\ files' = [files EXCEPT ![id] = NoFile]
         \/ UNCHANGED disk
      /\ moving' = Tail(moving) /\ UNCHANGED <<store, creator, committer, ghost, bounds>>
  BY <1>3 DEF MoveFile
<1>5. content' \in [Ids -> Contents] /\ files' \in [Ids -> Contents]
  <2>1. content \in [Ids -> Contents] /\ files \in [Ids -> Contents] /\ NoFile \in Contents
    BY DEF TypeOK, Contents
  <2>2. QED  BY <1>4, <2>1 DEF disk
<1>6. moving' \in Seq(Ids)
  BY <1>2, <1>4
<1>7. TypeOK'
  BY <1>4, <1>5, <1>6 DEF TypeOK, store, ghost, bounds
<1>8. QED  BY <1>1, <1>2, <1>7

\* The end of a commit keeps the types.
LEMMA CommitEndsTypes ==
    ASSUME TypeOK, CommitEnds
    PROVE  TypeOK'
<1>1. PICK s \in Sessions : s = committer
  BY CommitterIs DEF CommitEnds
<1>2. /\ creator' = [creator EXCEPT ![s] = Idle] /\ ResetL(s) /\ lost' = lost \cup Unmoved
      /\ committer' = Nobody /\ moving' = <<>> /\ UNCHANGED <<store, content, reused, bounds>>
  BY <1>1 DEF CommitEnds
<1>3. creator' \in [Sessions -> Creators]
      /\ \A t \in Sessions : creator'[t] = IF t = s THEN Idle ELSE creator[t]
  BY <1>2, CreatorIs, IdleIs
<1>4. \A t \in Sessions : creator'[t].inProgress <=> creator'[t].containers # <<>>
  <2>1. \A t \in Sessions \ {s} : creator[t].inProgress <=> creator[t].containers # <<>>
    BY <1>1 DEF TypeOK
  <2>2. QED  BY <1>3, <2>1, IdleIs
<1>5. files' \in [Ids -> Contents] /\ written' \in [Ids -> Contents] /\ swept' \subseteq Ids
  BY <1>2, ResetTypes
<1>6. Unmoved \subseteq Ids
  <2>1. \A i \in 1..Len(moving) : moving[i] \in Ids
    BY ElementOfSeq DEF TypeOK
  <2>2. QED  BY <2>1 DEF Unmoved, RangeOf
<1>7. lost' \subseteq Ids
  BY <1>2, <1>6 DEF TypeOK
<1>8. moving' \in Seq(Ids)
  BY <1>2, EmptySeq
<1>9. QED  BY <1>2, <1>3, <1>4, <1>5, <1>7, <1>8 DEF TypeOK, Creators, store, bounds

\* The end of a session keeps the types.
LEMMA SessionEndsTypes ==
    ASSUME TypeOK, NEW s \in Sessions, SessionEnds(s)
    PROVE  TypeOK'
<1>1. /\ creator' = [creator EXCEPT ![s] = Idle] /\ swept' = swept \ Buffered(s)
      /\ written' = Without(written, Buffered(s)) /\ committer = Nobody
      /\ UNCHANGED <<store, disk, commit, lost, reused, bounds>>
  BY DEF SessionEnds, Serving
<1>2. Idle \in Creators /\ (Idle.inProgress <=> Idle.containers # <<>>)
  BY IdleIs
<1>3. committer' = Nobody
  BY <1>1 DEF commit
<1>4. /\ creator' \in [Sessions -> Creators]
      /\ \A t \in Sessions \ {committer'} :
            creator'[t].inProgress <=> creator'[t].containers # <<>>
  BY <1>1, <1>2, <1>3, CreatorTypes
<1>5. written' \in [Ids -> Contents] /\ swept' \subseteq Ids
  BY <1>1 DEF TypeOK, Without, Contents
<1>6. QED  BY <1>1, <1>4, <1>5 DEF TypeOK, Creators, store, disk, commit, bounds

\* The end of the process keeps the types.
LEMMA ServerEndsTypes ==
    ASSUME TypeOK, ServerEnds
    PROVE  TypeOK'
<1>1. /\ creator' = [s \in Sessions |-> Idle]
      /\ swept' = swept \cap IdsIn(rows) /\ written' = Without(written, Ids \ IdsIn(rows))
      /\ lost' = lost \cup Unmoved /\ committer' = Nobody /\ moving' = <<>>
      /\ UNCHANGED <<store, disk, reused, writes>> /\ faults' = faults + 1
  BY DEF ServerEnds, Fault
<1>2. creator' \in [Sessions -> Creators] /\ \A t \in Sessions : creator'[t] = Idle
  BY <1>1, IdleIs
<1>3. \A t \in Sessions : creator'[t].inProgress <=> creator'[t].containers # <<>>
  BY <1>2, IdleIs
<1>4. Unmoved \subseteq Ids
  <2>1. \A i \in 1..Len(moving) : moving[i] \in Ids
    BY ElementOfSeq DEF TypeOK
  <2>2. QED  BY <2>1 DEF Unmoved, RangeOf
<1>5. lost' \subseteq Ids /\ swept' \subseteq Ids /\ faults' \in Nat
  BY <1>1, <1>4 DEF TypeOK
<1>6. written' \in [Ids -> Contents]
  BY <1>1 DEF TypeOK, Without, Contents
<1>7. moving' \in Seq(Ids)
  BY <1>1, EmptySeq
<1>8. QED  BY <1>1, <1>2, <1>3, <1>5, <1>6, <1>7 DEF TypeOK, Creators, store, disk

\* A wipe keeps the types.
LEMMA WipeTypes ==
    ASSUME TypeOK, Wipe
    PROVE  TypeOK'
<1>1. /\ folders' = Folders /\ rows' = {} /\ nextId' = 1 /\ content' = NoFiles
      /\ written' = NoFiles /\ swept' = {} /\ lost' = {} /\ faults' = faults + 1
      /\ UNCHANGED <<files, creator, commit, writes>>
  BY DEF Wipe, Fault
<1>2. reused' \in BOOLEAN
  BY DEF Wipe, TypeOK
<1>3. NoFiles \in [Ids -> Contents]
  BY DEF NoFiles, Contents
<1>4. QED  BY <1>1, <1>2, <1>3 DEF TypeOK, commit

\* Deleting a folder keeps the types.
LEMMA DeleteFolderTypes ==
    ASSUME TypeOK, NEW f \in Folders, DeleteFolder(f)
    PROVE  TypeOK'
<1>1. PICK gone : /\ gone = IdsIn(rows \ rows')
                  /\ content' = Without(content, gone) /\ written' = Without(written, gone)
                  /\ swept' = swept \ gone /\ lost' = lost \ gone
  BY DEF DeleteFolder
<1>2. /\ folders' = folders \ {f} /\ rows' \subseteq rows /\ faults' = faults + 1
      /\ UNCHANGED <<nextId, files, creator, commit, reused, writes>>
  BY DEF DeleteFolder, Fault
<1>3. content' \in [Ids -> Contents] /\ written' \in [Ids -> Contents]
  BY <1>1 DEF TypeOK, Without, Contents
<1>4. folders' \subseteq Folders /\ rows' \subseteq Containers /\ faults' \in Nat
      /\ swept' \subseteq Ids /\ lost' \subseteq Ids
  BY <1>1, <1>2 DEF TypeOK
<1>5. QED  BY <1>2, <1>3, <1>4 DEF TypeOK, commit

\* Every step keeps the types.
LEMMA TypeStep ==
    ASSUME TypeOK, [Next]_vars
    PROVE  TypeOK'
<1>1. ASSUME NEW s \in Sessions, NEW f \in Folders, CreateMessage(s, f) PROVE TypeOK'
  BY <1>1, CreateMessageTypes
<1>2. ASSUME NEW s \in Sessions, NEW id \in Ids, CreatePart(s, id) PROVE TypeOK'
  BY <1>2, CreatePartTypes
<1>3. ASSUME NEW s \in Sessions, NEW id \in Ids, NEW mode \in {"replace", "append", "prepend"},
             WriteContent(s, id, mode)
      PROVE  TypeOK'
  BY <1>3, WriteTypes
<1>4. ASSUME NEW s \in Sessions, BeginBatchInsert(s) \/ AbandonMessage(s) \/ ContentFails(s)
      PROVE  TypeOK'
  BY <1>4, DropTypes DEF BeginBatchInsert, AbandonMessage, ContentFails
<1>5. ASSUME NEW s \in Sessions, Commit(s) PROVE TypeOK'
  BY <1>5, DropTypes, CommitRowsTypes DEF Commit, CommitFails
<1>6. ASSUME NEW s \in Sessions, SessionEnds(s) PROVE TypeOK'
  BY <1>6, SessionEndsTypes
<1>7. CASE MoveFile
  BY <1>7, MoveTypes
<1>8. CASE CommitEnds
  BY <1>8, CommitEndsTypes
<1>9. CASE ServerEnds
  BY <1>9, ServerEndsTypes
<1>10. CASE Wipe
  BY <1>10, WipeTypes
<1>11. ASSUME NEW f \in Folders, DeleteFolder(f) PROVE TypeOK'
  BY <1>11, DeleteFolderTypes
<1>12. CASE UNCHANGED vars
  BY <1>12 DEF TypeOK, vars, store, disk, commit, ghost, bounds
<1>13. QED
  BY <1>1, <1>2, <1>3, <1>4, <1>5, <1>6, <1>7, <1>8, <1>9, <1>10, <1>11, <1>12 DEF Next

\* In the beginning the types are right.
LEMMA TypeInit ==
    ASSUME Init
    PROVE  TypeOK
<1>1. NoFiles \in [Ids -> Contents] /\ <<>> \in Seq(Ids)
  BY EmptySeq DEF NoFiles, Contents
<1>2. creator \in [Sessions -> Creators] /\ \A t \in Sessions : creator[t] = Idle
  BY IdleIs DEF Init
<1>3. \A t \in Sessions : creator[t].inProgress <=> creator[t].containers # <<>>
  BY <1>2, IdleIs
<1>4. folders \subseteq Folders /\ rows \subseteq Containers /\ nextId \in Nat \ {0}
  BY DEF Init
<1>5. /\ content \in [Ids -> Contents] /\ files \in [Ids -> Contents]
      /\ written \in [Ids -> Contents] /\ moving \in Seq(Ids)
  BY <1>1 DEF Init
<1>6. /\ committer \in Sessions \cup {Nobody} /\ swept \subseteq Ids /\ lost \subseteq Ids
      /\ reused \in BOOLEAN /\ writes \in Nat /\ faults \in Nat
  BY DEF Init
<1>7. QED  BY <1>2, <1>3, <1>4, <1>5, <1>6 DEF TypeOK, Creators

\* Every variable keeps its type, whatever the sessions, their messages and the faults.
THEOREM TypeCorrect == Spec => []TypeOK
<1>1. Init => TypeOK
  BY TypeInit
<1>2. TypeOK /\ [Next]_vars => TypeOK'
  BY TypeStep
<1>3. QED  BY <1>1, <1>2, PTL DEF Spec

-----------------------------------------------------------------------------
(* The ids are unique.  Apart(R, h, n) says it of the rows R, of the ids that *)
(* each session holds, h, and of the next id, n, and that the ids of the rows *)
(* were given out before: the steps drop what is held, put new ids after it,  *)
(* or move its first ids to the rows.                                         *)

Apart(R, h, n) ==
    /\ \A r, q \in R : r.id = q.id => r = q
    /\ \A r \in R : r.id < n
    /\ \A s \in Sessions : \A i \in 1..Len(h[s]) :
           /\ h[s][i] < n
           /\ \A r \in R : r.id # h[s][i]
           /\ \A t \in Sessions : \A j \in 1..Len(h[t]) : h[s][i] = h[t][j] => s = t /\ i = j

AllHeld == [s \in Sessions |-> Held(s)]

IdsApart == ~reused => Apart(rows, AllHeld, nextId)

\* Sessions that drop what they hold, and rows that go, leave the ids unique.
LEMMA ApartShrinks ==
    ASSUME NEW R, NEW h, NEW n, Apart(R, h, n), NEW Q \in SUBSET R,
           NEW g, \A t \in Sessions : g[t] = h[t] \/ g[t] = <<>>
    PROVE  Apart(Q, g, n)
<1>1. ASSUME NEW t \in Sessions, NEW i \in 1..Len(g[t])
      PROVE  g[t] = h[t] /\ i \in 1..Len(h[t]) /\ g[t][i] = h[t][i]
  <2>1. CASE g[t] = h[t]
    BY <2>1
  <2>2. CASE g[t] = <<>>
    <3>1. Len(g[t]) = 0
      BY <2>2, EmptySeq
    <3>2. QED  BY <3>1
  <2>3. QED  BY <2>1, <2>2
<1>2. /\ \A r, q \in Q : r.id = q.id => r = q
      /\ \A r \in Q : r.id < n
  BY DEF Apart
<1>3. ASSUME NEW s \in Sessions, NEW i \in 1..Len(g[s])
      PROVE  /\ g[s][i] < n
             /\ \A r \in Q : r.id # g[s][i]
             /\ \A t \in Sessions : \A j \in 1..Len(g[t]) : g[s][i] = g[t][j] => s = t /\ i = j
  <2>1. g[s][i] = h[s][i] /\ i \in 1..Len(h[s])
    BY <1>1
  <2>2. g[s][i] < n /\ \A r \in Q : r.id # g[s][i]
    BY <2>1 DEF Apart
  <2>3. ASSUME NEW t \in Sessions, NEW j \in 1..Len(g[t]), g[s][i] = g[t][j]
        PROVE  s = t /\ i = j
    <3>1. g[t][j] = h[t][j] /\ j \in 1..Len(h[t])
      BY <1>1
    <3>2. h[s][i] = h[t][j]
      BY <2>1, <2>3, <3>1
    <3>3. QED  BY <2>1, <3>1, <3>2 DEF Apart
  <2>4. QED  BY <2>2, <2>3
<1>4. QED  BY <1>2, <1>3 DEF Apart

\* A session that takes the next ids, and keeps or drops those it holds, leaves them unique.
LEMMA ApartGrows ==
    ASSUME NEW R \in SUBSET Containers, NEW h \in [Sessions -> Seq(Ids)], NEW n \in Nat \ {0},
           Apart(R, h, n), NEW s \in Sessions,
           NEW h0 \in Seq(Ids), h0 = h[s] \/ h0 = <<>>,
           NEW b \in Seq(Ids), \A i \in 1..Len(b) : b[i] = n + i - 1,
           NEW g, g[s] = h0 \o b, \A t \in Sessions \ {s} : g[t] = h[t]
    PROVE  Apart(R, g, n + Len(b))
<1>1. Len(h0) \in Nat /\ Len(b) \in Nat
  BY LenProperties
<1>2. PICK u : u = g[s] /\ u = h0 \o b
  OBVIOUS
<1>3. /\ \A i \in 1..Len(h0) : u[i] = h0[i]
      /\ \A i \in 1..Len(b) : u[Len(h0) + i] = b[i]
      /\ \A i \in 1..Len(u) : i \in 1..Len(h0) \/ \E j \in 1..Len(b) : i = Len(h0) + j
  BY <1>2, Joined
<1>4. \A i \in 1..Len(h0) : i \in 1..Len(h[s]) /\ h0[i] = h[s][i]
  BY EmptySeq
<1>5. ASSUME NEW i \in 1..Len(u)
      PROVE  \/ i \in 1..Len(h[s]) /\ u[i] = h[s][i]
             \/ \E k \in 1..Len(b) : i = Len(h0) + k /\ u[i] = n + k - 1
  <2>1. CASE i \in 1..Len(h0)
    BY <1>3, <1>4, <2>1
  <2>2. CASE \E k \in 1..Len(b) : i = Len(h0) + k
    <3>1. PICK k \in 1..Len(b) : i = Len(h0) + k
      BY <2>2
    <3>2. u[i] = b[k] /\ b[k] = n + k - 1
      BY <1>3, <3>1
    <3>3. QED  BY <3>1, <3>2
  <2>3. QED  BY <1>3, <2>1, <2>2
<1>6. ASSUME NEW t \in Sessions, NEW i \in 1..Len(h[t])
      PROVE  h[t][i] \in Nat /\ h[t][i] < n
  <2>1. h[t] \in Seq(Ids)
    OBVIOUS
  <2>2. h[t][i] \in Ids
    BY <2>1, ElementOfSeq
  <2>3. QED  BY <2>2, SizesType DEF Apart, Ids
<1>7. ASSUME NEW t \in Sessions, NEW i \in 1..Len(g[t])
      PROVE  \/ i \in 1..Len(h[t]) /\ g[t][i] = h[t][i]
             \/ t = s /\ \E k \in 1..Len(b) : i = Len(h0) + k /\ g[t][i] = n + k - 1
  <2>1. CASE t = s
    BY <1>2, <1>5, <2>1
  <2>2. CASE t # s
    BY <2>2
  <2>3. QED  BY <2>1, <2>2
<1>8. \A r \in R : r.id \in Nat /\ r.id < n
  <2>1. \A r \in R : r.id \in Ids
    BY DEF Containers
  <2>2. QED  BY <2>1, SizesType DEF Apart, Ids
<1>9. ASSUME NEW t \in Sessions, NEW i \in 1..Len(g[t])
      PROVE  /\ g[t][i] < n + Len(b)
             /\ \A r \in R : r.id # g[t][i]
             /\ \A v \in Sessions : \A j \in 1..Len(g[v]) : g[t][i] = g[v][j] => t = v /\ i = j
  <2>1. CASE i \in 1..Len(h[t]) /\ g[t][i] = h[t][i]
    <3>1. h[t][i] \in Nat /\ h[t][i] < n
      BY <1>6, <2>1
    <3>2. g[t][i] < n + Len(b)
      BY <1>1, <2>1, <3>1
    <3>3. \A r \in R : r.id # g[t][i]
      BY <2>1 DEF Apart
    <3>4. ASSUME NEW v \in Sessions, NEW j \in 1..Len(g[v]), g[t][i] = g[v][j]
          PROVE  t = v /\ i = j
      <4>1. CASE j \in 1..Len(h[v]) /\ g[v][j] = h[v][j]
        <5>1. h[t][i] = h[v][j] /\ i \in 1..Len(h[t]) /\ j \in 1..Len(h[v])
          BY <2>1, <3>4, <4>1
        <5>2. QED  BY <5>1 DEF Apart
      <4>2. CASE \E k \in 1..Len(b) : g[v][j] = n + k - 1
        BY <1>1, <2>1, <3>1, <3>4, <4>2
      <4>3. QED  BY <1>7, <4>1, <4>2
    <3>5. QED  BY <3>2, <3>3, <3>4
  <2>2. CASE t = s /\ \E k \in 1..Len(b) : i = Len(h0) + k /\ g[t][i] = n + k - 1
    <3>1. PICK k \in 1..Len(b) : i = Len(h0) + k /\ g[t][i] = n + k - 1
      BY <2>2
    <3>2. g[t][i] < n + Len(b) /\ g[t][i] >= n
      BY <1>1, <3>1
    <3>3. \A r \in R : r.id # g[t][i]
      BY <1>1, <1>8, <3>1
    <3>4. ASSUME NEW v \in Sessions, NEW j \in 1..Len(g[v]), g[t][i] = g[v][j]
          PROVE  t = v /\ i = j
      <4>1. CASE j \in 1..Len(h[v]) /\ g[v][j] = h[v][j]
        <5>1. h[v][j] \in Nat /\ h[v][j] < n
          BY <1>6, <4>1
        <5>2. QED  BY <1>1, <3>1, <3>4, <4>1, <5>1
      <4>2. CASE v = s /\ \E m \in 1..Len(b) : j = Len(h0) + m /\ g[v][j] = n + m - 1
        <5>1. PICK m \in 1..Len(b) : j = Len(h0) + m /\ g[v][j] = n + m - 1
          BY <4>2
        <5>2. k = m
          BY <1>1, <3>1, <3>4, <5>1
        <5>3. QED  BY <2>2, <3>1, <4>2, <5>1, <5>2
      <4>3. QED  BY <1>7, <4>1, <4>2
    <3>5. QED  BY <3>2, <3>3, <3>4
  <2>3. QED  BY <1>7, <2>1, <2>2
<1>10. \A r \in R : r.id < n + Len(b)
  BY <1>1, <1>8
<1>11. \A r, q \in R : r.id = q.id => r = q
  BY DEF Apart
<1>12. QED  BY <1>9, <1>10, <1>11 DEF Apart

\* The list u has the ids of the containers cs, and then ids.
FirstThen(u, cs, ids) ==
    /\ \A i \in 1..Len(cs) : i \in 1..Len(u) /\ u[i] = cs[i].id
    /\ \A i \in 1..Len(ids) : Len(cs) + i \in 1..Len(u) /\ u[Len(cs) + i] = ids[i]

\* A session that stores its first ids leaves them unique.
LEMMA ApartMoves ==
    ASSUME NEW R \in SUBSET Containers, NEW h \in [Sessions -> Seq(Ids)], NEW n \in Nat \ {0},
           Apart(R, h, n), NEW s \in Sessions,
           NEW cs \in Seq(Containers), NEW ids \in Seq(Ids),
           FirstThen(h[s], cs, ids),
           NEW g, g[s] = ids, \A t \in Sessions \ {s} : g[t] = h[t]
    PROVE  Apart(R \cup RangeOf(cs), g, n)
<1> DEFINE Q == R \cup RangeOf(cs)
<1>0. /\ \A i \in 1..Len(cs) : i \in 1..Len(h[s]) /\ h[s][i] = cs[i].id
      /\ \A i \in 1..Len(ids) : Len(cs) + i \in 1..Len(h[s]) /\ h[s][Len(cs) + i] = ids[i]
  BY DEF FirstThen
<1>1. Len(cs) \in Nat /\ Len(ids) \in Nat
  BY LenProperties
<1>2. ASSUME NEW t \in Sessions, NEW i \in 1..Len(g[t])
      PROVE  \/ t # s /\ i \in 1..Len(h[t]) /\ g[t][i] = h[t][i]
             \/ t = s /\ Len(cs) + i \in 1..Len(h[s]) /\ g[t][i] = h[s][Len(cs) + i]
  BY <1>0
<1>3. ASSUME NEW r \in Q
      PROVE  r \in R \/ \E i \in 1..Len(cs) : r = cs[i] /\ i \in 1..Len(h[s]) /\ h[s][i] = r.id
  BY <1>0 DEF RangeOf
<1>4. ASSUME NEW r \in Q, NEW q \in Q, r.id = q.id PROVE r = q
  <2>1. CASE r \in R /\ q \in R
    BY <1>4, <2>1 DEF Apart
  <2>2. CASE r \in R /\ \E i \in 1..Len(cs) : q = cs[i] /\ i \in 1..Len(h[s]) /\ h[s][i] = q.id
    BY <1>4, <2>2 DEF Apart
  <2>3. CASE q \in R /\ \E i \in 1..Len(cs) : r = cs[i] /\ i \in 1..Len(h[s]) /\ h[s][i] = r.id
    BY <1>4, <2>3 DEF Apart
  <2>4. CASE /\ \E i \in 1..Len(cs) : r = cs[i] /\ i \in 1..Len(h[s]) /\ h[s][i] = r.id
             /\ \E i \in 1..Len(cs) : q = cs[i] /\ i \in 1..Len(h[s]) /\ h[s][i] = q.id
    BY <1>4, <2>4 DEF Apart
  <2>5. QED  BY <1>3, <2>1, <2>2, <2>3, <2>4
<1>5. ASSUME NEW r \in Q PROVE r.id < n
  BY <1>3 DEF Apart
<1>6. ASSUME NEW t \in Sessions, NEW i \in 1..Len(g[t])
      PROVE  /\ g[t][i] < n
             /\ \A r \in Q : r.id # g[t][i]
             /\ \A v \in Sessions : \A j \in 1..Len(g[v]) : g[t][i] = g[v][j] => t = v /\ i = j
  <2>1. PICK m \in 1..Len(h[t]) : /\ g[t][i] = h[t][m]
                                  /\ t = s => m = Len(cs) + i
                                  /\ t # s => m = i
    BY <1>2
  <2>2. g[t][i] < n
    BY <2>1 DEF Apart
  <2>3. ASSUME NEW r \in Q PROVE r.id # g[t][i]
    <3>1. CASE r \in R
      BY <2>1, <3>1 DEF Apart
    <3>2. CASE \E k \in 1..Len(cs) : r = cs[k] /\ k \in 1..Len(h[s]) /\ h[s][k] = r.id
      <4>1. PICK k \in 1..Len(cs) : k \in 1..Len(h[s]) /\ h[s][k] = r.id
        BY <3>2
      <4>2. ASSUME r.id = g[t][i] PROVE t = s /\ k = m
        <5>1. h[s][k] = h[t][m]
          BY <2>1, <4>1, <4>2
        <5>2. QED  BY <2>1, <4>1, <5>1 DEF Apart
      <4>3. t = s => k # m
        BY <1>1, <2>1
      <4>4. QED  BY <4>2, <4>3
    <3>3. QED  BY <1>3, <3>1, <3>2
  <2>4. ASSUME NEW v \in Sessions, NEW j \in 1..Len(g[v]), g[t][i] = g[v][j]
        PROVE  t = v /\ i = j
    <3>1. PICK k \in 1..Len(h[v]) : /\ g[v][j] = h[v][k]
                                    /\ v = s => k = Len(cs) + j
                                    /\ v # s => k = j
      BY <1>2
    <3>2. h[t][m] = h[v][k]
      BY <2>1, <2>4, <3>1
    <3>3. t = v /\ m = k
      BY <2>1, <3>1, <3>2 DEF Apart
    <3>4. i = j
      <4>1. i \in Nat /\ j \in Nat
        <5>1. Len(g[t]) \in Nat
          BY <3>3, LenProperties
        <5>2. QED  BY <5>1
      <4>2. QED  BY <1>1, <2>1, <3>1, <3>3, <4>1
    <3>5. QED  BY <3>3, <3>4
  <2>5. QED  BY <2>2, <2>3, <2>4
<1> HIDE DEF Q
<1>7. Apart(Q, g, n)
  BY <1>4, <1>5, <1>6 DEF Apart
<1>8. QED  BY <1>7 DEF Q

\* What the sessions hold are ids.
LEMMA HeldTypes ==
    ASSUME TypeOK
    PROVE  /\ AllHeld \in [Sessions -> Seq(Ids)]
           /\ \A s \in Sessions : AllHeld[s] = Held(s) /\ Held(s) \in Seq(Ids)
<1>1. ASSUME NEW s \in Sessions PROVE Held(s) \in Seq(Ids)
  <2>1. CASE s = committer
    BY <2>1, CreatorIs DEF Held
  <2>2. CASE s # committer
    BY <2>2, HeldIs
  <2>3. QED  BY <2>1, <2>2
<1>2. QED  BY <1>1 DEF AllHeld

\* An empty buffer holds no ids.
LEMMA NothingHeld ==
    /\ IdsOf(Idle.containers) \o Idle.ids = <<>>
    /\ IdsOf([Idle EXCEPT !.batch = TRUE].containers) \o [Idle EXCEPT !.batch = TRUE].ids = <<>>
<1>1. Len(<<>>) = 0
  OBVIOUS
<1>2. 1..Len(<<>>) = {}
  BY <1>1
<1>3. IdsOf(<<>>) = <<>>
  BY <1>2 DEF IdsOf
<1>4. <<>> \o <<>> = <<>>
  BY EmptySeq, ConcatEmptySeq
<1>5. QED  BY <1>3, <1>4, IdleIs

\* A step after which each session holds what it held, or nothing, keeps the ids unique.
LEMMA IdsStay ==
    ASSUME TypeOK, IdsApart, rows' \subseteq rows, nextId' = nextId, reused' = reused,
           \A t \in Sessions : Held(t)' = Held(t) \/ Held(t)' = <<>>
    PROVE  IdsApart'
<1>1. \A t \in Sessions : AllHeld'[t] = AllHeld[t] \/ AllHeld'[t] = <<>>
  BY DEF AllHeld
<1>2. ASSUME ~reused PROVE Apart(rows', AllHeld', nextId)
  <2>1. Apart(rows, AllHeld, nextId)
    BY <1>2 DEF IdsApart
  <2>2. QED  BY <1>1, <2>1, ApartShrinks
<1>3. QED  BY <1>2 DEF IdsApart

\* The same, of a step by which one session drops its buffer.
LEMMA IdsStayDropped ==
    ASSUME TypeOK, IdsApart, rows' = rows, nextId' = nextId, reused' = reused,
           NEW s \in Sessions, NEW next \in {Idle, [Idle EXCEPT !.batch = TRUE]},
           creator' = [creator EXCEPT ![s] = next], committer \in {Nobody, s}, committer' = Nobody
    PROVE  IdsApart'
<1>1. \A t \in Sessions : t # committer'
  BY NoneType
<1>2. Held(s)' = <<>>
  <2>1. creator'[s] = next
    BY CreatorIs
  <2>2. IdsOf(next.containers) \o next.ids = <<>>
    BY NothingHeld
  <2>3. QED  BY <1>1, <2>1, <2>2 DEF Held
<1>3. ASSUME NEW t \in Sessions \ {s} PROVE Held(t)' = Held(t)
  <2>1. creator'[t] = creator[t]
    BY CreatorIs
  <2>2. t # committer
    BY NoneType
  <2>3. Held(t) = IdsOf(creator[t].containers) \o creator[t].ids
    BY <2>2 DEF Held
  <2>4. Held(t)' = IdsOf(creator'[t].containers) \o creator'[t].ids
    BY <1>1 DEF Held
  <2>5. QED  BY <2>1, <2>3, <2>4
<1>4. QED  BY <1>2, <1>3, IdsStay

\* Three lists of ids one after the other.
LEMMA Regrouped ==
    ASSUME NEW k \in Seq(Ids), NEW l \in Seq(Ids), NEW m \in Seq(Ids)
    PROVE  k \o (l \o m) = (k \o l) \o m
BY ConcatAssociative

\* CreateMessageL gives out the ids of a block, CreateContainerL of a part at most one.
LEMMA IdsGiven ==
    ASSUME TypeOK, IdsApart, rows' = rows, reused' = reused,
           committer = Nobody, committer' = Nobody,
           NEW s \in Sessions, NEW d, creator' = [creator EXCEPT ![s] = d],
           NEW cs \in Seq(Containers), NEW ids \in Seq(Ids),
           \/ cs = creator[s].containers /\ ids = creator[s].ids
           \/ cs = <<>> /\ ids = <<>>,
           NEW b \in Seq(Ids), \A i \in 1..Len(b) : b[i] = nextId + i - 1,
           IdsOf(d.containers) \o d.ids = IdsOf(cs) \o (ids \o b),
           nextId' = nextId + Len(b)
    PROVE  IdsApart'
<1>1. \A t \in Sessions : t # committer' /\ t # committer
  BY NoneType
<1>2. PICK h0 : h0 = IdsOf(cs) \o ids
  OBVIOUS
<1>3. h0 \in Seq(Ids) /\ IdsOf(cs) \in Seq(Ids)
  BY <1>2, IdsOfIs, Joined
<1>4. h0 = Held(s) \/ h0 = <<>>
  <2>1. CASE cs = creator[s].containers /\ ids = creator[s].ids
    BY <1>1, <1>2, <2>1 DEF Held
  <2>2. CASE cs = <<>> /\ ids = <<>>
    BY <1>2, <2>2, NothingHeld, IdleIs
  <2>3. QED  BY <2>1, <2>2
<1>5. Held(s)' = h0 \o b
  <2>1. creator'[s] = d
    BY CreatorIs
  <2>2. IdsOf(cs) \o (ids \o b) = (IdsOf(cs) \o ids) \o b
    <3>1. PICK l \in Seq(Ids) : l = IdsOf(cs)
      BY <1>3
    <3>2. l \o (ids \o b) = (l \o ids) \o b
      BY Regrouped
    <3>3. QED  BY <3>1, <3>2
  <2>3. QED  BY <1>1, <1>2, <2>1, <2>2 DEF Held
<1>6. ASSUME NEW t \in Sessions \ {s} PROVE Held(t)' = Held(t)
  <2>1. creator'[t] = creator[t]
    BY CreatorIs
  <2>2. QED  BY <1>1, <2>1 DEF Held
<1>7. /\ AllHeld'[s] = h0 \o b /\ \A t \in Sessions \ {s} : AllHeld'[t] = AllHeld[t]
      /\ h0 = AllHeld[s] \/ h0 = <<>>
  BY <1>4, <1>5, <1>6 DEF AllHeld
<1>8. AllHeld \in [Sessions -> Seq(Ids)] /\ rows \in SUBSET Containers /\ nextId \in Nat \ {0}
  BY HeldTypes DEF TypeOK
<1>9. ASSUME ~reused PROVE Apart(rows, AllHeld', nextId + Len(b))
  <2>1. Apart(rows, AllHeld, nextId)
    BY <1>9 DEF IdsApart
  <2>2. QED  BY <1>3, <1>7, <1>8, <2>1, ApartGrows
<1>10. QED  BY <1>9 DEF IdsApart

\* CreateMessageL keeps the ids unique.
LEMMA CreateMessageApart ==
    ASSUME TypeOK, IdsApart, NEW s \in Sessions, NEW f \in Folders, CreateMessage(s, f)
    PROVE  IdsApart'
<1> DEFINE before == IF creator[s].batch THEN creator[s] ELSE Idle
           start == [before EXCEPT !.inProgress = TRUE]
<1>1. /\ before \in Creators
      /\ \/ before.containers = creator[s].containers /\ before.ids = creator[s].ids
         \/ before.containers = <<>> /\ before.ids = <<>>
  BY CreatorIs, IdleIs
<1>2. AddRequestL(s, start, WithBlock(before.ids), "message", f)
  BY DEF CreateMessage
<1>3. PICK prior : prior = before
  OBVIOUS
<1>4. PICK begun : begun = start
  OBVIOUS
<1>5. begun = [prior EXCEPT !.inProgress = TRUE]
  BY <1>3, <1>4
<1> HIDE DEF before, start
<1>6. PICK cs, ids : cs = prior.containers /\ ids = prior.ids
  OBVIOUS
<1>7. /\ begun \in Creators /\ begun.inProgress /\ begun.containers = cs
      /\ cs \in Seq(Containers) /\ ids \in Seq(Ids)
  BY <1>1, <1>3, <1>5, <1>6 DEF Creators
<1>8. AddRequestL(s, begun, WithBlock(ids), "message", f)
  BY <1>2, <1>3, <1>4, <1>6
<1>9. /\ nextId + Block - 1 <= MaxId /\ nextId' = nextId + Block
      /\ committer = Nobody /\ committer' = Nobody
      /\ rows' = rows /\ reused' = reused
  BY DEF CreateMessage, Serving, commit
<1>10. WithBlock(ids) \in Seq(Ids) /\ WithBlock(ids) # <<>>
  BY <1>7, <1>9, BlockTaken
<1>11. "message" \in Kinds /\ f \in Ids \cup Folders
  BY DEF Kinds
<1>12. PICK d \in Creators : /\ creator' = [creator EXCEPT ![s] = d]
                             /\ IdsOf(d.containers) \o d.ids = IdsOf(cs) \o WithBlock(ids)
  <2>1. PICK all \in Seq(Ids) : all = WithBlock(ids)
    BY <1>10
  <2>2. PICK c \in Creators : c = begun
    BY <1>7
  <2>3. AddRequestL(s, c, all, "message", f) /\ all # <<>> /\ c.inProgress
    BY <1>7, <1>8, <1>10, <2>1, <2>2
  <2>4. \E d \in Creators : /\ creator' = [creator EXCEPT ![s] = d]
                            /\ IdsOf(d.containers) \o d.ids = IdsOf(c.containers) \o all
    <3>1. PICK kind \in Kinds, parent \in Ids \cup Folders : kind = "message" /\ parent = f
      BY <1>11
    <3>2. AddRequestL(s, c, all, kind, parent)
      BY <2>3, <3>1
    <3>3. \E d \in Creators :
              /\ creator' = [creator EXCEPT ![s] = d]
              /\ d.inProgress /\ d.containers # <<>>
              /\ d.batch = c.batch /\ d.ids = Tail(all)
              /\ IdsOf(d.containers) \o d.ids = IdsOf(c.containers) \o all
              /\ \A r \in RangeOf(d.containers) : r \in RangeOf(c.containers) \/ r.id = all[1]
      BY <2>3, <3>2, AddedTo, Zenon
    <3>4. QED  BY <3>3
  <2>5. QED  BY <1>7, <2>1, <2>2, <2>4
<1>13. PICK b : b = [i \in 1..Block |-> nextId + i - 1]
  OBVIOUS
<1>14. b \in Seq(Ids) /\ Len(b) = Block /\ \A i \in 1..Len(b) : b[i] = nextId + i - 1
  <2>1. nextId \in Nat \ {0}
    BY DEF TypeOK
  <2>2. b \in Seq(Ids) /\ Len(b) = Block /\ \A i \in 1..Block : b[i] = nextId + i - 1
    BY <1>9, <1>13, <2>1, BlockIs
  <2>3. QED  BY <2>2
<1>15. WithBlock(ids) = ids \o b
  BY <1>13 DEF WithBlock
<1>16. IdsOf(d.containers) \o d.ids = IdsOf(cs) \o (ids \o b)
  BY <1>12, <1>15
<1>17. nextId' = nextId + Len(b)
  BY <1>9, <1>14
<1>18. \/ cs = creator[s].containers /\ ids = creator[s].ids
       \/ cs = <<>> /\ ids = <<>>
  BY <1>1, <1>3, <1>6
<1>19. QED  BY <1>7, <1>9, <1>12, <1>14, <1>16, <1>17, <1>18, IdsGiven

\* A new part keeps the ids unique.
LEMMA CreatePartApart ==
    ASSUME TypeOK, IdsApart, NEW s \in Sessions, NEW parent \in Ids, CreatePart(s, parent)
    PROVE  IdsApart'
<1>1. creator[s].inProgress
  BY BufferedMeans DEF CreatePart
<1>2. PICK cs, ids : cs = creator[s].containers /\ ids = creator[s].ids
  OBVIOUS
<1>3. cs \in Seq(Containers) /\ ids \in Seq(Ids) /\ creator[s] \in Creators
  BY <1>2, CreatorIs
<1>4. /\ RangeOf(WithOne(ids)) \subseteq Ids /\ nextId' = nextId + Taken(ids, WithOne(ids))
      /\ AddRequestL(s, creator[s], WithOne(ids), "part", parent)
  BY <1>2 DEF CreatePart
<1>5. /\ WithOne(ids) \in Seq(Ids) /\ WithOne(ids) # <<>>
      /\ \/ ids # <<>> /\ WithOne(ids) = ids /\ Taken(ids, WithOne(ids)) = 0
         \/ /\ ids = <<>> /\ WithOne(ids) = <<nextId>>
            /\ Taken(ids, WithOne(ids)) = 1 /\ nextId \in Ids
  BY <1>3, <1>4, OneTaken
<1>6. "part" \in Kinds /\ parent \in Ids \cup Folders
  BY DEF Kinds
<1>7. PICK d \in Creators : /\ creator' = [creator EXCEPT ![s] = d]
                            /\ IdsOf(d.containers) \o d.ids = IdsOf(creator[s].containers) \o WithOne(ids)
  BY <1>1, <1>3, <1>4, <1>5, <1>6, AddedTo
<1>8. /\ committer = Nobody /\ committer' = Nobody
      /\ rows' = rows /\ reused' = reused
  BY DEF CreatePart, Serving, commit, ghost
<1>9. \E b \in Seq(Ids) : /\ \A i \in 1..Len(b) : b[i] = nextId + i - 1
                          /\ WithOne(ids) = ids \o b /\ nextId' = nextId + Len(b)
  <2>1. CASE ids # <<>>
    <3>1. <<>> \in Seq(Ids) /\ Len(<<>>) = 0 /\ ids \o <<>> = ids
      BY <1>3, EmptySeq, ConcatEmptySeq
    <3>2. nextId' = nextId + Len(<<>>) /\ WithOne(ids) = ids \o <<>>
      BY <1>4, <1>5, <2>1, <3>1
    <3>3. \A i \in 1..Len(<<>>) : <<>>[i] = nextId + i - 1
      BY <3>1
    <3>4. QED  BY <3>1, <3>2, <3>3
  <2>2. CASE ids = <<>>
    <3>1. PICK b : b = <<nextId>>
      OBVIOUS
    <3>2. b \in Seq(Ids) /\ Len(b) = 1 /\ b[1] = nextId
      BY <1>5, <2>2, <3>1
    <3>3. <<>> \o b = b
      BY <3>2, ConcatEmptySeq
    <3>4. WithOne(ids) = ids \o b /\ nextId' = nextId + Len(b)
      BY <1>4, <1>5, <2>2, <3>1, <3>2, <3>3
    <3>5. \A i \in 1..Len(b) : b[i] = nextId + i - 1
      BY <3>2 DEF TypeOK
    <3>6. QED  BY <3>2, <3>4, <3>5
  <2>3. QED  BY <2>1, <2>2
<1>10. PICK b \in Seq(Ids) : /\ \A i \in 1..Len(b) : b[i] = nextId + i - 1
                             /\ WithOne(ids) = ids \o b /\ nextId' = nextId + Len(b)
  BY <1>9
<1>11. IdsOf(d.containers) \o d.ids = IdsOf(cs) \o (ids \o b)
  BY <1>2, <1>7, <1>10
<1>12. QED  BY <1>2, <1>3, <1>7, <1>8, <1>10, <1>11, IdsGiven

\* The transaction of a commit moves ids of the session to the rows.
LEMMA CommitRowsApart ==
    ASSUME TypeOK, IdsApart, Serving, NEW s \in Sessions, CommitRows(s, creator[s].containers)
    PROVE  IdsApart'
<1>1. PICK cs \in Seq(Containers), ids \in Seq(Ids) :
                cs = creator[s].containers /\ ids = creator[s].ids
  BY CreatorIs
<1>3. /\ rows' = rows \cup RangeOf(cs) /\ committer' = s
      /\ creator' = [creator EXCEPT ![s].inProgress = FALSE, ![s].batch = FALSE]
      /\ nextId' = nextId /\ reused' = reused
  BY <1>1 DEF CommitRows
<1>4. creator'[s].ids = ids /\ \A t \in Sessions \ {s} : creator'[t] = creator[t]
  BY <1>1, <1>3, CreatorIs DEF Creators
<1>5. \A t \in Sessions : t # committer
  BY NoneType DEF Serving
<1>6. Held(s)' = ids
  BY <1>3, <1>4 DEF Held
<1>7. ASSUME NEW t \in Sessions \ {s} PROVE Held(t)' = Held(t)
  <2>1. Held(t) = IdsOf(creator[t].containers) \o creator[t].ids
    BY <1>5 DEF Held
  <2>2. Held(t)' = IdsOf(creator'[t].containers) \o creator'[t].ids
    BY <1>3 DEF Held
  <2>3. QED  BY <1>4, <2>1, <2>2
<1>8. AllHeld'[s] = ids /\ \A t \in Sessions \ {s} : AllHeld'[t] = AllHeld[t]
  BY <1>6, <1>7 DEF AllHeld
<1>9. AllHeld \in [Sessions -> Seq(Ids)] /\ rows \in SUBSET Containers /\ nextId \in Nat \ {0}
  BY HeldTypes DEF TypeOK
<1>10. PICK h \in [Sessions -> Seq(Ids)] : h = AllHeld
  BY <1>9
<1>11. FirstThen(h[s], cs, ids)
  <2>1. h[s] = Held(s)
    BY <1>10, HeldTypes
  <2>2. s # committer
    BY <1>5
  <2>3. /\ \A i \in 1..Len(cs) : i \in 1..Len(Held(s)) /\ Held(s)[i] = cs[i].id
        /\ \A i \in 1..Len(ids) : /\ Len(cs) + i \in 1..Len(Held(s))
                                  /\ Held(s)[Len(cs) + i] = ids[i]
    BY <1>1, <2>2, HeldIs
  <2>4. QED  BY <2>1, <2>3 DEF FirstThen
<1>12. ASSUME ~reused PROVE Apart(rows \cup RangeOf(cs), AllHeld', nextId)
  <2>1. PICK R, n, g : /\ R \in SUBSET Containers /\ R = rows
                       /\ n \in Nat \ {0} /\ n = nextId
                       /\ g = AllHeld'
    BY <1>9
  <2>2. Apart(R, h, n)
    BY <1>10, <1>12, <2>1 DEF IdsApart
  <2>3. g[s] = ids /\ \A t \in Sessions \ {s} : g[t] = h[t]
    BY <1>8, <1>10, <2>1
  <2>4. R \in SUBSET Containers /\ n \in Nat \ {0}
    BY <2>1
  <2>5. Apart(R \cup RangeOf(cs), g, n)
    BY <1>11, <2>2, <2>3, <2>4, ApartMoves, Zenon
  <2>6. QED  BY <2>1, <2>5
<1>13. QED  BY <1>3, <1>12 DEF IdsApart

\* A wipe restarts the ids, and says so if any are in use.
LEMMA WipeApart ==
    ASSUME TypeOK, IdsApart, Wipe
    PROVE  IdsApart'
<1>1. /\ rows' = {} /\ committer = Nobody /\ creator' = creator
      /\ committer' = Nobody
      /\ ~reused' => \A s \in Sessions : creator[s] = Idle
  BY DEF Wipe, Serving, commit
<1>2. ASSUME ~reused', NEW t \in Sessions PROVE AllHeld'[t] = <<>>
  <2>1. t # committer'
    BY <1>1, NoneType
  <2>2. creator'[t] = Idle
    BY <1>1, <1>2
  <2>3. Held(t)' = IdsOf(creator'[t].containers) \o creator'[t].ids
    BY <2>1 DEF Held
  <2>4. Held(t)' = <<>>
    BY <2>2, <2>3, NothingHeld
  <2>5. QED  BY <2>4 DEF AllHeld
<1>3. ASSUME ~reused' PROVE Apart({}, AllHeld', nextId')
  <2>1. \A t \in Sessions : 1..Len(AllHeld'[t]) = {}
    BY <1>2, <1>3, EmptySeq
  <2>2. QED  BY <2>1 DEF Apart
<1>4. QED  BY <1>1, <1>3 DEF IdsApart

\* Every step keeps the ids unique.
LEMMA IdsStep ==
    ASSUME TypeOK, IdsApart, [Next]_vars
    PROVE  IdsApart'
<1>1. ASSUME NEW s \in Sessions, NEW f \in Folders, CreateMessage(s, f) PROVE IdsApart'
  BY <1>1, CreateMessageApart
<1>2. ASSUME NEW s \in Sessions, NEW id \in Ids, CreatePart(s, id) PROVE IdsApart'
  BY <1>2, CreatePartApart
<1>3. ASSUME NEW s \in Sessions, NEW id \in Ids, NEW mode \in {"replace", "append", "prepend"},
             WriteContent(s, id, mode)
      PROVE  IdsApart'
  <2>1. rows' = rows /\ nextId' = nextId /\ reused' = reused /\ creator' = creator
        /\ committer' = committer
    BY <1>3 DEF WriteContent, store, commit
  <2>2. \A t \in Sessions : Held(t)' = Held(t)
    BY <2>1 DEF Held
  <2>3. QED  BY <2>1, <2>2, IdsStay
<1>4. ASSUME NEW s \in Sessions, NEW next \in {Idle, [Idle EXCEPT !.batch = TRUE]}, Drop(s, next)
      PROVE  IdsApart'
  <2>1. /\ rows' = rows /\ nextId' = nextId /\ reused' = reused
        /\ creator' = [creator EXCEPT ![s] = next]
        /\ committer = Nobody /\ committer' = Nobody
    BY <1>4 DEF Drop, Serving, store, commit
  <2>2. QED  BY <2>1, IdsStayDropped
<1>5. ASSUME NEW s \in Sessions, Commit(s) PROVE IdsApart'
  BY <1>4, <1>5, CommitRowsApart DEF Commit, CommitFails
<1>6. ASSUME NEW s \in Sessions, SessionEnds(s) PROVE IdsApart'
  <2>1. /\ rows' = rows /\ nextId' = nextId /\ reused' = reused
        /\ creator' = [creator EXCEPT ![s] = Idle]
        /\ committer = Nobody /\ committer' = Nobody
    BY <1>6 DEF SessionEnds, Serving, store, commit
  <2>2. QED  BY <2>1, IdsStayDropped
<1>7. CASE MoveFile
  <2>1. rows' = rows /\ nextId' = nextId /\ reused' = reused /\ creator' = creator
        /\ committer' = committer
    BY <1>7 DEF MoveFile, store, ghost
  <2>2. \A t \in Sessions : Held(t)' = Held(t)
    BY <2>1 DEF Held
  <2>3. QED  BY <2>1, <2>2, IdsStay
<1>8. CASE CommitEnds
  <2>1. PICK s \in Sessions : s = committer
    BY <1>8, CommitterIs DEF CommitEnds
  <2>2. /\ rows' = rows /\ nextId' = nextId /\ reused' = reused
        /\ creator' = [creator EXCEPT ![s] = Idle] /\ committer' = Nobody
    BY <1>8, <2>1 DEF CommitEnds, store
  <2>3. QED  BY <2>1, <2>2, IdsStayDropped
<1>9. CASE ServerEnds
  <2>1. /\ rows' = rows /\ nextId' = nextId /\ reused' = reused
        /\ creator' = [s \in Sessions |-> Idle] /\ committer' = Nobody
    BY <1>9 DEF ServerEnds, store
  <2>2. ASSUME NEW t \in Sessions PROVE Held(t)' = <<>>
    <3>1. t # committer' /\ creator'[t] = Idle
      BY <2>1, NoneType
    <3>2. Held(t)' = IdsOf(creator'[t].containers) \o creator'[t].ids
      BY <3>1 DEF Held
    <3>3. QED  BY <3>1, <3>2, NothingHeld
  <2>3. QED  BY <2>1, <2>2, IdsStay
<1>10. CASE Wipe
  BY <1>10, WipeApart
<1>11. ASSUME NEW f \in Folders, DeleteFolder(f) PROVE IdsApart'
  <2>1. rows' \subseteq rows /\ nextId' = nextId /\ reused' = reused /\ creator' = creator
        /\ committer' = committer
    BY <1>11 DEF DeleteFolder, commit
  <2>2. \A t \in Sessions : Held(t)' = Held(t)
    BY <2>1 DEF Held
  <2>3. QED  BY <2>1, <2>2, IdsStay
<1>12. CASE UNCHANGED vars
  <2>1. rows' = rows /\ nextId' = nextId /\ reused' = reused /\ creator' = creator
        /\ committer' = committer
    BY <1>12 DEF vars, store, commit, ghost
  <2>2. \A t \in Sessions : Held(t)' = Held(t)
    BY <2>1 DEF Held
  <2>3. QED  BY <2>1, <2>2, IdsStay
<1>13. QED
  BY <1>1, <1>2, <1>3, <1>4, <1>5, <1>6, <1>7, <1>8, <1>9, <1>10, <1>11, <1>12
  DEF Next, BeginBatchInsert, AbandonMessage, ContentFails

\* In the beginning there are no ids.
LEMMA IdsInit ==
    ASSUME Init
    PROVE  IdsApart
<1>1. rows = {} /\ \A s \in Sessions : creator[s] = Idle /\ s # committer
  BY NoneType DEF Init
<1>2. \A s \in Sessions : AllHeld[s] = <<>>
  BY <1>1, NothingHeld DEF AllHeld, Held
<1>3. ASSUME NEW s \in Sessions PROVE 1..Len(AllHeld[s]) = {}
  <2>1. AllHeld[s] = <<>>
    BY <1>2
  <2>2. Len(AllHeld[s]) = 0
    BY <2>1, EmptySeq
  <2>3. QED  BY <2>2
<1>4. QED  BY <1>1, <1>3 DEF IdsApart, Apart

\* No two containers have the same id, however many sessions there are, whatever they buffer,
\* drop and commit, and wherever the process ends: unless a wipe restarted the ids while
\* some were in use.
THEOREM IdsAreUnique == Spec => []IdsUnique
<1>1. Init => TypeOK /\ IdsApart
  BY TypeInit, IdsInit
<1>2. TypeOK /\ IdsApart /\ [Next]_vars => TypeOK' /\ IdsApart'
  BY TypeStep, IdsStep
<1>3. TypeOK /\ IdsApart => IdsUnique
  BY HeldTypes DEF IdsApart, Apart, IdsUnique
<1>4. QED  BY <1>1, <1>2, <1>3, PTL DEF Spec

-----------------------------------------------------------------------------
(* The contents are kept.  An id that was not used yet has no content anywhere; *)
(* the file of a buffered id is what was written for it, unless it was swept;  *)
(* and so is the file that a commit has still to move.                         *)

\* Ids that no container has had.
FreshIds == {id \in Ids : \/ id >= nextId
                          \/ \E s \in Sessions : id \in RangeOf(creator[s].ids)}

\* The file of an id that is not in its place yet.
Waits(id) == content[id] = NoFile /\ (id \in swept \/ files[id] = written[id])

FreshAreEmpty ==
    \A id \in FreshIds : content[id] = NoFile /\ files[id] = NoFile /\ written[id] = NoFile

BufferedWait == \A s \in Sessions : \A id \in Buffered(s) : Waits(id)

MovingWait ==
    \A i \in 1..Len(moving) :
        /\ Waits(moving[i])
        /\ \E r \in rows : r.id = moving[i]
        /\ \A j \in 1..Len(moving) : moving[i] = moving[j] => i = j

CommitIsOne ==
    /\ committer = Nobody => moving = <<>>
    /\ \A s \in Sessions : s = committer => ~creator[s].inProgress

RowsKept == \A r \in rows : r.id \in swept \/ ContentIntact(r.id)

ContentsKept ==
    ~reused => FreshAreEmpty /\ BufferedWait /\ MovingWait /\ CommitIsOne /\ RowsKept

\* Where an id that is held comes from.
LEMMA HeldPlaces ==
    ASSUME TypeOK, NEW s \in Sessions
    PROVE  /\ \A id \in RangeOf(creator[s].ids) : \E i \in 1..Len(Held(s)) :
                  /\ Held(s)[i] = id
                  /\ s # committer => i > Len(creator[s].containers)
           /\ s # committer => \A i \in 1..Len(creator[s].containers) :
                  i \in 1..Len(Held(s)) /\ Held(s)[i] = creator[s].containers[i].id
<1>1. CASE s = committer
  BY <1>1 DEF Held, RangeOf
<1>2. CASE s # committer
  <2>1. PICK cs \in Seq(Containers), ids \in Seq(Ids) :
                cs = creator[s].containers /\ ids = creator[s].ids
    BY CreatorIs
  <2>2. /\ \A i \in 1..Len(cs) : i \in 1..Len(Held(s)) /\ Held(s)[i] = cs[i].id
        /\ \A i \in 1..Len(ids) : /\ Len(cs) + i \in 1..Len(Held(s))
                                  /\ Held(s)[Len(cs) + i] = ids[i]
    BY <1>2, <2>1, HeldIs
  <2>3. Len(cs) \in Nat /\ Len(ids) \in Nat
    BY LenProperties
  <2>4. ASSUME NEW id \in RangeOf(ids)
        PROVE  \E i \in 1..Len(Held(s)) : Held(s)[i] = id /\ i > Len(cs)
    <3>1. PICK i \in 1..Len(ids) : ids[i] = id
      BY DEF RangeOf
    <3>2. Len(cs) + i \in 1..Len(Held(s)) /\ Held(s)[Len(cs) + i] = id /\ Len(cs) + i > Len(cs)
      BY <2>2, <2>3, <3>1
    <3>3. QED  BY <3>2
  <2>5. QED  BY <2>1, <2>2, <2>4
<1>3. QED  BY <1>1, <1>2

\* Stored, buffered and fresh ids are different.
LEMMA IdsDiffer ==
    ASSUME TypeOK, IdsApart, CommitIsOne, ~reused
    PROVE  /\ \A s \in Sessions : \A id \in Buffered(s) :
                  /\ id \in Ids /\ id \notin FreshIds
                  /\ \A r \in rows : r.id # id
                  /\ \A t \in Sessions \ {s} : id \notin Buffered(t)
           /\ \A r \in rows : r.id \in Ids /\ r.id \notin FreshIds
           /\ \A r, q \in rows : r.id = q.id => r = q
<1>1. Apart(rows, AllHeld, nextId) /\ \A s \in Sessions : AllHeld[s] = Held(s)
  BY HeldTypes DEF IdsApart
<1>2. /\ \A r, q \in rows : r.id = q.id => r = q
      /\ \A r \in rows : r.id < nextId
      /\ \A s \in Sessions : \A i \in 1..Len(Held(s)) :
            /\ Held(s)[i] < nextId
            /\ \A r \in rows : r.id # Held(s)[i]
            /\ \A t \in Sessions : \A j \in 1..Len(Held(t)) :
                   Held(s)[i] = Held(t)[j] => s = t /\ i = j
  BY <1>1 DEF Apart
<1>3. nextId \in Nat /\ \A id \in Ids : id \in Nat
  BY SizesType DEF TypeOK, Ids
<1>4. ASSUME NEW s \in Sessions, NEW id \in Buffered(s)
      PROVE  /\ id \in Ids /\ s # committer
             /\ \E i \in 1..Len(Held(s)) : Held(s)[i] = id /\ i \in 1..Len(creator[s].containers)
  <2>1. creator[s].inProgress /\ id \in Ids
    BY BufferedMeans
  <2>2. PICK i \in 1..Len(creator[s].containers) : creator[s].containers[i].id = id
    BY BufferedMeans
  <2>3. s # committer
    BY <2>1 DEF CommitIsOne
  <2>4. i \in 1..Len(Held(s)) /\ Held(s)[i] = id
    BY <2>2, <2>3, HeldPlaces
  <2>5. QED  BY <2>1, <2>3, <2>4
<1>5. ASSUME NEW s \in Sessions, NEW id \in Buffered(s)
      PROVE  /\ id \notin FreshIds
             /\ \A r \in rows : r.id # id
             /\ \A t \in Sessions \ {s} : id \notin Buffered(t)
  <2>1. PICK i \in 1..Len(Held(s)) : Held(s)[i] = id /\ i \in 1..Len(creator[s].containers)
    BY <1>4
  <2>2. id \in Ids /\ s # committer
    BY <1>4
  <2>3. id < nextId /\ \A r \in rows : r.id # id
    BY <1>2, <2>1
  <2>4. ASSUME NEW t \in Sessions, id \in RangeOf(creator[t].ids) PROVE FALSE
    <3>1. PICK j \in 1..Len(Held(t)) : /\ Held(t)[j] = id
                                       /\ t # committer => j > Len(creator[t].containers)
      BY <2>4, HeldPlaces
    <3>2. s = t /\ i = j
      BY <1>2, <2>1, <3>1
    <3>3. creator[s].containers \in Seq(Containers)
      BY CreatorIs
    <3>4. Len(creator[s].containers) \in Nat
      BY <3>3, LenProperties
    <3>5. QED  BY <2>1, <2>2, <3>1, <3>2, <3>4
  <2>5. id \notin FreshIds
    BY <1>3, <2>2, <2>3, <2>4 DEF FreshIds
  <2>6. ASSUME NEW t \in Sessions \ {s}, id \in Buffered(t) PROVE FALSE
    <3>1. PICK j \in 1..Len(Held(t)) : Held(t)[j] = id
      BY <1>4, <2>6
    <3>2. QED  BY <1>2, <2>1, <3>1
  <2>7. QED  BY <2>3, <2>5, <2>6
<1>6. ASSUME NEW r \in rows PROVE r.id \in Ids /\ r.id \notin FreshIds
  <2>1. r.id \in Ids
    BY DEF TypeOK, Containers
  <2>2. ASSUME NEW t \in Sessions, r.id \in RangeOf(creator[t].ids) PROVE FALSE
    <3>1. PICK j \in 1..Len(Held(t)) : Held(t)[j] = r.id
      BY <2>2, HeldPlaces
    <3>2. QED  BY <1>2, <3>1
  <2>3. r.id < nextId
    BY <1>2
  <2>4. QED  BY <1>3, <2>1, <2>2, <2>3 DEF FreshIds
<1>7. QED  BY <1>2, <1>4, <1>5, <1>6

\* Nothing is being moved between two requests.
LEMMA NothingMoves ==
    ASSUME TypeOK, CommitIsOne, committer = Nobody
    PROVE  moving = <<>> /\ RangeOf(moving) = {}
<1>1. moving = <<>>
  BY DEF CommitIsOne
<1>2. Len(moving) = 0
  BY <1>1, EmptySeq
<1>3. QED  BY <1>1, <1>2 DEF RangeOf

\* ResetL of a session leaves the contents right: those of other sessions are swept, if there
\* was a file.
LEMMA ResetKeeps ==
    ASSUME TypeOK, IdsApart, ~reused, FreshAreEmpty, BufferedWait, CommitIsOne, RowsKept,
           NEW s \in Sessions, ResetL(s), content' = content
    PROVE  /\ \A id \in FreshIds : content'[id] = NoFile /\ files'[id] = NoFile /\ written'[id] = NoFile
           /\ \A t \in Sessions \ {s} : \A id \in Buffered(t) :
                  content'[id] = NoFile /\ (id \in swept' \/ files'[id] = written'[id])
           /\ \A r \in rows : /\ r.id \in swept => r.id \in swept'
                              /\ content'[r.id] = content[r.id] /\ written'[r.id] = written[r.id]
<1>1. /\ \A id \in Ids : files'[id] = NoFile
      /\ swept' = (swept \cup OfOthers(s)) \ Buffered(s)
      /\ \A id \in Ids : written'[id] = IF id \in Buffered(s) THEN NoFile ELSE written[id]
  BY DEF ResetL, NoFiles, Without
<1>2. \A id \in FreshIds : content'[id] = NoFile /\ files'[id] = NoFile /\ written'[id] = NoFile
  BY <1>1 DEF FreshAreEmpty, FreshIds
<1>3. ASSUME NEW t \in Sessions \ {s}, NEW id \in Buffered(t)
      PROVE  content'[id] = NoFile /\ (id \in swept' \/ files'[id] = written'[id])
  <2>1. id \in Ids /\ id \notin Buffered(s)
    BY IdsDiffer
  <2>2. content[id] = NoFile /\ (id \in swept \/ files[id] = written[id])
    BY DEF BufferedWait, Waits
  <2>3. CASE files[id] = NoFile
    BY <1>1, <2>1, <2>2, <2>3
  <2>4. CASE files[id] # NoFile
    <3>1. id \in OfOthers(s)
      BY <2>1, <2>4 DEF OfOthers
    <3>2. QED  BY <1>1, <2>1, <2>2, <3>1
  <2>5. QED  BY <2>3, <2>4
<1>4. ASSUME NEW r \in rows
      PROVE  /\ r.id \in swept => r.id \in swept'
             /\ content'[r.id] = content[r.id] /\ written'[r.id] = written[r.id]
  <2>1. r.id \in Ids /\ r.id \notin Buffered(s)
    BY IdsDiffer
  <2>2. QED  BY <1>1, <2>1
<1>5. QED  BY <1>2, <1>3, <1>4

\* What AddRequestL makes of the ids of the sessions.
LEMMA AddedSets ==
    ASSUME TypeOK, NEW s \in Sessions, NEW c \in Creators, c.inProgress,
           NEW ids \in Seq(Ids), ids # <<>>, NEW kind \in Kinds, NEW parent \in Ids \cup Folders,
           AddRequestL(s, c, ids, kind, parent)
    PROVE  /\ Buffered(s)' \subseteq IdsIn(RangeOf(c.containers)) \cup {ids[1]}
           /\ ids[1] \in RangeOf(ids) /\ RangeOf(creator'[s].ids) \subseteq RangeOf(ids)
           /\ \A t \in Sessions \ {s} : creator'[t] = creator[t] /\ Buffered(t)' = Buffered(t)
<1>1. \E d \in Creators :
              /\ creator' = [creator EXCEPT ![s] = d]
              /\ d.inProgress /\ d.containers # <<>>
              /\ d.batch = c.batch /\ d.ids = Tail(ids)
              /\ IdsOf(d.containers) \o d.ids = IdsOf(c.containers) \o ids
              /\ \A r \in RangeOf(d.containers) : r \in RangeOf(c.containers) \/ r.id = ids[1]
  BY AddedTo, Zenon
<1>2. PICK d : /\ creator' = [creator EXCEPT ![s] = d] /\ d.ids = Tail(ids)
               /\ \A r \in RangeOf(d.containers) : r \in RangeOf(c.containers) \/ r.id = ids[1]
  BY <1>1
<1>3. creator'[s] = d /\ \A t \in Sessions \ {s} : creator'[t] = creator[t]
  BY <1>2, CreatorIs
<1>4. Buffered(s)' \subseteq IdsIn(RangeOf(c.containers)) \cup {ids[1]}
  BY <1>2, <1>3 DEF Buffered, IdsIn
<1>5. \A t \in Sessions \ {s} : Buffered(t)' = Buffered(t)
  BY <1>3 DEF Buffered
<1>6. Len(ids) \in Nat \ {0} /\ 1 \in 1..Len(ids)
  BY EmptySeq, LenProperties
<1>7. RangeOf(Tail(ids)) \subseteq RangeOf(ids)
  <2>1. /\ Len(Tail(ids)) = Len(ids) - 1
        /\ \A i \in 1..Len(Tail(ids)) : Tail(ids)[i] = ids[i + 1]
    BY HeadTailProperties
  <2>2. \A i \in 1..(Len(ids) - 1) : i + 1 \in 1..Len(ids)
    BY <1>6
  <2>3. QED  BY <2>1, <2>2 DEF RangeOf
<1>8. ids[1] \in RangeOf(ids)
  BY <1>6 DEF RangeOf
<1>9. RangeOf(creator'[s].ids) \subseteq RangeOf(ids)
  BY <1>2, <1>3, <1>7
<1>10. QED  BY <1>3, <1>4, <1>5, <1>8, <1>9

\* A request after which sessions buffer what they did, and fresh ids, keeps the contents.
LEMMA ContentsStay ==
    ASSUME TypeOK, IdsApart, ContentsKept, reused' = reused,
           committer = Nobody, committer' = Nobody, moving' = moving,
           FreshIds' \subseteq FreshIds,
           \A t \in Sessions : Buffered(t)' \subseteq Buffered(t) \cup FreshIds,
           content' = content, files' = files, written' = written, swept' = swept,
           lost' = lost, rows' = rows
    PROVE  ContentsKept'
<1> SUFFICES ASSUME ~reused
             PROVE  (FreshAreEmpty /\ BufferedWait /\ MovingWait /\ CommitIsOne /\ RowsKept)'
  BY DEF ContentsKept
<1>1. FreshAreEmpty /\ BufferedWait /\ MovingWait /\ CommitIsOne /\ RowsKept
  BY DEF ContentsKept
<1>2. FreshAreEmpty'
  BY <1>1 DEF FreshAreEmpty
<1>3. BufferedWait'
  BY <1>1 DEF BufferedWait, Waits, FreshAreEmpty
<1>4. moving = <<>> /\ Len(moving) = 0
  BY <1>1, NothingMoves, EmptySeq
<1>5. MovingWait'
  BY <1>4 DEF MovingWait
<1>6. CommitIsOne'
  BY <1>4, NoneType DEF CommitIsOne
<1>7. RowsKept'
  BY <1>1 DEF RowsKept, ContentIntact
<1>8. QED  BY <1>2, <1>3, <1>5, <1>6, <1>7

\* A request that drops the buffer of a session and may begin it anew keeps the contents.
LEMMA ContentsReset ==
    ASSUME TypeOK, IdsApart, ContentsKept, reused' = reused,
           committer = Nobody, committer' = Nobody, moving' = moving,
           NEW s \in Sessions, ResetL(s),
           FreshIds' \subseteq FreshIds, Buffered(s)' \subseteq FreshIds,
           \A t \in Sessions \ {s} : Buffered(t)' \subseteq Buffered(t),
           content' = content, lost' = lost, rows' = rows
    PROVE  ContentsKept'
<1> SUFFICES ASSUME ~reused
             PROVE  (FreshAreEmpty /\ BufferedWait /\ MovingWait /\ CommitIsOne /\ RowsKept)'
  BY DEF ContentsKept
<1>1. FreshAreEmpty /\ BufferedWait /\ MovingWait /\ CommitIsOne /\ RowsKept
  BY DEF ContentsKept
<1>2. /\ \A id \in FreshIds : content'[id] = NoFile /\ files'[id] = NoFile /\ written'[id] = NoFile
      /\ \A t \in Sessions \ {s} : \A id \in Buffered(t) :
             content'[id] = NoFile /\ (id \in swept' \/ files'[id] = written'[id])
      /\ \A r \in rows : /\ r.id \in swept => r.id \in swept'
                         /\ content'[r.id] = content[r.id] /\ written'[r.id] = written[r.id]
  BY <1>1, ResetKeeps
<1>3. FreshAreEmpty'
  BY <1>2 DEF FreshAreEmpty
<1>4. BufferedWait'
  BY <1>2 DEF BufferedWait, Waits
<1>5. moving = <<>> /\ Len(moving) = 0
  BY <1>1, NothingMoves, EmptySeq
<1>6. MovingWait'
  BY <1>5 DEF MovingWait
<1>7. CommitIsOne'
  BY <1>5, NoneType DEF CommitIsOne
<1>8. RowsKept'
  BY <1>1, <1>2 DEF RowsKept, ContentIntact
<1>9. QED  BY <1>3, <1>4, <1>6, <1>7, <1>8

\* CreateMessageL keeps the contents.
LEMMA CreateMessageKeeps ==
    ASSUME TypeOK, IdsApart, ContentsKept, NEW s \in Sessions, NEW f \in Folders, CreateMessage(s, f)
    PROVE  ContentsKept'
<1> DEFINE before == IF creator[s].batch THEN creator[s] ELSE Idle
           start == [before EXCEPT !.inProgress = TRUE]
<1>1. /\ before \in Creators
      /\ IF creator[s].batch THEN before = creator[s] ELSE before.containers = <<>> /\ before.ids = <<>>
  BY CreatorIs, IdleIs
<1>2. AddRequestL(s, start, WithBlock(before.ids), "message", f)
  BY DEF CreateMessage
<1>3. PICK prior : prior = before
  OBVIOUS
<1>4. PICK c : c = start
  OBVIOUS
<1>5. c = [prior EXCEPT !.inProgress = TRUE]
  BY <1>3, <1>4
<1> HIDE DEF before, start
<1>6. PICK ids : ids = prior.ids
  OBVIOUS
<1>7. /\ c \in Creators /\ c.inProgress /\ c.containers = prior.containers
      /\ ids \in Seq(Ids) /\ prior.containers \in Seq(Containers)
  BY <1>1, <1>3, <1>5, <1>6 DEF Creators
<1>8. /\ nextId + Block - 1 <= MaxId /\ nextId' = nextId + Block
      /\ committer = Nobody /\ committer' = Nobody /\ moving' = moving
      /\ rows' = rows /\ reused' = reused /\ content' = content /\ lost' = lost
      /\ IF creator[s].batch THEN UNCHANGED <<files, swept, written>> ELSE ResetL(s)
  BY DEF CreateMessage, Serving, commit
<1>9. PICK all \in Seq(Ids) : all = WithBlock(ids) /\ all # <<>>
  BY <1>7, <1>8, BlockTaken
<1>10. PICK kind \in Kinds, parent \in Ids \cup Folders : kind = "message" /\ parent = f
  BY DEF Kinds
<1>11. AddRequestL(s, c, all, kind, parent)
  BY <1>2, <1>3, <1>4, <1>6, <1>9, <1>10
<1>12. /\ Buffered(s)' \subseteq IdsIn(RangeOf(c.containers)) \cup {all[1]}
       /\ all[1] \in RangeOf(all) /\ RangeOf(creator'[s].ids) \subseteq RangeOf(all)
       /\ \A t \in Sessions \ {s} : creator'[t] = creator[t] /\ Buffered(t)' = Buffered(t)
  BY <1>7, <1>9, <1>11, AddedSets, Zenon
<1>13. RangeOf(all) \subseteq {id \in Ids : id >= nextId \/ id \in RangeOf(ids)}
  <2>1. PICK b : b = [i \in 1..Block |-> nextId + i - 1]
    OBVIOUS
  <2>2. nextId \in Nat \ {0}
    BY DEF TypeOK
  <2>3. b \in Seq(Ids) /\ Len(b) = Block /\ \A i \in 1..Block : b[i] = nextId + i - 1
    BY <1>8, <2>1, <2>2, BlockIs
  <2>4. all = ids \o b
    BY <1>9, <2>1 DEF WithBlock
  <2>5. ASSUME NEW i \in 1..Len(all)
        PROVE  all[i] \in Ids /\ (all[i] >= nextId \/ all[i] \in RangeOf(ids))
    <3>1. all[i] \in Ids
      BY <1>9, ElementOfSeq
    <3>2. /\ \A j \in 1..Len(ids) : all[j] = ids[j]
          /\ \A j \in 1..Len(b) : all[Len(ids) + j] = b[j]
          /\ i \in 1..Len(ids) \/ \E j \in 1..Len(b) : i = Len(ids) + j
      BY <1>7, <2>3, <2>4, Joined
    <3>3. CASE i \in 1..Len(ids)
      BY <3>1, <3>2, <3>3 DEF RangeOf
    <3>4. CASE \E j \in 1..Len(b) : i = Len(ids) + j
      <4>1. PICK j \in 1..Len(b) : i = Len(ids) + j
        BY <3>4
      <4>2. all[i] = nextId + j - 1
        BY <2>3, <3>2, <4>1
      <4>3. all[i] >= nextId
        BY <2>2, <2>3, <4>1, <4>2
      <4>4. QED  BY <3>1, <4>3
    <3>5. QED  BY <3>2, <3>3, <3>4
  <2>6. QED  BY <2>5 DEF RangeOf
<1>14. RangeOf(ids) \subseteq RangeOf(creator[s].ids)
  <2>1. CASE creator[s].batch
    BY <1>1, <1>3, <1>6, <2>1
  <2>2. CASE ~creator[s].batch
    <3>1. ids = <<>>
      BY <1>1, <1>3, <1>6, <2>2
    <3>2. Len(ids) = 0
      BY <3>1, EmptySeq
    <3>3. QED  BY <3>2 DEF RangeOf
  <2>3. QED  BY <2>1, <2>2
<1>15. RangeOf(all) \subseteq FreshIds
  BY <1>13, <1>14 DEF FreshIds
<1>16. FreshIds' \subseteq FreshIds
  <2>1. ASSUME NEW id \in Ids, id >= nextId' PROVE id >= nextId
    <3>1. nextId \in Nat /\ Block \in Nat /\ id \in Nat
      BY SizesType DEF TypeOK, Ids
    <3>2. QED  BY <1>8, <2>1, <3>1
  <2>2. ASSUME NEW id \in Ids, NEW t \in Sessions, id \in RangeOf(creator'[t].ids)
        PROVE  id \in FreshIds
    <3>1. CASE t = s
      BY <1>12, <1>15, <2>2, <3>1
    <3>2. CASE t # s
      BY <1>12, <2>2, <3>2 DEF FreshIds
    <3>3. QED  BY <3>1, <3>2
  <2>3. QED  BY <2>1, <2>2 DEF FreshIds
<1>17. CASE creator[s].batch
  <2>1. IdsIn(RangeOf(c.containers)) \subseteq Buffered(s)
    <3>1. c.containers = creator[s].containers
      BY <1>1, <1>3, <1>7, <1>17
    <3>2. s # committer
      BY <1>8, NoneType
    <3>3. creator[s].inProgress <=> creator[s].containers # <<>>
      BY <3>2 DEF TypeOK
    <3>4. CASE creator[s].inProgress
      BY <3>1, <3>4 DEF Buffered
    <3>5. CASE creator[s].containers = <<>>
      <4>1. Len(c.containers) = 0
        BY <3>1, <3>5, EmptySeq
      <4>2. QED  BY <4>1 DEF IdsIn, RangeOf
    <3>6. QED  BY <3>3, <3>4, <3>5
  <2>2. \A t \in Sessions : Buffered(t)' \subseteq Buffered(t) \cup FreshIds
    BY <1>12, <1>15, <2>1
  <2>3. files' = files /\ written' = written /\ swept' = swept
    BY <1>8, <1>17
  <2>4. QED  BY <1>8, <1>16, <2>2, <2>3, ContentsStay
<1>18. CASE ~creator[s].batch
  <2>1. c.containers = <<>>
    BY <1>1, <1>3, <1>7, <1>18
  <2>2. Len(c.containers) = 0
    BY <2>1, EmptySeq
  <2>3. IdsIn(RangeOf(c.containers)) = {}
    BY <2>2 DEF IdsIn, RangeOf
  <2>4. Buffered(s)' \subseteq FreshIds
    BY <1>12, <1>15, <2>3
  <2>5. \A t \in Sessions \ {s} : Buffered(t)' \subseteq Buffered(t)
    BY <1>12
  <2>6. ResetL(s)
    BY <1>8, <1>18
  <2>7. QED  BY <1>8, <1>16, <2>4, <2>5, <2>6, ContentsReset
<1>19. QED  BY <1>17, <1>18

\* A new part keeps the contents.
LEMMA CreatePartKeeps ==
    ASSUME TypeOK, IdsApart, ContentsKept, NEW s \in Sessions, NEW id0 \in Ids, CreatePart(s, id0)
    PROVE  ContentsKept'
<1>1. creator[s].inProgress
  BY BufferedMeans DEF CreatePart
<1>2. PICK c \in Creators, ids \in Seq(Ids) : c = creator[s] /\ ids = creator[s].ids
  BY CreatorIs
<1>3. /\ RangeOf(WithOne(ids)) \subseteq Ids /\ nextId' = nextId + Taken(ids, WithOne(ids))
      /\ AddRequestL(s, c, WithOne(ids), "part", id0)
  BY <1>2 DEF CreatePart
<1>4. /\ WithOne(ids) \in Seq(Ids) /\ WithOne(ids) # <<>>
      /\ \/ ids # <<>> /\ WithOne(ids) = ids /\ Taken(ids, WithOne(ids)) = 0
         \/ /\ ids = <<>> /\ WithOne(ids) = <<nextId>>
            /\ Taken(ids, WithOne(ids)) = 1 /\ nextId \in Ids
  BY <1>3, OneTaken
<1>5. PICK all \in Seq(Ids) : all = WithOne(ids) /\ all # <<>>
  BY <1>4
<1>6. PICK kind \in Kinds, parent \in Ids \cup Folders : kind = "part" /\ parent = id0
  BY DEF Kinds
<1>7. AddRequestL(s, c, all, kind, parent)
  BY <1>3, <1>5, <1>6
<1>8. /\ Buffered(s)' \subseteq IdsIn(RangeOf(c.containers)) \cup {all[1]}
      /\ all[1] \in RangeOf(all) /\ RangeOf(creator'[s].ids) \subseteq RangeOf(all)
      /\ \A t \in Sessions \ {s} : creator'[t] = creator[t] /\ Buffered(t)' = Buffered(t)
  BY <1>1, <1>2, <1>5, <1>7, AddedSets, Zenon
<1>9. nextId \in Nat /\ nextId' \in Nat /\ nextId' >= nextId
  BY <1>3, <1>4 DEF TypeOK
<1>10. RangeOf(all) \subseteq FreshIds
  <2>1. CASE all = ids
    <3>1. \A i \in 1..Len(ids) : ids[i] \in Ids
      BY ElementOfSeq
    <3>2. QED  BY <1>2, <2>1, <3>1 DEF FreshIds, RangeOf
  <2>2. CASE all = <<nextId>> /\ nextId \in Ids
    <3>1. Len(all) = 1 /\ all[1] = nextId
      BY <2>2
    <3>2. \A i \in 1..Len(all) : all[i] = nextId
      BY <3>1
    <3>3. nextId \in FreshIds
      BY <1>9, <2>2 DEF FreshIds
    <3>4. QED  BY <3>2, <3>3 DEF RangeOf
  <2>3. QED  BY <1>4, <1>5, <2>1, <2>2
<1>11. FreshIds' \subseteq FreshIds
  <2>1. ASSUME NEW id \in Ids, id >= nextId' PROVE id >= nextId
    <3>1. id \in Nat
      BY SizesType DEF Ids
    <3>2. QED  BY <1>9, <2>1, <3>1
  <2>2. ASSUME NEW id \in Ids, NEW t \in Sessions, id \in RangeOf(creator'[t].ids)
        PROVE  id \in FreshIds
    <3>1. CASE t = s
      BY <1>8, <1>10, <2>2, <3>1
    <3>2. CASE t # s
      BY <1>8, <2>2, <3>2 DEF FreshIds
    <3>3. QED  BY <3>1, <3>2
  <2>3. QED  BY <2>1, <2>2 DEF FreshIds
<1>12. IdsIn(RangeOf(c.containers)) \subseteq Buffered(s)
  BY <1>1, <1>2 DEF Buffered
<1>13. \A t \in Sessions : Buffered(t)' \subseteq Buffered(t) \cup FreshIds
  BY <1>8, <1>10, <1>12
<1>14. /\ committer = Nobody /\ committer' = Nobody /\ moving' = moving
       /\ rows' = rows /\ reused' = reused /\ content' = content /\ lost' = lost
       /\ files' = files /\ written' = written /\ swept' = swept
  BY DEF CreatePart, Serving, commit, disk, ghost
<1>15. QED  BY <1>11, <1>13, <1>14, ContentsStay

\* A write keeps the contents: it changes the file as it changes what was written.
LEMMA WriteKeeps ==
    ASSUME TypeOK, IdsApart, ContentsKept, NEW s \in Sessions, NEW id \in Ids,
           NEW mode \in {"replace", "append", "prepend"}, WriteContent(s, id, mode)
    PROVE  ContentsKept'
<1>1. /\ id \in Buffered(s) /\ committer = Nobody
      /\ files' = [files EXCEPT ![id] = WrittenTo(files[id], mode, writes)]
      /\ written' = [written EXCEPT ![id] = WrittenTo(written[id], mode, writes)]
      /\ rows' = rows /\ nextId' = nextId /\ content' = content /\ creator' = creator
      /\ committer' = committer /\ moving' = moving
      /\ swept' = swept /\ lost' = lost /\ reused' = reused
  BY DEF WriteContent, Serving, store, commit
<1> SUFFICES ASSUME ~reused
             PROVE  (FreshAreEmpty /\ BufferedWait /\ MovingWait /\ CommitIsOne /\ RowsKept)'
  BY <1>1 DEF ContentsKept
<1>2. FreshAreEmpty /\ BufferedWait /\ MovingWait /\ CommitIsOne /\ RowsKept
  BY DEF ContentsKept
<1>3. /\ id \notin FreshIds /\ \A r \in rows : r.id # id
      /\ files[id] = written[id] => files'[id] = written'[id]
      /\ \A x \in Ids \ {id} : files'[x] = files[x] /\ written'[x] = written[x]
  BY <1>1, <1>2, IdsDiffer DEF TypeOK
<1>4. FreshIds' = FreshIds /\ \A t \in Sessions : Buffered(t)' = Buffered(t)
  BY <1>1 DEF FreshIds, Buffered
<1>5. FreshAreEmpty'
  BY <1>1, <1>2, <1>3, <1>4 DEF FreshAreEmpty, FreshIds
<1>6. BufferedWait'
  <2>1. ASSUME NEW t \in Sessions, NEW x \in Buffered(t) PROVE Waits(x)'
    <3>1. x \in Ids /\ Waits(x)
      BY <1>2, IdsDiffer DEF BufferedWait
    <3>2. QED  BY <1>1, <1>3, <3>1 DEF Waits
  <2>2. QED  BY <1>4, <2>1 DEF BufferedWait
<1>7. moving = <<>> /\ Len(moving) = 0
  BY <1>1, <1>2, NothingMoves, EmptySeq
<1>8. MovingWait'
  BY <1>1, <1>7 DEF MovingWait
<1>9. CommitIsOne'
  BY <1>1, <1>7, NoneType DEF CommitIsOne
<1>10. RowsKept'
  <2>1. \A r \in rows : written'[r.id] = written[r.id]
    BY <1>2, <1>3, IdsDiffer
  <2>2. QED  BY <1>1, <1>2, <2>1 DEF RowsKept, ContentIntact
<1>11. QED  BY <1>5, <1>6, <1>8, <1>9, <1>10

\* What becomes of the ids if a session's buffer is dropped.
LEMMA DroppedSets ==
    ASSUME TypeOK, NEW s \in Sessions, NEW next \in {Idle, [Idle EXCEPT !.batch = TRUE]},
           creator' = [creator EXCEPT ![s] = next], nextId' = nextId
    PROVE  /\ FreshIds' \subseteq FreshIds /\ Buffered(s)' = {}
           /\ \A t \in Sessions \ {s} : Buffered(t)' = Buffered(t)
<1>1. creator'[s] = next /\ \A t \in Sessions \ {s} : creator'[t] = creator[t]
  BY CreatorIs
<1>2. ~creator'[s].inProgress /\ creator'[s].ids = <<>>
  BY <1>1, IdleIs
<1>3. Len(creator'[s].ids) = 0
  BY <1>2, EmptySeq
<1>4. RangeOf(creator'[s].ids) = {}
  BY <1>3 DEF RangeOf
<1>5. Buffered(s)' = {}
  BY <1>2 DEF Buffered
<1>6. \A t \in Sessions \ {s} : Buffered(t)' = Buffered(t)
  BY <1>1 DEF Buffered
<1>7. FreshIds' \subseteq FreshIds
  BY <1>1, <1>4 DEF FreshIds
<1>8. QED  BY <1>5, <1>6, <1>7

\* Dropping the buffer keeps the contents.
LEMMA DropKeeps ==
    ASSUME TypeOK, IdsApart, ContentsKept, NEW s \in Sessions,
           NEW next \in {Idle, [Idle EXCEPT !.batch = TRUE]}, Drop(s, next)
    PROVE  ContentsKept'
<1>1. /\ creator' = [creator EXCEPT ![s] = next] /\ ResetL(s)
      /\ committer = Nobody /\ committer' = Nobody /\ moving' = moving /\ nextId' = nextId
      /\ rows' = rows /\ content' = content /\ lost' = lost /\ reused' = reused
  BY DEF Drop, Serving, store, commit
<1>2. /\ FreshIds' \subseteq FreshIds /\ Buffered(s)' = {}
      /\ \A t \in Sessions \ {s} : Buffered(t)' = Buffered(t)
  BY <1>1, DroppedSets
<1>3. Buffered(s)' \subseteq FreshIds /\ \A t \in Sessions \ {s} : Buffered(t)' \subseteq Buffered(t)
  BY <1>2
<1>4. QED  BY <1>1, <1>2, <1>3, ContentsReset

\* The transaction of a commit keeps the contents: what was buffered is now to be moved.
LEMMA CommitRowsKeeps ==
    ASSUME TypeOK, IdsApart, ContentsKept, Serving, NEW s \in Sessions,
           CommitRows(s, creator[s].containers)
    PROVE  ContentsKept'
<1>1. PICK cs \in Seq(Containers) : cs = creator[s].containers
  BY CreatorIs
<1>2. /\ rows' = rows \cup RangeOf(cs) /\ committer = Nobody /\ committer' = s
      /\ creator' = [creator EXCEPT ![s].inProgress = FALSE, ![s].batch = FALSE]
      /\ moving' = [i \in 1..Len(cs) |-> cs[i].id]
      /\ nextId' = nextId /\ content' = content /\ files' = files /\ written' = written
      /\ swept' = swept /\ lost' = lost /\ reused' = reused
  BY <1>1 DEF CommitRows, Serving, disk
<1> SUFFICES ASSUME ~reused
             PROVE  (FreshAreEmpty /\ BufferedWait /\ MovingWait /\ CommitIsOne /\ RowsKept)'
  BY <1>2 DEF ContentsKept
<1>3. FreshAreEmpty /\ BufferedWait /\ MovingWait /\ CommitIsOne /\ RowsKept
  BY DEF ContentsKept
<1>4. /\ creator'[s].ids = creator[s].ids /\ ~creator'[s].inProgress
      /\ \A t \in Sessions \ {s} : creator'[t] = creator[t]
  BY <1>2, CreatorIs DEF Creators
<1>5. FreshIds' = FreshIds /\ Buffered(s)' = {} /\ \A t \in Sessions \ {s} : Buffered(t)' = Buffered(t)
  <2>1. \A t \in Sessions : creator'[t].ids = creator[t].ids
    BY <1>4
  <2>2. FreshIds' = FreshIds
    BY <1>2, <2>1 DEF FreshIds
  <2>3. QED  BY <1>4, <2>2 DEF Buffered
<1>6. ASSUME NEW i \in 1..Len(cs)
      PROVE  /\ cs[i].id \in Buffered(s)
             /\ \A j \in 1..Len(cs) : cs[i].id = cs[j].id => i = j
  <2>1. s # committer
    BY <1>2, NoneType
  <2>2. creator[s].inProgress
    <3>1. cs # <<>>
      BY EmptySeq
    <3>2. QED  BY <1>1, <2>1, <3>1 DEF TypeOK
  <2>3. cs[i].id \in Buffered(s)
    BY <1>1, <2>2 DEF Buffered, IdsIn, RangeOf
  <2>4. \A j \in 1..Len(cs) : j \in 1..Len(Held(s)) /\ Held(s)[j] = cs[j].id
    BY <1>1, <2>1, HeldPlaces
  <2>5. /\ Apart(rows, AllHeld, nextId) /\ AllHeld[s] = Held(s)
    BY HeldTypes DEF IdsApart
  <2>6. \A j \in 1..Len(Held(s)) : \A k \in 1..Len(Held(s)) : Held(s)[j] = Held(s)[k] => j = k
    BY <2>5 DEF Apart
  <2>7. QED  BY <2>3, <2>4, <2>6
<1>7. FreshAreEmpty'
  BY <1>2, <1>3, <1>5 DEF FreshAreEmpty
<1>8. BufferedWait'
  BY <1>2, <1>3, <1>5 DEF BufferedWait, Waits
<1>9. Len(cs) \in Nat
  BY LenProperties
<1>10. moving' = IdsOf(cs) /\ Len(moving') = Len(cs) /\ \A i \in 1..Len(cs) : moving'[i] = cs[i].id
  BY <1>2, IdsOfIs DEF IdsOf
<1>11. MovingWait'
  <2>1. ASSUME NEW i \in 1..Len(cs)
        PROVE  /\ Waits(cs[i].id)' /\ \E r \in rows' : r.id = cs[i].id
    <3>1. Waits(cs[i].id)
      BY <1>3, <1>6 DEF BufferedWait
    <3>2. cs[i] \in rows'
      BY <1>2 DEF RangeOf
    <3>3. content[cs[i].id] = NoFile /\ (cs[i].id \in swept \/ files[cs[i].id] = written[cs[i].id])
      BY <3>1 DEF Waits
    <3>4. QED  BY <1>2, <3>2, <3>3 DEF Waits
  <2>2. ASSUME NEW i \in 1..Len(moving')
        PROVE  /\ Waits(moving[i])' /\ \E r \in rows' : r.id = moving'[i]
               /\ \A j \in 1..Len(moving') : moving'[i] = moving'[j] => i = j
    <3>1. i \in 1..Len(cs) /\ moving'[i] = cs[i].id
      BY <1>10
    <3>2. \E r \in rows' : r.id = moving'[i]
      BY <2>1, <3>1
    <3>3. \A j \in 1..Len(moving') : moving'[i] = moving'[j] => i = j
      BY <1>6, <1>10, <3>1
    <3>4. content'[cs[i].id] = NoFile /\ (cs[i].id \in swept' \/ files'[cs[i].id] = written'[cs[i].id])
      BY <1>2, <1>3, <1>6, <3>1 DEF BufferedWait, Waits
    <3>5. Waits(moving[i])'
      BY <3>1, <3>4 DEF Waits
    <3>6. QED  BY <3>2, <3>3, <3>5
  <2>3. QED  BY <2>2 DEF MovingWait
<1>12. CommitIsOne'
  BY <1>2, <1>4, NoneType DEF CommitIsOne
<1>13. RowsKept'
  <2>1. RangeOf(moving) = {}
    BY <1>2, <1>3, NothingMoves
  <2>2. ASSUME NEW r \in rows PROVE r.id \in swept \/ r.id \in lost \/ content[r.id] = written[r.id]
    BY <1>3, <2>1 DEF RowsKept, ContentIntact
  <2>3. ASSUME NEW r \in RangeOf(cs) PROVE r.id \in RangeOf(moving')
    <3>1. PICK i \in 1..Len(cs) : r = cs[i]
      BY DEF RangeOf
    <3>2. i \in 1..Len(moving') /\ moving'[i] = r.id
      BY <1>10, <3>1
    <3>3. QED  BY <3>2 DEF RangeOf
  <2>4. ASSUME NEW r \in rows' PROVE (r.id \in swept \/ ContentIntact(r.id))'
    BY <1>2, <2>2, <2>3 DEF ContentIntact
  <2>5. QED  BY <2>4 DEF RowsKept
<1>14. QED  BY <1>7, <1>8, <1>11, <1>12, <1>13

\* Moving a file keeps the contents.
LEMMA MoveKeeps ==
    ASSUME TypeOK, IdsApart, ContentsKept, MoveFile
    PROVE  ContentsKept'
<1>1. moving \in Seq(Ids) /\ moving # <<>>
  BY DEF TypeOK, MoveFile
<1>2. /\ Head(moving) = moving[1] /\ Tail(moving) \in Seq(Ids)
      /\ Len(Tail(moving)) = Len(moving) - 1
      /\ \A i \in 1..Len(Tail(moving)) : Tail(moving)[i] = moving[i + 1]
  BY <1>1, HeadTailProperties
<1>3. Len(moving) \in Nat \ {0} /\ 1 \in 1..Len(moving)
  BY <1>1, EmptySeq, LenProperties
<1>4. PICK id \in Ids : id = Head(moving) /\ id = moving[1]
  <2>1. moving[1] \in Ids
    BY <1>1, <1>3, ElementOfSeq
  <2>2. QED  BY <1>2, <2>1
<1>5. /\ IF files[id] # NoFile
         THEN /\ content' = [content EXCEPT ![id] = files[id]]
              /\ files' = [files EXCEPT ![id] = NoFile]
         ELSE UNCHANGED disk
      /\ moving' = Tail(moving) /\ committer # Nobody /\ committer' = committer
      /\ rows' = rows /\ nextId' = nextId /\ creator' = creator
      /\ written' = written /\ swept' = swept /\ lost' = lost /\ reused' = reused
  BY <1>4 DEF MoveFile, store, ghost
<1> SUFFICES ASSUME ~reused
             PROVE  (FreshAreEmpty /\ BufferedWait /\ MovingWait /\ CommitIsOne /\ RowsKept)'
  BY <1>5 DEF ContentsKept
<1>6. FreshAreEmpty /\ BufferedWait /\ MovingWait /\ CommitIsOne /\ RowsKept
  BY DEF ContentsKept
<1>7. /\ Waits(id) /\ \E r \in rows : r.id = id
      /\ \A j \in 1..Len(moving) : moving[j] = id => j = 1
  BY <1>3, <1>4, <1>6 DEF MovingWait
<1>8. /\ id \notin FreshIds /\ \A t \in Sessions : id \notin Buffered(t)
  BY <1>6, <1>7, IdsDiffer
<1>9. /\ \A x \in Ids \ {id} : files'[x] = files[x] /\ content'[x] = content[x]
      /\ id \in swept \/ content'[id] = written[id]
  <2>1. CASE files[id] # NoFile
    <3>1. \A x \in Ids \ {id} : files'[x] = files[x] /\ content'[x] = content[x]
      BY <1>5, <2>1 DEF TypeOK
    <3>2. content'[id] = files[id]
      BY <1>5, <2>1 DEF TypeOK
    <3>3. QED  BY <1>7, <3>1, <3>2 DEF Waits
  <2>2. CASE files[id] = NoFile
    BY <1>5, <1>7, <2>2 DEF Waits, disk
  <2>3. QED  BY <2>1, <2>2
<1>10. FreshIds' = FreshIds /\ \A t \in Sessions : Buffered(t)' = Buffered(t)
  BY <1>5 DEF FreshIds, Buffered
<1>11. FreshAreEmpty'
  BY <1>5, <1>6, <1>8, <1>9, <1>10 DEF FreshAreEmpty, FreshIds
<1>12. BufferedWait'
  <2>1. ASSUME NEW t \in Sessions, NEW x \in Buffered(t) PROVE Waits(x)'
    <3>1. x \in Ids /\ x # id /\ Waits(x)
      BY <1>6, <1>8, IdsDiffer DEF BufferedWait
    <3>2. QED  BY <1>5, <1>9, <3>1 DEF Waits
  <2>2. QED  BY <1>10, <2>1 DEF BufferedWait
<1>13. ASSUME NEW i \in 1..Len(moving')
       PROVE  i + 1 \in 1..Len(moving) /\ moving'[i] = moving[i + 1] /\ moving'[i] # id
              /\ moving'[i] \in Ids
  <2>1. i \in 1..(Len(moving) - 1) /\ moving'[i] = moving[i + 1]
    BY <1>2, <1>5
  <2>2. i + 1 \in 1..Len(moving) /\ i + 1 # 1
    BY <1>3, <2>1
  <2>3. moving[i + 1] # id
    BY <1>7, <2>2
  <2>4. moving[i + 1] \in Ids
    BY <1>1, <2>2, ElementOfSeq
  <2>5. QED  BY <2>1, <2>2, <2>3, <2>4
<1>14. MovingWait'
  <2>1. ASSUME NEW i \in 1..Len(moving')
        PROVE  /\ Waits(moving[i])' /\ \E r \in rows' : r.id = moving'[i]
               /\ \A j \in 1..Len(moving') : moving'[i] = moving'[j] => i = j
    <3>1. PICK x \in Ids : x = moving'[i] /\ x = moving[i + 1] /\ x # id
      BY <1>13
    <3>2. Waits(x) /\ \E r \in rows : r.id = x
      BY <1>6, <1>13, <3>1 DEF MovingWait
    <3>3. content'[x] = NoFile /\ (x \in swept' \/ files'[x] = written'[x])
      BY <1>5, <1>9, <3>1, <3>2 DEF Waits
    <3>4. Waits(moving[i])'
      BY <3>1, <3>3 DEF Waits
    <3>5. ASSUME NEW j \in 1..Len(moving'), moving'[i] = moving'[j] PROVE i = j
      <4>1. j + 1 \in 1..Len(moving) /\ i + 1 \in 1..Len(moving) /\ moving[i + 1] = moving[j + 1]
        BY <1>13, <3>5
      <4>2. i + 1 = j + 1
        BY <1>6, <4>1 DEF MovingWait
      <4>3. i \in Nat /\ j \in Nat
        BY <1>2, <1>3, <1>5
      <4>4. QED  BY <4>2, <4>3
    <3>6. QED  BY <1>5, <3>1, <3>2, <3>4, <3>5
  <2>2. QED  BY <2>1 DEF MovingWait
<1>15. CommitIsOne'
  BY <1>5, <1>6 DEF CommitIsOne
<1>16. RowsKept'
  <2>1. ASSUME NEW r \in rows PROVE (r.id \in swept \/ ContentIntact(r.id))'
    <3>1. r.id \in Ids
      BY <1>6, IdsDiffer
    <3>2. CASE r.id = id
      BY <1>5, <1>9, <3>2 DEF ContentIntact
    <3>3. CASE r.id # id
      <4>1. r.id \in RangeOf(moving) => r.id \in RangeOf(moving')
        <5>1. ASSUME NEW k \in 1..Len(moving), r.id = moving[k] PROVE r.id \in RangeOf(moving')
          <6>1. k # 1
            BY <1>4, <3>3, <5>1
          <6>2. k - 1 \in 1..Len(moving') /\ (k - 1) + 1 = k
            BY <1>2, <1>3, <1>5, <6>1
          <6>3. moving'[k - 1] = moving[k]
            BY <1>2, <1>5, <6>2
          <6>4. QED  BY <5>1, <6>2, <6>3 DEF RangeOf
        <5>2. QED  BY <5>1 DEF RangeOf
      <4>2. content'[r.id] = content[r.id]
        BY <1>9, <3>1, <3>3
      <4>3. r.id \in swept \/ ContentIntact(r.id)
        BY <1>6 DEF RowsKept
      <4>4. QED  BY <1>5, <4>1, <4>2, <4>3 DEF ContentIntact
    <3>4. QED  BY <3>2, <3>3
  <2>2. QED  BY <1>5, <2>1 DEF RowsKept
<1>17. QED  BY <1>11, <1>12, <1>14, <1>15, <1>16

\* The end of a commit keeps the contents: the files that were not moved are lost.
LEMMA CommitEndsKeeps ==
    ASSUME TypeOK, IdsApart, ContentsKept, CommitEnds
    PROVE  ContentsKept'
<1>1. PICK s \in Sessions : s = committer
  BY CommitterIs DEF CommitEnds
<1>2. /\ creator' = [creator EXCEPT ![s] = Idle] /\ ResetL(s) /\ lost' = lost \cup Unmoved
      /\ committer' = Nobody /\ moving' = <<>>
      /\ rows' = rows /\ nextId' = nextId /\ content' = content /\ reused' = reused
  BY <1>1 DEF CommitEnds, store
<1> SUFFICES ASSUME ~reused
             PROVE  (FreshAreEmpty /\ BufferedWait /\ MovingWait /\ CommitIsOne /\ RowsKept)'
  BY <1>2 DEF ContentsKept
<1>3. FreshAreEmpty /\ BufferedWait /\ MovingWait /\ CommitIsOne /\ RowsKept
  BY DEF ContentsKept
<1>4. /\ \A id \in FreshIds : content'[id] = NoFile /\ files'[id] = NoFile /\ written'[id] = NoFile
      /\ \A t \in Sessions \ {s} : \A id \in Buffered(t) :
             content'[id] = NoFile /\ (id \in swept' \/ files'[id] = written'[id])
      /\ \A r \in rows : /\ r.id \in swept => r.id \in swept'
                         /\ content'[r.id] = content[r.id] /\ written'[r.id] = written[r.id]
  BY <1>2, <1>3, ResetKeeps
<1>5. /\ FreshIds' \subseteq FreshIds /\ Buffered(s)' = {}
      /\ \A t \in Sessions \ {s} : Buffered(t)' = Buffered(t)
  BY <1>2, DroppedSets
<1>6. FreshAreEmpty'
  BY <1>4, <1>5 DEF FreshAreEmpty
<1>7. BufferedWait'
  BY <1>4, <1>5 DEF BufferedWait, Waits
<1>8. Len(moving') = 0
  BY <1>2, EmptySeq
<1>9. MovingWait'
  BY <1>8 DEF MovingWait
<1>10. CommitIsOne'
  BY <1>2, NoneType DEF CommitIsOne
<1>11. RowsKept'
  <2>1. ASSUME NEW r \in rows PROVE (r.id \in swept \/ ContentIntact(r.id))'
    <3>1. r.id \in swept \/ ContentIntact(r.id)
      BY <1>3 DEF RowsKept
    <3>2. CASE r.id \in RangeOf(moving)
      <4>1. PICK i \in 1..Len(moving) : moving[i] = r.id
        BY <3>2 DEF RangeOf
      <4>2. content[r.id] = NoFile /\ (r.id \in swept \/ files[r.id] = written[r.id])
        BY <1>3, <4>1 DEF MovingWait, Waits
      <4>3. files[r.id] # NoFile => r.id \in Unmoved
        BY <3>2 DEF Unmoved
      <4>4. QED  BY <1>2, <1>4, <4>2, <4>3 DEF ContentIntact
    <3>3. CASE r.id \notin RangeOf(moving)
      BY <1>2, <1>4, <3>1, <3>3 DEF ContentIntact
    <3>4. QED  BY <3>2, <3>3
  <2>2. QED  BY <1>2, <2>1 DEF RowsKept
<1>12. QED  BY <1>6, <1>7, <1>9, <1>10, <1>11

\* The end of a session keeps the contents.
LEMMA SessionEndsKeeps ==
    ASSUME TypeOK, IdsApart, ContentsKept, NEW s \in Sessions, SessionEnds(s)
    PROVE  ContentsKept'
<1>1. /\ creator' = [creator EXCEPT ![s] = Idle] /\ swept' = swept \ Buffered(s)
      /\ written' = Without(written, Buffered(s)) /\ committer = Nobody /\ committer' = Nobody
      /\ moving' = moving /\ rows' = rows /\ nextId' = nextId
      /\ content' = content /\ files' = files /\ lost' = lost /\ reused' = reused
  BY DEF SessionEnds, Serving, store, disk, commit
<1> SUFFICES ASSUME ~reused
             PROVE  (FreshAreEmpty /\ BufferedWait /\ MovingWait /\ CommitIsOne /\ RowsKept)'
  BY <1>1 DEF ContentsKept
<1>2. FreshAreEmpty /\ BufferedWait /\ MovingWait /\ CommitIsOne /\ RowsKept
  BY DEF ContentsKept
<1>3. /\ FreshIds' \subseteq FreshIds /\ Buffered(s)' = {}
      /\ \A t \in Sessions \ {s} : Buffered(t)' = Buffered(t)
  BY <1>1, DroppedSets
<1>4. /\ \A id \in Ids : written'[id] = IF id \in Buffered(s) THEN NoFile ELSE written[id]
  BY <1>1 DEF Without
<1>5. FreshAreEmpty'
  BY <1>1, <1>2, <1>3, <1>4 DEF FreshAreEmpty, FreshIds
<1>6. BufferedWait'
  <2>1. ASSUME NEW t \in Sessions \ {s}, NEW x \in Buffered(t) PROVE Waits(x)'
    <3>1. x \in Ids /\ x \notin Buffered(s) /\ Waits(x)
      BY <1>2, IdsDiffer DEF BufferedWait
    <3>2. QED  BY <1>1, <1>4, <3>1 DEF Waits
  <2>2. QED  BY <1>3, <2>1 DEF BufferedWait
<1>7. moving = <<>> /\ Len(moving) = 0
  BY <1>1, <1>2, NothingMoves, EmptySeq
<1>8. MovingWait'
  BY <1>1, <1>7 DEF MovingWait
<1>9. CommitIsOne'
  BY <1>1, <1>7, NoneType DEF CommitIsOne
<1>10. RowsKept'
  <2>1. \A r \in rows : r.id \notin Buffered(s) /\ written'[r.id] = written[r.id]
    BY <1>2, <1>4, IdsDiffer
  <2>2. QED  BY <1>1, <1>2, <2>1 DEF RowsKept, ContentIntact
<1>11. QED  BY <1>5, <1>6, <1>8, <1>9, <1>10

\* The end of the process keeps the contents, wherever a commit was.
LEMMA ServerEndsKeeps ==
    ASSUME TypeOK, IdsApart, ContentsKept, ServerEnds
    PROVE  ContentsKept'
<1>1. /\ creator' = [s \in Sessions |-> Idle]
      /\ swept' = swept \cap IdsIn(rows) /\ written' = Without(written, Ids \ IdsIn(rows))
      /\ lost' = lost \cup Unmoved /\ committer' = Nobody /\ moving' = <<>>
      /\ rows' = rows /\ nextId' = nextId
      /\ content' = content /\ files' = files /\ reused' = reused
  BY DEF ServerEnds, store, disk
<1> SUFFICES ASSUME ~reused
             PROVE  (FreshAreEmpty /\ BufferedWait /\ MovingWait /\ CommitIsOne /\ RowsKept)'
  BY <1>1 DEF ContentsKept
<1>2. FreshAreEmpty /\ BufferedWait /\ MovingWait /\ CommitIsOne /\ RowsKept
  BY DEF ContentsKept
<1>3. ASSUME NEW t \in Sessions PROVE Buffered(t)' = {} /\ RangeOf(creator'[t].ids) = {}
  <2>1. creator'[t] = Idle
    BY <1>1
  <2>2. ~creator'[t].inProgress /\ creator'[t].ids = <<>>
    BY <2>1, IdleIs
  <2>3. Len(creator'[t].ids) = 0
    BY <2>2, EmptySeq
  <2>4. QED  BY <2>2, <2>3 DEF Buffered, RangeOf
<1>4. /\ \A id \in Ids : written'[id] = IF id \in IdsIn(rows) THEN written[id] ELSE NoFile
  BY <1>1 DEF Without
<1>5. FreshAreEmpty'
  <2>1. FreshIds' \subseteq FreshIds
    BY <1>1, <1>3 DEF FreshIds
  <2>2. QED  BY <1>1, <1>2, <1>4, <2>1 DEF FreshAreEmpty, FreshIds
<1>6. BufferedWait'
  BY <1>3 DEF BufferedWait
<1>7. Len(moving') = 0
  BY <1>1, EmptySeq
<1>8. MovingWait'
  BY <1>7 DEF MovingWait
<1>9. CommitIsOne'
  BY <1>1, NoneType DEF CommitIsOne
<1>10. RowsKept'
  <2>1. ASSUME NEW r \in rows PROVE (r.id \in swept \/ ContentIntact(r.id))'
    <3>1. r.id \in swept \/ ContentIntact(r.id)
      BY <1>2 DEF RowsKept
    <3>2. r.id \in Ids /\ r.id \in IdsIn(rows)
      BY <1>2, IdsDiffer DEF IdsIn
    <3>3. written'[r.id] = written[r.id] /\ (r.id \in swept => r.id \in swept')
      BY <1>1, <1>4, <3>2
    <3>4. CASE r.id \in RangeOf(moving)
      <4>1. PICK i \in 1..Len(moving) : moving[i] = r.id
        BY <3>4 DEF RangeOf
      <4>2. content[r.id] = NoFile /\ (r.id \in swept \/ files[r.id] = written[r.id])
        BY <1>2, <4>1 DEF MovingWait, Waits
      <4>3. files[r.id] # NoFile => r.id \in Unmoved
        BY <3>4 DEF Unmoved
      <4>4. QED  BY <1>1, <3>3, <4>2, <4>3 DEF ContentIntact
    <3>5. CASE r.id \notin RangeOf(moving)
      BY <1>1, <3>1, <3>3, <3>5 DEF ContentIntact
    <3>6. QED  BY <3>4, <3>5
  <2>2. QED  BY <1>1, <2>1 DEF RowsKept
<1>11. QED  BY <1>5, <1>6, <1>8, <1>9, <1>10

\* A wipe leaves no contents, and says so if ids are in use.
LEMMA WipeKeeps ==
    ASSUME TypeOK, ContentsKept, Wipe
    PROVE  ContentsKept'
<1>1. /\ rows' = {} /\ content' = NoFiles /\ written' = NoFiles
      /\ committer = Nobody /\ committer' = Nobody /\ moving' = moving
      /\ creator' = creator /\ files' = files /\ ~reused
      /\ ~reused' => files = NoFiles /\ \A s \in Sessions : creator[s] = Idle
  BY DEF Wipe, Serving, commit
<1> SUFFICES ASSUME ~reused'
             PROVE  (FreshAreEmpty /\ BufferedWait /\ MovingWait /\ CommitIsOne /\ RowsKept)'
  BY DEF ContentsKept
<1>2. \A id \in Ids : content'[id] = NoFile /\ files'[id] = NoFile /\ written'[id] = NoFile
  BY <1>1 DEF NoFiles
<1>3. FreshAreEmpty'
  BY <1>2 DEF FreshAreEmpty, FreshIds
<1>4. BufferedWait'
  <2>1. \A t \in Sessions : ~creator'[t].inProgress
    BY <1>1, IdleIs
  <2>2. QED  BY <2>1 DEF BufferedWait, Buffered
<1>5. moving = <<>> /\ Len(moving) = 0
  BY <1>1, NothingMoves, EmptySeq DEF ContentsKept
<1>6. MovingWait'
  BY <1>1, <1>5 DEF MovingWait
<1>7. CommitIsOne'
  BY <1>1, <1>5, NoneType DEF CommitIsOne
<1>8. RowsKept'
  BY <1>1 DEF RowsKept
<1>9. QED  BY <1>3, <1>4, <1>6, <1>7, <1>8

\* Deleting a folder keeps the contents of what stays.
LEMMA DeleteFolderKeeps ==
    ASSUME TypeOK, IdsApart, ContentsKept, NEW f \in Folders, DeleteFolder(f)
    PROVE  ContentsKept'
<1>1. PICK gone : /\ gone = IdsIn(rows \ rows')
                  /\ content' = Without(content, gone) /\ written' = Without(written, gone)
                  /\ swept' = swept \ gone /\ lost' = lost \ gone
  BY DEF DeleteFolder
<1>2. /\ rows' \subseteq rows /\ nextId' = nextId /\ files' = files /\ creator' = creator
      /\ committer = Nobody /\ committer' = Nobody /\ moving' = moving /\ reused' = reused
  BY DEF DeleteFolder, Serving, commit
<1> SUFFICES ASSUME ~reused
             PROVE  (FreshAreEmpty /\ BufferedWait /\ MovingWait /\ CommitIsOne /\ RowsKept)'
  BY <1>2 DEF ContentsKept
<1>3. FreshAreEmpty /\ BufferedWait /\ MovingWait /\ CommitIsOne /\ RowsKept
  BY DEF ContentsKept
<1>4. \A id \in Ids : /\ content'[id] = IF id \in gone THEN NoFile ELSE content[id]
                      /\ written'[id] = IF id \in gone THEN NoFile ELSE written[id]
  BY <1>1 DEF Without
<1>5. \A id \in gone : \E r \in rows : r.id = id /\ r \notin rows'
  BY <1>1 DEF IdsIn
<1>6. FreshIds' = FreshIds /\ \A t \in Sessions : Buffered(t)' = Buffered(t)
  BY <1>2 DEF FreshIds, Buffered
<1>7. FreshAreEmpty'
  BY <1>2, <1>3, <1>4, <1>6 DEF FreshAreEmpty, FreshIds
<1>8. BufferedWait'
  <2>1. ASSUME NEW t \in Sessions, NEW x \in Buffered(t) PROVE Waits(x)'
    <3>1. x \in Ids /\ Waits(x) /\ x \notin gone
      BY <1>3, <1>5, IdsDiffer DEF BufferedWait
    <3>2. QED  BY <1>1, <1>2, <1>4, <3>1 DEF Waits
  <2>2. QED  BY <1>6, <2>1 DEF BufferedWait
<1>9. moving = <<>> /\ Len(moving) = 0
  BY <1>2, <1>3, NothingMoves, EmptySeq
<1>10. MovingWait'
  BY <1>2, <1>9 DEF MovingWait
<1>11. CommitIsOne'
  BY <1>2, <1>9, NoneType DEF CommitIsOne
<1>12. RowsKept'
  <2>1. ASSUME NEW r \in rows' PROVE (r.id \in swept \/ ContentIntact(r.id))'
    <3>1. r \in rows /\ r.id \in Ids
      BY <1>2, <1>3, IdsDiffer
    <3>2. r.id \notin gone
      BY <1>3, <1>5, <3>1, IdsDiffer
    <3>3. r.id \in swept \/ ContentIntact(r.id)
      BY <1>3, <3>1 DEF RowsKept
    <3>4. content'[r.id] = content[r.id] /\ written'[r.id] = written[r.id]
      BY <1>4, <3>1, <3>2
    <3>5. QED  BY <1>1, <1>2, <3>2, <3>3, <3>4 DEF ContentIntact
  <2>2. QED  BY <2>1 DEF RowsKept
<1>13. QED  BY <1>7, <1>8, <1>10, <1>11, <1>12

\* Every step keeps the contents.
LEMMA ContentsStep ==
    ASSUME TypeOK, IdsApart, ContentsKept, [Next]_vars
    PROVE  ContentsKept'
<1>1. ASSUME NEW s \in Sessions, NEW f \in Folders, CreateMessage(s, f) PROVE ContentsKept'
  BY <1>1, CreateMessageKeeps
<1>2. ASSUME NEW s \in Sessions, NEW id \in Ids, CreatePart(s, id) PROVE ContentsKept'
  BY <1>2, CreatePartKeeps
<1>3. ASSUME NEW s \in Sessions, NEW id \in Ids, NEW mode \in {"replace", "append", "prepend"},
             WriteContent(s, id, mode)
      PROVE  ContentsKept'
  BY <1>3, WriteKeeps
<1>4. ASSUME NEW s \in Sessions, BeginBatchInsert(s) \/ AbandonMessage(s) \/ ContentFails(s)
      PROVE  ContentsKept'
  BY <1>4, DropKeeps DEF BeginBatchInsert, AbandonMessage, ContentFails
<1>5. ASSUME NEW s \in Sessions, Commit(s) PROVE ContentsKept'
  BY <1>5, DropKeeps, CommitRowsKeeps DEF Commit, CommitFails
<1>6. ASSUME NEW s \in Sessions, SessionEnds(s) PROVE ContentsKept'
  BY <1>6, SessionEndsKeeps
<1>7. CASE MoveFile
  BY <1>7, MoveKeeps
<1>8. CASE CommitEnds
  BY <1>8, CommitEndsKeeps
<1>9. CASE ServerEnds
  BY <1>9, ServerEndsKeeps
<1>10. CASE Wipe
  BY <1>10, WipeKeeps
<1>11. ASSUME NEW f \in Folders, DeleteFolder(f) PROVE ContentsKept'
  BY <1>11, DeleteFolderKeeps
<1>12. CASE UNCHANGED vars
  <2>1. /\ rows' = rows /\ nextId' = nextId /\ content' = content /\ files' = files
        /\ creator' = creator /\ committer' = committer /\ moving' = moving
        /\ written' = written /\ swept' = swept /\ lost' = lost /\ reused' = reused
    BY <1>12 DEF vars, store, disk, commit, ghost
  <2>2. FreshIds' = FreshIds /\ \A t \in Sessions : Buffered(t)' = Buffered(t)
    BY <2>1 DEF FreshIds, Buffered
  <2>3. FreshAreEmpty' <=> FreshAreEmpty
    BY <2>1, <2>2 DEF FreshAreEmpty
  <2>4. BufferedWait' <=> BufferedWait
    BY <2>1, <2>2 DEF BufferedWait, Waits
  <2>5. MovingWait' <=> MovingWait
    BY <2>1 DEF MovingWait, Waits
  <2>6. (CommitIsOne' <=> CommitIsOne) /\ (RowsKept' <=> RowsKept)
    BY <2>1 DEF CommitIsOne, RowsKept, ContentIntact
  <2>7. QED  BY <2>1, <2>3, <2>4, <2>5, <2>6 DEF ContentsKept
<1>13. QED
  BY <1>1, <1>2, <1>3, <1>4, <1>5, <1>6, <1>7, <1>8, <1>9, <1>10, <1>11, <1>12 DEF Next

\* In the beginning there are no contents.
LEMMA ContentsInit ==
    ASSUME Init
    PROVE  ContentsKept
<1>1. /\ rows = {} /\ content = NoFiles /\ files = NoFiles /\ written = NoFiles
      /\ committer = Nobody /\ moving = <<>> /\ \A s \in Sessions : creator[s] = Idle
  BY DEF Init
<1>2. FreshAreEmpty
  BY <1>1 DEF FreshAreEmpty, FreshIds, NoFiles
<1>3. BufferedWait
  BY <1>1, IdleIs DEF BufferedWait, Buffered
<1>4. Len(moving) = 0
  BY <1>1, EmptySeq
<1>5. MovingWait
  BY <1>4 DEF MovingWait
<1>6. CommitIsOne /\ RowsKept
  BY <1>1, NoneType DEF CommitIsOne, RowsKept
<1>7. QED  BY <1>2, <1>3, <1>5, <1>6 DEF ContentsKept

\* Contents come into the store whole, whatever sessions write, drop and commit meanwhile, and
\* wherever a commit ends: unless another session's ResetL deleted them, the file could not be
\* moved, or a wipe restarted the ids while some were in use.
THEOREM ContentsComeWhole == Spec => []ContentKept
<1>1. Init => TypeOK /\ IdsApart /\ ContentsKept
  BY TypeInit, IdsInit, ContentsInit
<1>2. TypeOK /\ IdsApart /\ ContentsKept /\ [Next]_vars => TypeOK' /\ IdsApart' /\ ContentsKept'
  BY TypeStep, IdsStep, ContentsStep
<1>3. ContentsKept => ContentKept
  BY DEF ContentsKept, RowsKept, ContentKept
<1>4. QED  BY <1>1, <1>2, <1>3, PTL DEF Spec

-----------------------------------------------------------------------------
(* Messages with their parts.                                                 *)

\* A part that is buffered has its parent in the same buffer.
PartsIn(cs) == \A c \in RangeOf(cs) : c.kind = "part" => c.parent \in IdsIn(RangeOf(cs))

\* The inductive invariant: messages and their parts are buffered together and stored
\* together, and nothing is stored once the ids began anew while some were in use.
PartsTogether ==
    /\ \A s \in Sessions : PartsIn(creator[s].containers)
    /\ MessagesWhole
    /\ reused => rows = {}

\* One more container in a buffer: a message, or a part of what is there.
LEMMA PartsAdded ==
    ASSUME NEW cs \in Seq(Containers), NEW c \in Containers, PartsIn(cs),
           c.kind = "message" \/ c.parent \in IdsIn(RangeOf(cs))
    PROVE  PartsIn(Append(cs, c))
<1>1. PICK new : new = Append(cs, c)
  OBVIOUS
<1>2. /\ Len(new) = Len(cs) + 1 /\ new[Len(cs) + 1] = c /\ Len(cs) \in Nat
      /\ \A i \in 1..Len(cs) : new[i] = cs[i]
  BY <1>1, AppendProperties, LenProperties
<1>3. RangeOf(new) = RangeOf(cs) \cup {c}
  <2>1. \A i \in 1..(Len(cs) + 1) : i \in 1..Len(cs) \/ i = Len(cs) + 1
    BY <1>2
  <2>2. 1..Len(cs) \subseteq 1..(Len(cs) + 1) /\ Len(cs) + 1 \in 1..(Len(cs) + 1)
    BY <1>2
  <2>3. QED  BY <1>2, <2>1, <2>2 DEF RangeOf
<1>4. \A d \in RangeOf(new) : d.kind = "part" => d.parent \in IdsIn(RangeOf(cs))
  <2>1. CASE c.kind = "message"
    BY <1>3, <2>1 DEF PartsIn
  <2>2. CASE c.parent \in IdsIn(RangeOf(cs))
    BY <1>3, <2>2 DEF PartsIn
  <2>3. QED  BY <2>1, <2>2
<1>5. IdsIn(RangeOf(cs)) \subseteq IdsIn(RangeOf(new))
  BY <1>3 DEF IdsIn
<1>6. PartsIn(new)
  BY <1>4, <1>5 DEF PartsIn
<1>7. QED  BY <1>1, <1>6

\* A session that adds a message, or a part of what it buffers, keeps messages together.
LEMMA AddedTogether ==
    ASSUME TypeOK, PartsTogether, NEW s \in Sessions, NEW c \in Creators,
           NEW ids \in Seq(Ids), ids # <<>>, NEW kind \in Kinds, NEW parent \in Ids \cup Folders,
           AddRequestL(s, c, ids, kind, parent), PartsIn(c.containers),
           kind = "message" \/ parent \in IdsIn(RangeOf(c.containers)),
           rows' = rows, folders' = folders, reused' = reused
    PROVE  PartsTogether'
<1>1. PICK new : new = [id |-> ids[1], kind |-> kind, parent |-> parent]
  OBVIOUS
<1>2. ids[1] \in Ids
  BY EmptySeq, ElementOfSeq, LenProperties
<1>3. new \in Containers /\ new.kind = kind /\ new.parent = parent
  BY <1>1, <1>2 DEF Containers
<1>4. c.containers \in Seq(Containers)
  BY DEF Creators
<1>5. PartsIn(Append(c.containers, new))
  BY <1>3, <1>4, PartsAdded
<1>6. creator' = [creator EXCEPT ![s] =
          [c EXCEPT !.ids = Tail(ids), !.containers = Append(@, new)]]
  BY <1>1 DEF AddRequestL
<1>7. creator'[s].containers = Append(c.containers, new)
  BY <1>6, CreatorIs DEF Creators
<1>8. \A t \in Sessions \ {s} : creator'[t] = creator[t]
  BY <1>6, CreatorIs
<1>9. \A t \in Sessions : PartsIn(creator'[t].containers)
  BY <1>5, <1>7, <1>8 DEF PartsTogether
<1>10. QED  BY <1>9 DEF PartsTogether, MessagesWhole, PartsIn

\* A session that drops its buffer keeps messages together.
LEMMA DroppedTogether ==
    ASSUME TypeOK, PartsTogether, NEW s \in Sessions, NEW next, next.containers = <<>>,
           creator' = [creator EXCEPT ![s] = next],
           rows' = rows, folders' = folders, reused' = reused
    PROVE  PartsTogether'
<1>1. creator'[s] = next /\ \A t \in Sessions \ {s} : creator'[t] = creator[t]
  BY CreatorIs
<1>2. RangeOf(next.containers) = {}
  BY EmptySeq DEF RangeOf
<1>3. PartsIn(next.containers)
  BY <1>2 DEF PartsIn
<1>4. \A t \in Sessions : PartsIn(creator'[t].containers)
  BY <1>1, <1>3 DEF PartsTogether
<1>5. QED  BY <1>4 DEF PartsTogether, MessagesWhole, PartsIn

\* What is committed has its parents in the same transaction or in the store.
LEMMA CommitRowsTogether ==
    ASSUME TypeOK, PartsTogether, NEW s \in Sessions, Serving,
           CommitRows(s, creator[s].containers)
    PROVE  PartsTogether'
<1>1. PICK cs : cs = creator[s].containers
  OBVIOUS
<1>2. /\ \A i \in 1..Len(cs) : HasParent(cs, i)
      /\ rows' = rows \cup RangeOf(cs)
      /\ creator' = [creator EXCEPT ![s].inProgress = FALSE, ![s].batch = FALSE]
      /\ folders' = folders /\ reused' = reused /\ ~reused
  BY <1>1 DEF CommitRows, Serving
<1>3. PartsIn(cs) /\ cs \in Seq(Containers)
  BY <1>1, CreatorIs DEF PartsTogether
<1>4. \A c \in RangeOf(cs) : c \in Containers
  BY <1>3, ElementOfSeq DEF RangeOf
<1>5. \A c \in RangeOf(cs) : c.kind = "message" => c.parent \in folders
  BY <1>2 DEF HasParent, RangeOf
<1>6. IdsIn(rows) \subseteq IdsIn(rows') /\ IdsIn(RangeOf(cs)) \subseteq IdsIn(rows')
  BY <1>2 DEF IdsIn
<1>7. \A c \in RangeOf(cs) : c.parent \in folders \cup IdsIn(rows')
  BY <1>3, <1>4, <1>5, <1>6 DEF PartsIn, Containers, Kinds
<1>8. MessagesWhole'
  BY <1>2, <1>6, <1>7 DEF PartsTogether, MessagesWhole
<1>9. \A t \in Sessions : creator'[t].containers = creator[t].containers
  <2>1. PICK d : d = [creator[s] EXCEPT !.inProgress = FALSE, !.batch = FALSE]
    OBVIOUS
  <2>2. creator' = [creator EXCEPT ![s] = d]
    BY <1>2, <2>1, CreatorIs
  <2>3. d.containers = creator[s].containers
    BY <2>1, CreatorIs DEF Creators
  <2>4. QED  BY <2>2, <2>3, CreatorIs
<1>10. QED  BY <1>2, <1>8, <1>9 DEF PartsTogether, PartsIn

\* With a folder goes all that is below it: what stays has its parent.
LEMMA DeleteFolderTogether ==
    ASSUME TypeOK, PartsTogether, NEW f \in Folders, DeleteFolder(f)
    PROVE  PartsTogether'
<1>1. /\ folders' = folders \ {f} /\ rows' = rows \ Below(f)
      /\ creator' = creator /\ reused' = reused
  BY DEF DeleteFolder
<1>2. ASSUME NEW r \in rows'
      PROVE  r.parent \in folders' \cup IdsIn(rows')
  <2>1. r \in rows /\ r \notin Below(f)
    BY <1>1
  <2>2. PICK S \in SUBSET rows :
           /\ \A q \in rows : q.parent \in {f} \cup IdsIn(S) => q \in S
           /\ r \notin S
    BY <2>1 DEF Below
  <2>3. r.parent # f /\ r.parent \notin IdsIn(S)
    BY <2>1, <2>2
  <2>4. CASE r.parent \in folders
    BY <1>1, <2>3, <2>4
  <2>5. CASE r.parent \in IdsIn(rows)
    <3>1. PICK q \in rows : q.id = r.parent
      BY <2>5 DEF IdsIn
    <3>2. q \notin S
      BY <2>3, <3>1 DEF IdsIn
    <3>3. q \in rows'
      BY <1>1, <2>2, <3>1, <3>2 DEF Below
    <3>4. QED  BY <3>1, <3>3 DEF IdsIn
  <2>6. QED  BY <2>1, <2>4, <2>5 DEF PartsTogether, MessagesWhole
<1>3. MessagesWhole'
  BY <1>2 DEF MessagesWhole
<1>4. QED  BY <1>1, <1>3 DEF PartsTogether, PartsIn

\* Every step keeps messages and their parts together.
LEMMA TogetherStep ==
    ASSUME TypeOK, PartsTogether, [Next]_vars
    PROVE  PartsTogether'
<1>1. ASSUME NEW s \in Sessions, NEW f \in Folders, CreateMessage(s, f) PROVE PartsTogether'
  <2>1. PICK before : before = IF creator[s].batch THEN creator[s] ELSE Idle
    OBVIOUS
  <2>2. PICK ids : ids = WithBlock(before.ids)
    OBVIOUS
  <2>3. PICK c : c = [before EXCEPT !.inProgress = TRUE]
    OBVIOUS
  <2>4. /\ nextId + Block - 1 <= MaxId /\ AddRequestL(s, c, ids, "message", f)
        /\ rows' = rows /\ folders' = folders /\ reused' = reused
    BY <1>1, <2>1, <2>2, <2>3 DEF CreateMessage
  <2>5. before \in Creators /\ PartsIn(before.containers) /\ before.ids \in Seq(Ids)
    <3>1. PartsIn(Idle.containers)
      BY IdleIs, EmptySeq DEF PartsIn, RangeOf
    <3>2. QED  BY <2>1, <3>1, IdleIs, CreatorIs DEF PartsTogether, Creators
  <2>6. c \in Creators /\ c.containers = before.containers
    BY <2>3, <2>5 DEF Creators
  <2>7. ids \in Seq(Ids) /\ ids # <<>>
    BY <2>2, <2>4, <2>5, BlockTaken
  <2>8. "message" \in Kinds /\ f \in Ids \cup Folders
    BY DEF Kinds
  <2>9. QED  BY <2>4, <2>5, <2>6, <2>7, <2>8, AddedTogether
<1>2. ASSUME NEW s \in Sessions, NEW id \in Ids, CreatePart(s, id) PROVE PartsTogether'
  <2>1. PICK ids : ids = WithOne(creator[s].ids)
    OBVIOUS
  <2>2. /\ id \in Buffered(s) /\ RangeOf(ids) \subseteq Ids
        /\ AddRequestL(s, creator[s], ids, "part", id)
        /\ rows' = rows /\ folders' = folders /\ reused' = reused
    BY <1>2, <2>1 DEF CreatePart, ghost
  <2>3. id \in IdsIn(RangeOf(creator[s].containers))
    BY <2>2 DEF Buffered
  <2>4. ids \in Seq(Ids) /\ ids # <<>>
    BY <2>1, <2>2, CreatorIs, OneTaken
  <2>5. creator[s] \in Creators /\ PartsIn(creator[s].containers)
    BY CreatorIs DEF PartsTogether
  <2>6. "part" \in Kinds /\ id \in Ids \cup Folders
    BY DEF Kinds
  <2>7. QED  BY <2>2, <2>3, <2>4, <2>5, <2>6, AddedTogether
<1>3. ASSUME NEW s \in Sessions, NEW next \in {Idle, [Idle EXCEPT !.batch = TRUE]},
             Drop(s, next)
      PROVE  PartsTogether'
  <2>1. /\ creator' = [creator EXCEPT ![s] = next]
        /\ rows' = rows /\ folders' = folders /\ reused' = reused
    BY <1>3 DEF Drop, store
  <2>2. next.containers = <<>>
    BY IdleIs
  <2>3. QED  BY <2>1, <2>2, DroppedTogether
<1>4. ASSUME NEW s \in Sessions, BeginBatchInsert(s) \/ AbandonMessage(s) \/ ContentFails(s)
      PROVE  PartsTogether'
  BY <1>3, <1>4 DEF BeginBatchInsert, AbandonMessage, ContentFails
<1>5. ASSUME NEW s \in Sessions, Commit(s) PROVE PartsTogether'
  BY <1>3, <1>5, CommitRowsTogether DEF Commit, CommitFails
<1>6. ASSUME NEW s \in Sessions, SessionEnds(s) PROVE PartsTogether'
  <2>1. /\ creator' = [creator EXCEPT ![s] = Idle]
        /\ rows' = rows /\ folders' = folders /\ reused' = reused
    BY <1>6 DEF SessionEnds, store
  <2>2. QED  BY <2>1, IdleIs, DroppedTogether
<1>7. CASE CommitEnds
  <2>1. /\ creator' = [creator EXCEPT ![committer] = Idle] /\ committer \in Sessions
        /\ rows' = rows /\ folders' = folders /\ reused' = reused
    BY <1>7, CommitterIs DEF CommitEnds, store
  <2>2. QED  BY <2>1, IdleIs, DroppedTogether
<1>8. CASE ServerEnds
  <2>1. /\ \A s \in Sessions : creator'[s] = Idle
        /\ rows' = rows /\ folders' = folders /\ reused' = reused
    BY <1>8 DEF ServerEnds, store
  <2>2. \A s \in Sessions : PartsIn(creator'[s].containers)
    BY <2>1, IdleIs, EmptySeq DEF PartsIn, RangeOf
  <2>3. QED  BY <2>1, <2>2 DEF PartsTogether, MessagesWhole, PartsIn
<1>9. CASE Wipe
  <2>1. creator' = creator /\ rows' = {}
    BY <1>9 DEF Wipe
  <2>2. QED  BY <2>1 DEF PartsTogether, MessagesWhole, PartsIn
<1>10. ASSUME NEW f \in Folders, DeleteFolder(f) PROVE PartsTogether'
  BY <1>10, DeleteFolderTogether
<1>11. ASSUME \/ MoveFile \/ UNCHANGED vars
              \/ \E s \in Sessions : \E id \in Ids : \E mode \in {"replace", "append", "prepend"} :
                    WriteContent(s, id, mode)
       PROVE  PartsTogether'
  <2>1. creator' = creator /\ rows' = rows /\ folders' = folders /\ reused' = reused
    BY <1>11 DEF MoveFile, WriteContent, vars, store, ghost
  <2>2. QED  BY <2>1 DEF PartsTogether, MessagesWhole, PartsIn
<1>12. QED
  BY <1>1, <1>2, <1>4, <1>5, <1>6, <1>7, <1>8, <1>9, <1>10, <1>11 DEF Next

\* A stored part has its parent in the store, and a stored message its folder, whatever
\* sessions buffer, drop and commit, folders are deleted, and the process ends.
THEOREM MessagesComeWhole == Spec => []MessagesWhole
<1>1. Init => PartsTogether
  BY IdleIs, EmptySeq DEF Init, PartsTogether, MessagesWhole, PartsIn, RangeOf
<1>2. Init => TypeOK
  BY TypeInit
<1>3. TypeOK /\ PartsTogether /\ [Next]_vars => TypeOK' /\ PartsTogether'
  BY TypeStep, TogetherStep
<1>4. PartsTogether => MessagesWhole
  BY DEF PartsTogether
<1>5. QED  BY <1>1, <1>2, <1>3, <1>4, PTL DEF Spec
=============================================================================
