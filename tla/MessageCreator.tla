--------------------------- MODULE MessageCreator ---------------------------
(***************************************************************************)
(* How new messages get into the message store: each session of the server  *)
(* buffers the containers of a message, or of a batch of messages, in a     *)
(* CBufferedMessageCreator, and their contents in files of a directory that *)
(* all sessions share.  A commit writes the containers in one transaction   *)
(* and then moves the files to their places, one by one; the end of a       *)
(* message, whatever it is, empties the directory.                          *)
(*                                                                          *)
(* The server has one thread, so the steps of a commit interleave with      *)
(* nothing but the end of the process.  Encryption is off: with it nothing  *)
(* is buffered (ContainerStore models that path, and what a commit does to  *)
(* the counts and the sorting table).  Contents are sequences of the pieces *)
(* clients wrote, each with its own number.                                 *)
(***************************************************************************)
EXTENDS Integers, Sequences

CONSTANTS
    Sessions,           \* sessions of the server
    Folders,            \* ids of the predefined folders
    Block,              \* ids that are allocated for a message
    MaxId,              \* bound on ids
    MaxWrites,          \* bound on writes of contents
    MaxFaults,          \* bound on ends of the process, wipes and deletions of folders
    NoFile,             \* there is no such file
    Nobody              \* no session commits

ASSUME SizesType == Block \in Nat \ {0} /\ MaxId \in Nat /\ MaxWrites \in Nat /\ MaxFaults \in Nat
ASSUME FoldersAreNoIds == \A f \in Folders : f \notin Nat
ASSUME NoneType == NoFile \notin Seq(Nat) /\ Nobody \notin Sessions

VARIABLES
    folders,            \* folders in the store
    rows,               \* messages and parts that are committed
    nextId,             \* the next id in the general table
    content,            \* content file of each id
    files,              \* file of each id in the "uncommitted" directory
    creator,            \* iBufferedMessageCreator of each session
    committer,          \* the session whose commit is moving content files
    moving,             \* ids whose files it has still to move
    written,            \* what clients wrote as contents of the containers there are
    swept,              \* buffered ids whose files another session deleted
    lost,               \* stored ids whose files were not moved
    reused,             \* the ids began anew while a session held old ones, or a file was left
    writes, faults      \* counters of the bounds

store  == <<folders, rows, nextId>>
disk   == <<content, files>>
commit == <<committer, moving>>
ghost  == <<written, swept, lost, reused>>
bounds == <<writes, faults>>
vars   == <<store, disk, creator, commit, ghost, bounds>>

Ids == 1..MaxId
Kinds == {"message", "part"}
Containers == [id : Ids, kind : Kinds, parent : Ids \cup Folders]

Idle == [inProgress |-> FALSE, batch |-> FALSE, containers |-> <<>>, ids |-> <<>>]

RangeOf(s) == {s[i] : i \in 1..Len(s)}
IdsIn(cs) == {c.id : c \in cs}

\* IsContainerBuffered.
Buffered(s) == IF creator[s].inProgress THEN IdsIn(RangeOf(creator[s].containers)) ELSE {}

\* The server is between two requests.  What follows once ids are used again is left out.
Serving == committer = Nobody /\ ~reused

-----------------------------------------------------------------------------
(* Dropping what is buffered.                                               *)

\* What other sessions have written to files for the containers they buffer.
OfOthers(s) == {id \in Ids : /\ files[id] # NoFile
                             /\ \E t \in Sessions \ {s} : id \in Buffered(t)}

NoFiles == [id \in Ids |-> NoFile]
Without(f, ids) == [id \in Ids |-> IF id \in ids THEN NoFile ELSE f[id]]

\* ResetL empties the session's buffer, and the directory of all sessions.
ResetL(s) ==
    /\ files' = NoFiles
    /\ swept' = (swept \cup OfOthers(s)) \ Buffered(s)
    /\ written' = Without(written, Buffered(s))

-----------------------------------------------------------------------------
(* Buffering.                                                               *)

\* AllocateIdsBlockL and GetNextContainerIdL: the ids a session has, with a new block for
\* a message, and with one more if there is none left.
WithBlock(ids) == ids \o [i \in 1..Block |-> nextId + i - 1]
WithOne(ids)   == IF ids = <<>> THEN <<nextId>> ELSE ids
Taken(ids, all) == Len(all) - Len(ids)

\* Mutant of AddRequestL: the id that is used stays in the list.
AddRequestL_IdStays(s, c, ids, kind, parent) ==
    creator' = [creator EXCEPT ![s] =
        [c EXCEPT !.ids = ids,
                  !.containers = Append(@, [id |-> ids[1], kind |-> kind, parent |-> parent])]]

\* The first id of the list goes to a new container at the end of the buffer.
AddRequestL(s, c, ids, kind, parent) ==
    creator' = [creator EXCEPT ![s] =
        [c EXCEPT !.ids = Tail(ids),
                  !.containers = Append(@, [id |-> ids[1], kind |-> kind, parent |-> parent])]]

\* CreateMessageL of a client: outside of a batch the message in progress is discarded.
\* The folder is not looked at.
CreateMessage(s, folder) ==
    LET before == IF creator[s].batch THEN creator[s] ELSE Idle
        ids == WithBlock(before.ids)
    IN /\ Serving
       /\ nextId + Block - 1 <= MaxId /\ nextId' = nextId + Block
       /\ AddRequestL(s, [before EXCEPT !.inProgress = TRUE], ids, "message", folder)
       /\ IF creator[s].batch THEN UNCHANGED <<files, swept, written>> ELSE ResetL(s)
       /\ UNCHANGED <<folders, rows, content, commit, lost, reused, bounds>>

\* A part of a buffered container; others go to the store at once (ContainerStore).
CreatePart(s, parent) ==
    LET ids == WithOne(creator[s].ids)
    IN /\ Serving
       /\ parent \in Buffered(s)
       /\ RangeOf(ids) \subseteq Ids
       /\ nextId' = nextId + Taken(creator[s].ids, ids)
       /\ AddRequestL(s, creator[s], ids, "part", parent)
       /\ UNCHANGED <<folders, rows, disk, commit, ghost, bounds>>

\* What a write makes of a content: a file that is not there is created.
WrittenTo(old, mode, piece) ==
    IF mode = "replace" \/ old = NoFile THEN <<piece>>
    ELSE IF mode = "append" THEN Append(old, piece) ELSE <<piece>> \o old

\* ReplaceContentL, AppendContentL, PrependContentL of a buffered container.
WriteContent(s, id, mode) ==
    /\ Serving
    /\ id \in Buffered(s)
    /\ writes < MaxWrites /\ writes' = writes + 1
    /\ files' = [files EXCEPT ![id] = WrittenTo(@, mode, writes)]
    /\ written' = [written EXCEPT ![id] = WrittenTo(@, mode, writes)]
    /\ UNCHANGED <<store, content, creator, commit, swept, lost, reused, faults>>

\* The session drops its buffer: BeginBatchInsertL, which starts a batch; AbandonMessageL of
\* the first container, which batches do not support; or the content a client created a
\* part with could not be stored.
Drop(s, next) ==
    /\ Serving
    /\ creator' = [creator EXCEPT ![s] = next]
    /\ ResetL(s)
    /\ UNCHANGED <<store, content, commit, lost, reused, bounds>>

BeginBatchInsert(s) == Drop(s, [Idle EXCEPT !.batch = TRUE])

AbandonMessage(s) ==
    /\ ~creator[s].batch /\ Buffered(s) # {}
    /\ Drop(s, Idle)

ContentFails(s) == Buffered(s) # {} /\ Drop(s, Idle)

-----------------------------------------------------------------------------
(* Committing.                                                              *)

\* Mutant of HasParent: no parent is asked for.
HasParent_Unchecked(cs, i) == TRUE

\* The parent of the container at place i is there when it is created.
HasParent(cs, i) == cs[i].kind = "message" => cs[i].parent \in folders

\* The transaction of CommitMessagesImplL fails, for a folder that is gone or for any other
\* reason: nothing is stored, the buffer is dropped and the client is told.
CommitFails(s) == Drop(s, Idle)

\* It is committed: the containers are in the store, their files are not yet.
CommitRows(s, cs) ==
    /\ \A i \in 1..Len(cs) : HasParent(cs, i)
    /\ rows' = rows \cup RangeOf(cs)
    /\ creator' = [creator EXCEPT ![s].inProgress = FALSE, ![s].batch = FALSE]
    /\ committer' = s
    /\ moving' = [i \in 1..Len(cs) |-> cs[i].id]
    /\ UNCHANGED <<folders, nextId, disk, written, swept, lost, reused, bounds>>

\* CommitContainerL of a buffered container, which waits for the end of a batch, and the end
\* of a batch, which may come unasked.
Commit(s) ==
    /\ Serving
    /\ CommitRows(s, creator[s].containers) \/ CommitFails(s)

\* Mutant of MoveFile: the first file ends the loop.
MoveFile_FirstOnly ==
    /\ committer # Nobody /\ moving # <<>>
    /\ LET id == Head(moving)
       IN IF files[id] # NoFile
          THEN /\ content' = [content EXCEPT ![id] = files[id]]
               /\ files' = [files EXCEPT ![id] = NoFile]
               /\ moving' = <<>>
          ELSE moving' = Tail(moving) /\ UNCHANGED disk
    /\ UNCHANGED <<store, creator, committer, ghost, bounds>>

\* TransferContentFileL for the next container, if it has a file.
MoveFile ==
    /\ committer # Nobody /\ moving # <<>>
    /\ LET id == Head(moving)
       IN IF files[id] # NoFile
          THEN /\ content' = [content EXCEPT ![id] = files[id]]
               /\ files' = [files EXCEPT ![id] = NoFile]
          ELSE UNCHANGED disk
    /\ moving' = Tail(moving)
    /\ UNCHANGED <<store, creator, committer, ghost, bounds>>

Unmoved == {id \in RangeOf(moving) : files[id] # NoFile}

\* Mutant of CommitEnds: the buffer stays.
CommitEnds_BufferStays ==
    /\ committer # Nobody
    /\ moving # <<>> => files[Head(moving)] # NoFile
    /\ ResetL(committer)
    /\ lost' = lost \cup Unmoved
    /\ committer' = Nobody /\ moving' = <<>>
    /\ UNCHANGED <<store, content, creator, reused, bounds>>

\* All files are moved, or one could not be: ResetL, which deletes the others.
CommitEnds ==
    /\ committer # Nobody
    /\ moving # <<>> => files[Head(moving)] # NoFile
    /\ creator' = [creator EXCEPT ![committer] = Idle]
    /\ ResetL(committer)
    /\ lost' = lost \cup Unmoved
    /\ committer' = Nobody /\ moving' = <<>>
    /\ UNCHANGED <<store, content, reused, bounds>>

-----------------------------------------------------------------------------
(* What else happens.                                                       *)

\* The client ends: the destructor of the creator leaves the files.  A ResetL that leaves,
\* as it cannot read the directory, does the same when nothing is being committed.
SessionEnds(s) ==
    /\ Serving /\ creator[s] # Idle
    /\ creator' = [creator EXCEPT ![s] = Idle]
    /\ swept' = swept \ Buffered(s)
    /\ written' = Without(written, Buffered(s))
    /\ UNCHANGED <<store, disk, commit, lost, reused, bounds>>

Fault == faults < MaxFaults /\ faults' = faults + 1

\* The process ends at any time, and a new one starts.
ServerEnds ==
    /\ ~reused /\ Fault
    /\ creator' = [s \in Sessions |-> Idle]
    /\ swept' = swept \cap IdsIn(rows) /\ written' = Without(written, Ids \ IdsIn(rows))
    /\ lost' = lost \cup Unmoved
    /\ committer' = Nobody /\ moving' = <<>>
    /\ UNCHANGED <<store, disk, reused, writes>>

\* What goes with a folder: the messages in it, and the parts below these.
Below(f) ==
    {r \in rows :
        \A S \in SUBSET rows :
            (\A q \in rows : q.parent \in {f} \cup IdsIn(S) => q \in S) => r \in S}

\* A folder is deleted, with all that is below it (in the background: see ContainerStore).
DeleteFolder(f) ==
    /\ Serving /\ f \in folders /\ Fault
    /\ folders' = folders \ {f}
    /\ rows' = rows \ Below(f)
    /\ LET gone == IdsIn(rows \ rows')
       IN /\ content' = Without(content, gone) /\ written' = Without(written, gone)
          /\ swept' = swept \ gone /\ lost' = lost \ gone
    /\ UNCHANGED <<nextId, files, creator, commit, reused, writes>>

\* WipeEverything: a new database and no content files, but the sessions and the directory
\* stay as they are.
Wipe ==
    /\ Serving /\ Fault
    /\ folders' = Folders /\ rows' = {} /\ nextId' = 1
    /\ content' = NoFiles
    /\ reused' = (reused \/ files # NoFiles \/ \E s \in Sessions : creator[s] # Idle)
    /\ written' = NoFiles /\ swept' = {} /\ lost' = {}
    /\ UNCHANGED <<files, creator, commit, writes>>

-----------------------------------------------------------------------------
Init ==
    /\ folders = Folders /\ rows = {} /\ nextId = 1
    /\ content = NoFiles /\ files = NoFiles
    /\ creator = [s \in Sessions |-> Idle]
    /\ committer = Nobody /\ moving = <<>>
    /\ written = NoFiles /\ swept = {} /\ lost = {} /\ reused = FALSE
    /\ writes = 0 /\ faults = 0

Next ==
    \/ \E s \in Sessions :
          \/ \E f \in Folders : CreateMessage(s, f)
          \/ \E id \in Ids : CreatePart(s, id)
          \/ \E id \in Ids, mode \in {"replace", "append", "prepend"} : WriteContent(s, id, mode)
          \/ BeginBatchInsert(s) \/ AbandonMessage(s) \/ ContentFails(s)
          \/ Commit(s)
          \/ SessionEnds(s)
    \/ MoveFile \/ CommitEnds
    \/ ServerEnds \/ Wipe
    \/ \E f \in Folders : DeleteFolder(f)

Spec == Init /\ [][Next]_vars

-----------------------------------------------------------------------------
(* Properties.                                                              *)

Contents == Seq(Nat) \cup {NoFile}

\* Every variable keeps its type, and a session that buffers nothing has no containers.
TypeOK ==
    /\ folders \subseteq Folders /\ rows \subseteq Containers /\ nextId \in Nat \ {0}
    /\ content \in [Ids -> Contents] /\ files \in [Ids -> Contents]
    /\ creator \in [Sessions -> [inProgress : BOOLEAN, batch : BOOLEAN,
                                 containers : Seq(Containers), ids : Seq(Ids)]]
    /\ \A s \in Sessions \ {committer} : creator[s].inProgress <=> creator[s].containers # <<>>
    /\ committer \in Sessions \cup {Nobody} /\ moving \in Seq(Ids)
    /\ swept \subseteq Ids /\ lost \subseteq Ids /\ reused \in BOOLEAN
    /\ written \in [Ids -> Contents]
    /\ writes \in Nat /\ faults \in Nat

\* The ids that session s holds: those of its containers, unless these are in the store now,
\* and those it has still to give out.
IdsOf(cs) == [i \in 1..Len(cs) |-> cs[i].id]
Held(s) == IF s = committer THEN creator[s].ids
                            ELSE IdsOf(creator[s].containers) \o creator[s].ids

\* No two containers have the same id, stored or buffered in whatever session, and no id is
\* given out that was before: unless a wipe restarts the ids while some are in use
\* (AllocateIdsBlockL, GetNextContainerIdL, AddRequestL).
IdsUnique ==
    ~reused =>
        /\ \A r, q \in rows : r.id = q.id => r = q
        /\ \A s \in Sessions : \A i \in 1..Len(Held(s)) :
               /\ Held(s)[i] < nextId
               /\ \A r \in rows : r.id # Held(s)[i]
               /\ \A t \in Sessions : \A j \in 1..Len(Held(t)) :
                      Held(s)[i] = Held(t)[j] => s = t /\ i = j

\* The content of a stored container is what the client wrote for it, once its commit is
\* over, except for files that were not moved, of which the client or nobody is told.
ContentIntact(id) == id \in RangeOf(moving) \/ id \in lost \/ content[id] = written[id]

\* Whatever sessions write, drop and commit meanwhile, and wherever a commit ends, contents
\* come into the store whole: unless another session's ResetL deleted them before the commit
\* (CommitMessagesImplL, TransferContentFileL).
ContentKept == ~reused => \A r \in rows : r.id \in swept \/ ContentIntact(r.id)

\* The parent of a stored part is stored, as the folder of a stored message is: a commit
\* stores a message with all that was buffered for it, or nothing of it.
MessagesWhole == \A r \in rows : r.parent \in folders \cup IdsIn(rows)

=============================================================================
