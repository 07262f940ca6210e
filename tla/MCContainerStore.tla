-------------------------- MODULE MCContainerStore --------------------------
(* Small instances of the container store for TLC: one mailbox with its      *)
(* system folder, one more folder, and a few messages and parts.             *)
EXTENDS ContainerStore, TLC

CONSTANTS mb1, f1, f2, m1, m2, p1

OneMailBox  == {mb1}
AllOwned    == [c \in Folders \cup Messages |-> mb1]
FirstSystem == [mb \in MailBoxes |-> f1]

\* No folder is moved; a folder is moved below one that never moves, and back.
NoMoves     == {}
SomeMoves   == {<<f2, f1>>, <<f2, mb1>>}

MessageSymmetry == Permutations(Messages)
=============================================================================
