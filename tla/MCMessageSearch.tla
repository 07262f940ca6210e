-------------------------- MODULE MCMessageSearch --------------------------
\* Small instances of MessageSearch: two messages in two folders, which are searched
\* together, or the second one only.
EXTENDS MessageSearch, TLC

CONSTANTS s1, s2, m1, m2, f1, f2, x, y

MCFolderOf == (m1 :> f1) @@ (m2 :> f2)
MCFolderLists == {<<f1, f2>>, <<f2>>}
=============================================================================
