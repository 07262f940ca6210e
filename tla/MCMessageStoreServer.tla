------------------------ MODULE MCMessageStoreServer ------------------------
(* Small instances of the message store server for TLC.                      *)
EXTENDS MessageStoreServer, TLC

CONSTANTS s1, s2

AllStatuses == {"locked", "unlocked", "other", "undefined"}

SessionSymmetry == Permutations(Sessions)
=============================================================================
