-------------------------- MODULE MCMessageCreator --------------------------
\* Small instances of MessageCreator: two sessions, which are alike.
EXTENDS MessageCreator, TLC

CONSTANTS s1, s2, inbox

Symmetry == Permutations({s1, s2})
=============================================================================
