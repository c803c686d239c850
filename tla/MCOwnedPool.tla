---------------------------- MODULE MCOwnedPool -----------------------------
\* Small instances of the pools of owner-bound notes.
EXTENDS OwnedPool, TLC

CONSTANTS o1, o2, k1, k2, settlement

MCContexts == {Zero, settlement}

\* Owners are interchangeable, and so are the keys drawn for new notes.
Symmetry == Permutations({o1, o2}) \cup Permutations({k1, k2})
=============================================================================
