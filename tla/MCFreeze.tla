------------------------------ MODULE MCFreeze ------------------------------
(* Instances of Freeze for TLC.                                            *)
EXTENDS Freeze

CONSTANTS x, y

OneCircuit == <<x>>
TwoCircuits == <<x, y>>

Symmetry == Permutations(Acirs) \cup Permutations(Abis)
=============================================================================
