----------------------------- MODULE MCOwnership -----------------------------
\* Two wallets, two senders and two L2 chains, interchangeable each.
EXTENDS Ownership, TLC

Symmetry == Permutations(Wallets) \cup Permutations(Senders) \cup Permutations(L2Chains)
=============================================================================
