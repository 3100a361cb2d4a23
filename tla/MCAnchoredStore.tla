-------------------------- MODULE MCAnchoredStore --------------------------
EXTENDS AnchoredStore, TLC

Symmetry == Permutations(Procs) \cup Permutations(Payloads)
=============================================================================
