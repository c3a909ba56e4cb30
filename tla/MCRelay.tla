------------------------------ MODULE MCRelay ------------------------------
EXTENDS Relay, TLC

Symmetry == Permutations(Calls) \cup Permutations(Slots)
=============================================================================
