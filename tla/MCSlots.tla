------------------------------ MODULE MCSlots ------------------------------
EXTENDS Slots, TLC

Symmetry == Permutations(Admins) \cup Permutations(Requests)
=============================================================================
