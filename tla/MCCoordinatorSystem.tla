------------------------- MODULE MCCoordinatorSystem -------------------------
EXTENDS CoordinatorSystem, TLC

\* Neither subjects nor instances are told apart by any definition.
Symmetry == Permutations(Subject) \cup Permutations(Instance)
=============================================================================
