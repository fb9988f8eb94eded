---------------------------- MODULE MCLinkManager ----------------------------
EXTENDS LinkManager, TLC

\* Neither agents nor instances are told apart by any definition (the dict order
\* is a variable of its own).
Symmetry == Permutations(Subject) \cup Permutations(Instance)
=============================================================================
