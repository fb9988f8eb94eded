--------------------------- MODULE MCMissionManager ---------------------------
EXTENDS MissionManager, TLC

\* Missions, instances and agents are not told apart by any definition.
Symmetry == Permutations(Subject) \cup Permutations(Instance) \cup Permutations(Agent)
=============================================================================
