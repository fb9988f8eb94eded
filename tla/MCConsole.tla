------------------------------ MODULE MCConsole ------------------------------
EXTENDS Console, TLC

Threads == Permutations(Thread)
=============================================================================
