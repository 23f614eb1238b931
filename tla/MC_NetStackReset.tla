-------------------------- MODULE MC_NetStackReset --------------------------
EXTENDS NetStackReset, TLC

\* Thread permutations are symmetric for the safety runs.
UserSymmetry == Permutations(UserThreads)
=============================================================================
