----------------------------- MODULE MCSchedules ----------------------------
\* A small instance of the schedules for TLC.
EXTENDS Schedules, TLC

CONSTANTS w1, w2, q1, q2, rent, dishes

MCWorkers  == {w1, w2}
MCRequests == {q1, q2}
MCSymmetry == Permutations(MCWorkers) \union Permutations(MCRequests)
=============================================================================
