------------------------------- MODULE MCMedia -------------------------------
\* A small instance of the media uploads for TLC.
EXTENDS Media, TLC

CONSTANTS u1, c1, c2, w1, w2

MCUploads == {u1}
MCCalls   == {c1, c2}
MCWorkers == {w1, w2}
MCWorker  == {w1}
MCCall    == {c1}
MCSymmetry == Permutations(MCCalls) \union Permutations(MCWorkers)
=============================================================================
