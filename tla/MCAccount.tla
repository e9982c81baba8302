----------------------------- MODULE MCAccount ------------------------------
\* A small instance of the account for TLC.
EXTENDS Account, TLC

CONSTANTS q1, q2, s1, s2, t1, t2, p1, p2, none

MCRequests == {q1, q2}
MCSessions == {s1, s2}
MCTokens   == {t1, t2}
MCPictures == {p1, p2}
MCSymmetry == Permutations(MCRequests) \union Permutations(MCSessions)
              \union Permutations(MCTokens) \union Permutations(MCPictures)
=============================================================================
