---------------------------- MODULE MCMessenger -----------------------------
\* A small instance of the messenger for TLC: three people, two of whom are the
\* family at a time.
EXTENDS Messenger, TLC

CONSTANTS ann, bob, cyd, q1, q2, c1, c2

MCPeople   == {ann, bob, cyd}
MCRequests == {q1, q2}
MCConvs    == {c1, c2}
MCSymmetry == Permutations(MCPeople) \union Permutations(MCRequests)
              \union Permutations(MCConvs)
=============================================================================
