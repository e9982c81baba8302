---------------------------- MODULE MCIdempotency ---------------------------
\* A request, its retries and a different request under the same key.
EXTENDS Idempotency, TLC

CONSTANTS first, retry, again, other

MCKey  == [r \in Requests |-> 1]
MCHash == [r \in Requests |-> IF r = other THEN "h2" ELSE "h1"]

\* The copies of the first request are interchangeable.
MCSymmetry == Permutations({first, retry, again})
=============================================================================
