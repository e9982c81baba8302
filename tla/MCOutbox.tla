------------------------------ MODULE MCOutbox ------------------------------
\* Small instances of the outbox for TLC.
EXTENDS Outbox, TLC

CONSTANTS w1, w2

MCWorkers  == {w1, w2}
MCSymmetry == Permutations(MCWorkers)

\* One Telegram row ahead of one e-mail row; a push row behaves as the e-mail.
MCTwoKinds == [e \in Events |-> IF e = 1 THEN "TELEGRAM" ELSE "EMAIL"]
=============================================================================
