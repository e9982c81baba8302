----------------------------- MODULE MCPresence -----------------------------
\* A small instance of the gateway for TLC: a person with two sockets.  The
\* signals of one person do not depend on those of others.
EXTENDS Presence, TLC

CONSTANTS phone, laptop

MCOwner == [s \in Sockets |-> "ann"]
=============================================================================
