------------------------------ MODULE MCFamily ------------------------------
\* Three people, two families and the calls whose interleavings matter.
EXTENDS Family, TLC

CONSTANTS ann, bob, cat,
          annBob, bobAnn, annCat, catBob,
          annLeaves, bobLeaves, annRequests, bobConfirms, annCancels, bobArchives, annRestores

MCSender    == [i \in Invites |-> IF i \in {annBob, annCat} THEN ann
                                  ELSE IF i = bobAnn THEN bob ELSE cat]
MCRecipient == [i \in Invites |-> IF i \in {annBob, catBob} THEN bob
                                  ELSE IF i = bobAnn THEN ann ELSE cat]
MCPrivate   == Invites \intersect {annCat, bobAnn}

MCCaller == [c \in Calls |-> IF c \in {annLeaves, annRequests, annCancels, annRestores}
                             THEN ann ELSE bob]
MCOp == [c \in Calls |->
  CASE c \in {annLeaves, bobLeaves} -> "leave"
    [] c = annRequests -> "request"
    [] c = bobConfirms -> "confirm"
    [] c = annCancels  -> "cancel"
    [] c = bobArchives -> "archive"
    [] OTHER           -> "restore"]
=============================================================================
