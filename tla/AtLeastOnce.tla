---------------------------- MODULE AtLeastOnce -----------------------------
(***************************************************************************)
(* What the outbox promises a producer: an accepted item is handed over at *)
(* least once before it is closed as delivered, is given up only after     *)
(* Limit failed attempts, and stays closed -- unless the item was          *)
(* contested, that is, two consumers worked on it at the same time.        *)
(***************************************************************************)
EXTENDS Naturals

CONSTANTS Items, Limit

VARIABLES
  state,      \* "none", "open", or the way the item was closed
  handed,     \* items that were handed over, or had nobody to go to
  failed,     \* failed attempts of each item
  contested   \* items that two consumers may have worked on at once

vars == <<state, handed, failed, contested>>

Closed == {"DELIVERED", "FAILED", "purged"}

Init ==
  /\ state     = [i \in Items |-> "none"]
  /\ handed    = {}
  /\ failed    = [i \in Items |-> 0]
  /\ contested = {}

Move(i, from, to) == /\ state[i] \in from
                     /\ state' = [state EXCEPT ![i] = to]

Accept(i) == /\ Move(i, {"none"}, "open")
             /\ UNCHANGED <<handed, failed, contested>>

\* A consumer tries the item: it may hand it over, fail, or both.
Attempt(i) ==
  /\ handed' \in {handed, handed \union {i}}
  /\ failed' \in {failed, [failed EXCEPT ![i] = @ + 1]}
  /\ state[i] # "none"
  /\ UNCHANGED <<state, contested>>

Deliver(i) == /\ i \in handed
              /\ Move(i, {"open"}, "DELIVERED")
              /\ UNCHANGED <<handed, failed, contested>>

GiveUp(i) == /\ failed[i] >= Limit
             /\ Move(i, IF i \in contested THEN {"open", "DELIVERED"} ELSE {"open"}, "FAILED")
             /\ UNCHANGED <<handed, failed, contested>>

Withdraw(i) == /\ Move(i, {"open"}, "purged")
               /\ UNCHANGED <<handed, failed, contested>>

Contest(i) == /\ state[i] = "open"
              /\ contested' = contested \union {i}
              /\ UNCHANGED <<state, handed, failed>>

Reopen(i) == /\ i \in contested
             /\ Move(i, {"DELIVERED", "FAILED"}, "open")
             /\ UNCHANGED <<handed, failed, contested>>

Next == \E i \in Items : \/ Accept(i) \/ Attempt(i) \/ Deliver(i) \/ GiveUp(i)
                         \/ Withdraw(i) \/ Contest(i) \/ Reopen(i)

Spec == Init /\ [][Next]_vars
=============================================================================
