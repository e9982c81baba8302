------------------------------ MODULE OnceOnly ------------------------------
(***************************************************************************)
(* What a keyed command interface promises its clients, without saying how *)
(* it is kept: under one identity at most one request is ever executed,    *)
(* every successful answer under that identity names it, and a command is  *)
(* undone at most once.                                                    *)
(***************************************************************************)
CONSTANTS
  Requests,     \* calls of the interface, retries included
  Identity(_),  \* what makes two calls the same command
  Same(_, _),   \* the two calls carry the same payload
  Undoes(_),    \* the request a call undoes, or NoRequest
  NoRequest,
  Refusals,     \* answers other than an executed request
  Failure       \* the one of them that does not say whether it took effect

VARIABLES executed, answer
vars == <<executed, answer>>

Unanswered == "none"

Init == /\ executed = {}
        /\ answer = [r \in Requests |-> Unanswered]

Reply(r, a) == /\ answer[r] = Unanswered
               /\ answer' = [answer EXCEPT ![r] = a]

\* The first request under its identity takes effect.
TakeEffect(r) ==
  /\ \A q \in executed : Identity(q) # Identity(r)
  /\ Undoes(r) # NoRequest =>
       /\ Undoes(r) \in executed
       /\ Undoes(Undoes(r)) = NoRequest
       /\ \A q \in executed : Undoes(q) # Undoes(r)
  /\ executed' = executed \union {r}

Execute(r) == TakeEffect(r) /\ Reply(r, r)

\* It takes effect, but its caller is not told and can only repeat it.
ExecuteUnheard(r) == TakeEffect(r) /\ Reply(r, Failure)

\* A repeated request is answered with the one that took effect.
Repeat(r) ==
  /\ \E q \in executed : /\ Identity(q) = Identity(r)
                         /\ Same(q, r)
                         /\ Reply(r, q)
  /\ UNCHANGED executed

Refuse(r) ==
  /\ \E a \in Refusals : Reply(r, a)
  /\ UNCHANGED executed

Next == \E r \in Requests : Execute(r) \/ ExecuteUnheard(r) \/ Repeat(r) \/ Refuse(r)

Spec == Init /\ [][Next]_vars
=============================================================================
