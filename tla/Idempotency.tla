---------------------------- MODULE Idempotency -----------------------------
(***************************************************************************)
(* The opt-in Idempotency-Key interceptor (common/idempotency, ADR 0004)   *)
(* around a use case that commits its change and then does more work, as   *)
(* FamilyEventsService.create does when it notifies the family after the   *)
(* insert.                                                                 *)
(*                                                                         *)
(* Each query of the interceptor is a step of its own, so that the copies  *)
(* of a retried request interleave at every await.  A key stands for the   *)
(* (user, scope, key) triple of the unique index, a hash for the body and  *)
(* the route parameters, and the 24 hours of a reservation for the one     *)
(* comparison made with them: expired.                                     *)
(***************************************************************************)
EXTENDS Naturals, FiniteSets

CONSTANTS
  Requests,      \* HTTP requests that carry a key
  Keys,
  Key, Hash,     \* of each request
  MaxExpiries,   \* bound: reservations that expire
  NoRecord, NoRequest

\* by = NoRequest while the status is PROCESSING; a record is named by the
\* request that inserted it.
Records == [id : Requests, hash : {Hash[r] : r \in Requests},
            by : Requests \union {NoRequest}, expired : BOOLEAN]

ASSUME IdempotencyAssumption ==
  /\ IsFiniteSet(Requests)
  /\ Key \in [Requests -> Keys]
  /\ NoRequest \notin Requests
  /\ NoRecord \notin Records
  /\ MaxExpiries \in Nat

VARIABLES
  record,    \* the IdempotencyRecord of each key
  pc,        \* where each request is
  seen,      \* the existing record that a request has read
  mine,      \* id of the record that a request has reserved
  reply,     \* the HTTP answer
  replayed,  \* the request whose stored response was replayed
  effects,   \* history: requests whose domain change is committed
  late,      \* history: of these, the ones that the use case answered with an error
  expiries,  \* history: how often the reservation of a key expired
  overrun    \* history: keys whose reservation expired under a running request

local   == <<seen, mine>>
answer  == <<reply, replayed>>
history == <<effects, late, expiries, overrun>>
vars    == <<record, pc, local, answer, history>>

Labels  == {"new", "conflict", "reclaim", "run", "rest", "undo", "save", "done"}
Owning  == {"run", "rest", "undo", "save"}
Replies == {"none", "ok", "replay", "reused", "inProgress", "error", "gone"}

Init ==
  /\ record   = [k \in Keys |-> NoRecord]
  /\ pc       = [r \in Requests |-> "new"]
  /\ seen     = [r \in Requests |-> NoRecord]
  /\ mine     = [r \in Requests |-> NoRequest]
  /\ reply    = [r \in Requests |-> "none"]
  /\ replayed = [r \in Requests |-> NoRequest]
  /\ effects  = {}
  /\ late     = {}
  /\ expiries = [k \in Keys |-> 0]
  /\ overrun  = {}

Goto(r, label) == pc' = [pc EXCEPT ![r] = label]

Finish(r, answered) == /\ Goto(r, "done")
                       /\ reply' = [reply EXCEPT ![r] = answered]

(***************************************************************************)
(* reserve.                                                                *)
(***************************************************************************)

\* The unique index admits one record for a key.
Reserve(r) ==
  LET k == Key[r] IN
  /\ pc[r] = "new"
  /\ IF record[k] = NoRecord
     THEN /\ record' = [record EXCEPT ![k] =
               [id |-> r, hash |-> Hash[r], by |-> NoRequest, expired |-> FALSE]]
          /\ mine' = [mine EXCEPT ![r] = r]
          /\ Goto(r, "run")
     ELSE /\ Goto(r, "conflict")
          /\ UNCHANGED <<record, mine>>
  /\ UNCHANGED <<seen, answer, history>>

\* Mutant: the request hash is not compared.
Existing_NoHash(r, e) ==
  IF e.by # NoRequest
  THEN /\ Finish(r, "replay")
       /\ replayed' = [replayed EXCEPT ![r] = e.by]
  ELSE Finish(r, "inProgress") /\ UNCHANGED replayed

\* What intercept answers when the record e belongs to another request.
Existing(r, e) ==
  \/ e.hash # Hash[r] /\ Finish(r, "reused") /\ UNCHANGED replayed
  \/ /\ e.hash = Hash[r] /\ e.by # NoRequest
     /\ Finish(r, "replay")
     /\ replayed' = [replayed EXCEPT ![r] = e.by]
  \/ /\ e.hash = Hash[r] /\ e.by = NoRequest
     /\ Finish(r, "inProgress") /\ UNCHANGED replayed

\* findUniqueOrThrow: the record may have been deleted since the insert failed.
Read(r) ==
  LET e == record[Key[r]] IN
  /\ pc[r] = "conflict"
  /\ \/ e = NoRecord /\ Finish(r, "gone") /\ UNCHANGED <<seen, replayed>>
     \/ e # NoRecord /\ ~e.expired /\ Existing(r, e) /\ UNCHANGED seen
     \/ /\ e # NoRecord /\ e.expired
        /\ Goto(r, "reclaim")
        /\ seen' = [seen EXCEPT ![r] = e]
        /\ UNCHANGED answer
  /\ UNCHANGED <<record, mine, history>>

\* Mutant: the record is reclaimed by its id alone.
Reclaimable_ById(r) == LET e == record[Key[r]] IN e # NoRecord /\ e.id = seen[r].id

Reclaimable(r) ==
  LET e == record[Key[r]] IN e # NoRecord /\ e.id = seen[r].id /\ e.expired

\* A conditional update takes the expired record over under its old id.
Reclaim(r) ==
  LET e == record[Key[r]] IN
  /\ pc[r] = "reclaim"
  /\ Reclaimable(r)
  /\ record' = [record EXCEPT ![Key[r]] =
       [id |-> e.id, hash |-> Hash[r], by |-> NoRequest, expired |-> FALSE]]
  /\ mine' = [mine EXCEPT ![r] = e.id]
  /\ Goto(r, "run")
  /\ UNCHANGED <<seen, answer, history>>

\* Another request was faster: the answer comes from the record as it was read.
ReclaimLost(r) ==
  /\ pc[r] = "reclaim"
  /\ ~Reclaimable(r)
  /\ Existing(r, seen[r])
  /\ UNCHANGED <<record, local, history>>

(***************************************************************************)
(* The use case.                                                           *)
(***************************************************************************)

Refuse(r) ==
  /\ pc[r] = "run"
  /\ Goto(r, "undo")
  /\ UNCHANGED <<record, local, answer, history>>

Commit(r) ==
  /\ pc[r] = "run"
  /\ effects' = effects \union {r}
  /\ Goto(r, "rest")
  /\ UNCHANGED <<record, local, answer, late, expiries, overrun>>

\* The notification runs in a transaction of its own, which may fail.
RestFails(r) ==
  /\ pc[r] = "rest"
  /\ late' = late \union {r}
  /\ Goto(r, "undo")
  /\ UNCHANGED <<record, local, answer, effects, expiries, overrun>>

Return(r) ==
  /\ pc[r] = "rest"
  /\ Goto(r, "save")
  /\ UNCHANGED <<record, local, answer, history>>

(***************************************************************************)
(* The end of intercept.                                                   *)
(***************************************************************************)

Owns(r) == record[Key[r]] # NoRecord /\ record[Key[r]].id = mine[r]

\* The use case threw: the reservation is deleted by its id.
Undo(r) ==
  /\ pc[r] = "undo"
  /\ record' = [record EXCEPT ![Key[r]] = IF Owns(r) THEN NoRecord ELSE @]
  /\ Finish(r, "error")
  /\ UNCHANGED <<local, replayed, history>>

\* The response is stored by id; without such a record the update throws.
Save(r) ==
  /\ pc[r] = "save"
  /\ IF Owns(r)
     THEN /\ record' = [record EXCEPT ![Key[r]].by = r]
          /\ Finish(r, "ok")
     ELSE Finish(r, "error") /\ UNCHANGED record
  /\ UNCHANGED <<local, replayed, history>>

\* Mutant: a failing request always deletes its reservation.
Fail_Undo(r) ==
  /\ pc[r] \notin {"new", "done"}
  /\ record' = [record EXCEPT ![Key[r]] = IF Owns(r) THEN NoRecord ELSE @]
  /\ Finish(r, "error")
  /\ UNCHANGED <<local, replayed, history>>

\* A query of the interceptor fails, or the process dies: the record stays.
Fail(r) ==
  /\ pc[r] \notin {"new", "done"}
  /\ Finish(r, "error")
  /\ UNCHANGED <<record, local, replayed, history>>

\* 24 hours have passed.
Expire(k) ==
  /\ record[k] # NoRecord
  /\ ~record[k].expired
  /\ expiries[k] < MaxExpiries
  /\ record'   = [record EXCEPT ![k].expired = TRUE]
  /\ expiries' = [expiries EXCEPT ![k] = @ + 1]
  /\ overrun'  = IF \E r \in Requests : Key[r] = k /\ pc[r] \in Owning
                 THEN overrun \union {k} ELSE overrun
  /\ UNCHANGED <<pc, local, answer, effects, late>>

Next ==
  \/ \E r \in Requests : \/ Reserve(r) \/ Read(r) \/ Reclaim(r) \/ ReclaimLost(r)
                         \/ Refuse(r) \/ Commit(r) \/ RestFails(r) \/ Return(r)
                         \/ Undo(r) \/ Save(r) \/ Fail(r)
  \/ \E k \in Keys : Expire(k)

Spec == Init /\ [][Next]_vars

-----------------------------------------------------------------------------
(***************************************************************************)
(* Properties.                                                             *)
(***************************************************************************)

\* The shape of the records and of the requests; a request about to reclaim has
\* read a record.
TypeOK ==
  /\ record   \in [Keys -> Records \union {NoRecord}]
  /\ pc       \in [Requests -> Labels]
  /\ seen     \in [Requests -> Records \union {NoRecord}]
  /\ mine     \in [Requests -> Requests \union {NoRequest}]
  /\ reply    \in [Requests -> Replies]
  /\ replayed \in [Requests -> Requests \union {NoRequest}]
  /\ effects  \subseteq Requests
  /\ late     \subseteq effects
  /\ expiries \in [Keys -> 0 .. MaxExpiries]
  /\ overrun  \subseteq Keys
  /\ \A r \in Requests : pc[r] = "reclaim" => seen[r] # NoRecord

\* Of the requests with one key at most one is inside the use case, and it owns
\* the record of that key, unless the reservation expired under it.
ExclusiveRun ==
  \A r \in Requests : pc[r] \in Owning /\ Key[r] \notin overrun =>
    /\ Owns(r)
    /\ \A q \in Requests \ {r} : Key[q] = Key[r] => pc[q] \notin Owning

\* A replayed response is that of an identical request whose change is committed.
ReplayIsGenuine ==
  \A r \in Requests : reply[r] = "replay" /\ Key[r] \notin overrun =>
    /\ replayed[r] \in effects \ late
    /\ Key[replayed[r]] = Key[r]
    /\ Hash[replayed[r]] = Hash[r]

\* A repeated change is always paid for by an expired reservation or by a use
\* case that failed after its commit; a crash or a response that could not be
\* stored never causes one (ADR 0004).
RepeatsAccounted ==
  \A k \in Keys :
    Cardinality({r \in effects : Key[r] = k})
      <= 1 + expiries[k] + Cardinality({r \in late : Key[r] = k})

\* A stored response stays as it is until it expires.
CompletedIsKept ==
  [][\A k \in Keys \ overrun :
       LET e == record[k] IN
       e # NoRecord /\ e.by # NoRequest /\ ~e.expired =>
         record'[k] # NoRecord /\ [record'[k] EXCEPT !.expired = FALSE] = e]_vars

=============================================================================
