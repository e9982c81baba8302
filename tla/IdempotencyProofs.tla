-------------------------- MODULE IdempotencyProofs -------------------------
(***************************************************************************)
(* Proofs about the interceptor, for any requests, keys and hashes.        *)
(*                                                                         *)
(* Neither ExclusiveRun nor ReplayIsGenuine is inductive: a stored         *)
(* response is trustworthy only because the request that stored it can no  *)
(* longer fail, a reclaim is exclusive only because nobody runs under an   *)
(* expired record, and a lost reclaim answers from a copy of the record    *)
(* that was read some queries ago.  Reserved adds exactly these facts.     *)
(***************************************************************************)
EXTENDS Idempotency, FiniteSetTheorems, TLAPS

\* A record's stored response comes from a finished request with the record's key
\* and hash, whose change is committed.
Genuine(e, k) ==
  e # NoRecord /\ e.by # NoRequest =>
    /\ e.by \in effects \ late
    /\ pc[e.by] = "done"
    /\ Key[e.by] = k
    /\ Hash[e.by] = e.hash

\* How far a request has come determines what it has committed.
Progress ==
  \A r \in Requests :
    /\ r \in effects => pc[r] \in {"rest", "undo", "save", "done"}
    /\ r \in late => pc[r] \in {"undo", "done"}
    /\ pc[r] \in {"rest", "save"} => r \in effects \ late

\* A running request owns a record that is fresh, open, and carries its hash.
Running ==
  \A r \in Requests : pc[r] \in Owning /\ Key[r] \notin overrun =>
    /\ record[Key[r]] # NoRecord
    /\ record[Key[r]].hash = Hash[r]
    /\ record[Key[r]].by = NoRequest
    /\ ~record[Key[r]].expired

Stored == \A k \in Keys \ overrun : Genuine(record[k], k)
Copied == \A r \in Requests : Key[r] \notin overrun => Genuine(seen[r], Key[r])

Replayed ==
  \A r \in Requests : reply[r] = "replay" /\ Key[r] \notin overrun =>
    /\ replayed[r] \in effects \ late
    /\ pc[replayed[r]] = "done"
    /\ Key[replayed[r]] = Key[r]
    /\ Hash[replayed[r]] = Hash[r]

\* A request that has no answer yet is still under way.
Unanswered == \A r \in Requests : reply[r] # "none" => pc[r] = "done"

Reserved == /\ Progress /\ Running /\ ExclusiveRun
            /\ Stored /\ Copied /\ Replayed /\ Unanswered

LEMMA KeyType == \A r \in Requests : Key[r] \in Keys
  BY IdempotencyAssumption

-----------------------------------------------------------------------------
(***************************************************************************)
(* Types.                                                                  *)
(***************************************************************************)

\* A record as reserve writes it.
LEMMA FreshRecord ==
  ASSUME NEW r \in Requests, NEW i \in Requests
  PROVE  [id |-> i, hash |-> Hash[r], by |-> NoRequest, expired |-> FALSE] \in Records
  BY DEF Records

\* A record after its response is stored, and after it has expired.
LEMMA UpdatedRecord ==
  ASSUME NEW e \in Records, NEW r \in Requests
  PROVE  /\ [e EXCEPT !.by = r] \in Records
         /\ [e EXCEPT !.by = r].hash = e.hash
         /\ [e EXCEPT !.by = r].by = r
         /\ [e EXCEPT !.by = r].expired = e.expired
         /\ [e EXCEPT !.by = r].id = e.id
         /\ [e EXCEPT !.expired = TRUE] \in Records
         /\ [e EXCEPT !.expired = TRUE].hash = e.hash
         /\ [e EXCEPT !.expired = TRUE].by = e.by
         /\ [e EXCEPT !.expired = TRUE].expired
         /\ [e EXCEPT !.expired = TRUE].id = e.id
  BY DEF Records

LEMMA ExistingType ==
  ASSUME TypeOK, NEW r \in Requests, NEW e \in Records, Existing(r, e)
  PROVE  /\ pc' \in [Requests -> Labels]
         /\ pc'[r] = "done"
         /\ \A q \in Requests \ {r} : pc'[q] = pc[q]
         /\ reply' \in [Requests -> Replies]
         /\ replayed' \in [Requests -> Requests \union {NoRequest}]
<1>1. pc' = [pc EXCEPT ![r] = "done"]
  BY DEF Existing, Finish, Goto
<1>2. reply' \in [Requests -> Replies]
  BY DEF Existing, Finish, TypeOK, Replies
<1>3. e.by \in Requests \union {NoRequest}
  BY DEF Records
<1>4. replayed' \in [Requests -> Requests \union {NoRequest}]
  BY <1>3 DEF Existing, TypeOK
<1>5. QED
  BY <1>1, <1>2, <1>4 DEF TypeOK, Labels

\* Type correctness of a step.
LEMMA TypeStep == TypeOK /\ Progress /\ [Next]_vars => TypeOK'
<1> SUFFICES ASSUME TypeOK, Progress, [Next]_vars PROVE TypeOK'
  OBVIOUS
<1> USE IdempotencyAssumption, KeyType
<1>1. ASSUME NEW r \in Requests, Reserve(r) PROVE TypeOK'
  <2>1. record' \in [Keys -> Records \union {NoRecord}]
    BY <1>1, FreshRecord DEF Reserve, TypeOK
  <2>2. QED
    BY <1>1, <2>1 DEF Reserve, TypeOK, Goto, Labels, answer, history
<1>2. ASSUME NEW r \in Requests, Read(r) PROVE TypeOK'
  <2> DEFINE e == record[Key[r]]
  <2>1. e \in Records \union {NoRecord}
    BY DEF TypeOK
  <2>2. CASE e = NoRecord
    BY <1>2, <2>2 DEF Read, TypeOK, Finish, Goto, Labels, Replies, history
  <2>3. CASE e # NoRecord /\ ~e.expired
    <3>1. e \in Records /\ Existing(r, e) /\ UNCHANGED <<seen, record, mine, history>>
      BY <1>2, <2>1, <2>3 DEF Read
    <3>2. QED
      BY <3>1, ExistingType DEF TypeOK, history
  <2>4. CASE e # NoRecord /\ e.expired
    BY <1>2, <2>1, <2>4 DEF Read, TypeOK, Goto, Labels, answer, history
  <2>5. QED
    BY <2>2, <2>3, <2>4
<1>3. ASSUME NEW r \in Requests, Reclaim(r) PROVE TypeOK'
  <2>1. record[Key[r]] \in Records
    BY <1>3 DEF Reclaim, Reclaimable, TypeOK
  <2>2. record[Key[r]].id \in Requests
    BY <2>1 DEF Records
  <2>3. record' \in [Keys -> Records \union {NoRecord}]
    BY <1>3, <2>2, FreshRecord DEF Reclaim, TypeOK
  <2>4. QED
    BY <1>3, <2>2, <2>3 DEF Reclaim, TypeOK, Goto, Labels, answer, history
<1>4. ASSUME NEW r \in Requests, ReclaimLost(r) PROVE TypeOK'
  <2>1. seen[r] \in Records
    BY <1>4 DEF ReclaimLost, TypeOK
  <2>2. QED
    BY <1>4, <2>1, ExistingType DEF ReclaimLost, TypeOK, local, history
<1>5. ASSUME NEW r \in Requests, Refuse(r) \/ Commit(r) \/ Return(r) PROVE TypeOK'
  BY <1>5 DEF Refuse, Commit, Return, TypeOK, Goto, Labels, local, answer, history
<1>6. ASSUME NEW r \in Requests, RestFails(r) PROVE TypeOK'
  BY <1>6 DEF Progress, RestFails, TypeOK, Goto, Labels, local, answer
<1>7. ASSUME NEW r \in Requests, Undo(r) \/ Fail(r) PROVE TypeOK'
  BY <1>7 DEF Undo, Fail, TypeOK, Finish, Goto, Labels, Replies, local, history
<1>8. ASSUME NEW r \in Requests, Save(r) PROVE TypeOK'
  <2>1. record' \in [Keys -> Records \union {NoRecord}]
    <3>1. CASE Owns(r)
      <4>1. record[Key[r]] \in Records
        BY <3>1 DEF Owns, TypeOK
      <4>2. [record[Key[r]] EXCEPT !.by = r] \in Records
        BY <4>1, UpdatedRecord
      <4>3. record' = [record EXCEPT ![Key[r]] = [record[Key[r]] EXCEPT !.by = r]]
        BY <1>8, <3>1 DEF Save
      <4>4. QED
        BY <4>2, <4>3 DEF TypeOK
    <3>2. CASE ~Owns(r)
      BY <1>8, <3>2 DEF Save, TypeOK
    <3>3. QED
      BY <3>1, <3>2
  <2>2. QED
    BY <1>8, <2>1 DEF Save, TypeOK, Finish, Goto, Labels, Replies, local, history
<1>9. ASSUME NEW k \in Keys, Expire(k) PROVE TypeOK'
  <2>1. record[k] \in Records
    BY <1>9 DEF Expire, TypeOK
  <2>2. record' \in [Keys -> Records \union {NoRecord}]
    <3> DEFINE e == [record[k] EXCEPT !.expired = TRUE]
    <3>1. e \in Records
      <4>1. PICK r \in Requests : TRUE
        BY <2>1 DEF Records
      <4>2. QED
        BY <2>1, <4>1, UpdatedRecord
    <3>2. record' = [record EXCEPT ![k] = e]
      BY <1>9 DEF Expire
    <3> HIDE DEF e
    <3>3. QED
      BY <3>1, <3>2 DEF TypeOK
  <2>3. expiries' \in [Keys -> 0 .. MaxExpiries]
    BY <1>9 DEF Expire, TypeOK
  <2>4. overrun' \subseteq Keys
    BY <1>9 DEF Expire, TypeOK
  <2>5. QED
    BY <1>9, <2>2, <2>3, <2>4 DEF Expire, TypeOK, local, answer
<1>10. CASE UNCHANGED vars
  BY <1>10 DEF TypeOK, vars, local, answer, history
<1>11. QED
  BY <1>1, <1>2, <1>3, <1>4, <1>5, <1>6, <1>7, <1>8, <1>9, <1>10 DEF Next

\* A request that reserves or reclaims a record, while nobody else runs under it,
\* becomes its only owner.
LEMMA TakesOver ==
  ASSUME TypeOK, Running, ExclusiveRun, NEW r \in Requests, NEW i \in Requests,
         record' = [record EXCEPT ![Key[r]] =
           [id |-> i, hash |-> Hash[r], by |-> NoRequest, expired |-> FALSE]],
         mine' = [mine EXCEPT ![r] = i], Goto(r, "run"), UNCHANGED overrun,
         \A q \in Requests : Key[q] = Key[r] /\ pc[q] \in Owning => Key[r] \in overrun
  PROVE  Running' /\ ExclusiveRun'
<1> USE KeyType
<1> DEFINE k == Key[r]
           e == [id |-> i, hash |-> Hash[r], by |-> NoRequest, expired |-> FALSE]
<1>1. e # NoRecord /\ e.id = i /\ e.hash = Hash[r] /\ e.by = NoRequest /\ ~e.expired
  BY FreshRecord, IdempotencyAssumption
<1>2. record' = [record EXCEPT ![k] = e]
  OBVIOUS
<1>3. pc'[r] = "run" /\ \A q \in Requests \ {r} : pc'[q] = pc[q]
  BY DEF Goto, TypeOK
<1> HIDE DEF e
<1>4. record'[k] = e /\ \A j \in Keys \ {k} : record'[j] = record[j]
  BY <1>2 DEF TypeOK
<1>5. \A q \in Requests \ {r} : pc'[q] \in Owning /\ Key[q] \notin overrun => Key[q] # k
  BY <1>3
<1>6. Running'
  <2> SUFFICES ASSUME NEW q \in Requests, pc'[q] \in Owning, Key[q] \notin overrun
               PROVE  /\ record'[Key[q]] # NoRecord
                      /\ record'[Key[q]].hash = Hash[q]
                      /\ record'[Key[q]].by = NoRequest
                      /\ ~record'[Key[q]].expired
    BY DEF Running
  <2>1. CASE q = r
    BY <1>1, <1>4, <2>1
  <2>2. CASE q # r
    <3>1. pc[q] \in Owning /\ record'[Key[q]] = record[Key[q]]
      BY <1>3, <1>4, <1>5, <2>2
    <3>2. QED
      BY <3>1 DEF Running
  <2>3. QED
    BY <2>1, <2>2
<1>7. mine'[r] = i /\ \A q \in Requests \ {r} : mine'[q] = mine[q]
  BY DEF TypeOK
<1>8. ExclusiveRun'
  <2> SUFFICES ASSUME NEW q \in Requests, pc'[q] \in Owning, Key[q] \notin overrun
               PROVE  /\ Owns(q)'
                      /\ \A p \in Requests \ {q} : Key[p] = Key[q] => pc'[p] \notin Owning
    BY DEF ExclusiveRun
  <2>1. CASE q = r
    <3>1. Owns(q)'
      BY <1>1, <1>4, <1>7, <2>1 DEF Owns
    <3>2. QED
      BY <1>5, <2>1, <3>1
  <2>2. CASE q # r
    <3>1. pc[q] \in Owning /\ Key[q] # k /\ record'[Key[q]] = record[Key[q]]
      BY <1>3, <1>4, <1>5, <2>2
    <3>2. Owns(q)'
      BY <1>7, <2>2, <3>1 DEF ExclusiveRun, Owns
    <3>3. \A p \in Requests \ {q} : Key[p] = Key[q] => p # r /\ pc[p] \notin Owning
      BY <3>1 DEF ExclusiveRun
    <3>4. QED
      BY <1>3, <3>2, <3>3
  <2>3. QED
    BY <2>1, <2>2
<1>9. QED
  BY <1>6, <1>8

\* A request that is answered from a genuine record is answered genuinely.
LEMMA ExistingReplay ==
  ASSUME TypeOK, Replayed, NEW r \in Requests, NEW e \in Records, pc[r] # "done",
         Existing(r, e), Key[r] \notin overrun => Genuine(e, Key[r]),
         IdempotencyAssumption, e # NoRecord, UNCHANGED <<effects, late, overrun>>
  PROVE  Replayed'
<1>1. pc'[r] = "done" /\ \A q \in Requests \ {r} : pc'[q] = pc[q]
  BY ExistingType
<1>2. \A q \in Requests \ {r} : reply'[q] = reply[q] /\ replayed'[q] = replayed[q]
  BY DEF Existing, Finish, TypeOK
<1>3. reply'[r] = "replay" => /\ e.hash = Hash[r] /\ e.by # NoRequest
                              /\ replayed'[r] = e.by
  BY DEF Existing, Finish, TypeOK
<1>4. late \subseteq Requests /\ effects \subseteq Requests
  BY DEF TypeOK
<1>5. QED
  BY <1>1, <1>2, <1>3, <1>4 DEF Replayed, Genuine

LEMMA ReservedStep == TypeOK /\ TypeOK' /\ Reserved /\ [Next]_vars => Reserved'
<1> SUFFICES ASSUME TypeOK, TypeOK', Reserved, [Next]_vars PROVE Reserved'
  OBVIOUS
<1> USE IdempotencyAssumption, KeyType
<1>1. ASSUME NEW r \in Requests, Reserve(r) PROVE Reserved'
  <2>1. Progress'
    BY <1>1 DEF Progress, Reserved, TypeOK, Owning, Reserve, Goto, local, answer, history
  <2>2. Running' /\ ExclusiveRun'
    <3>1. CASE record[Key[r]] = NoRecord
      <4>1. \A q \in Requests : Key[q] = Key[r] /\ pc[q] \in Owning => Key[r] \in overrun
        BY <3>1 DEF Reserved, Running
      <4>2. QED
        BY <1>1, <3>1, <4>1, TakesOver DEF Reserve, Reserved, history
    <3>2. CASE record[Key[r]] # NoRecord
      BY <1>1, <3>2 DEF Reserve, Reserved, Running, ExclusiveRun, Owns, Goto, Owning,
                        TypeOK, history
    <3>3. QED
      BY <3>1, <3>2
  <2>4. Stored'
    BY <1>1 DEF Stored, Reserved, TypeOK, Owning, Reserve, Goto, local, answer, history, Genuine
  <2>5. Copied'
    BY <1>1 DEF Copied, Reserved, TypeOK, Owning, Reserve, Goto, local, answer, history, Genuine
  <2>6. Replayed'
    BY <1>1 DEF Replayed, Reserved, TypeOK, Owning, Reserve, Goto, local, answer, history
  <2>7. Unanswered'
    BY <1>1 DEF Unanswered, Reserved, TypeOK, Owning, Reserve, Goto, local, answer, history
  <2>8. QED
    BY <2>1, <2>2, <2>4, <2>5, <2>6, <2>7 DEF Reserved
<1>2. ASSUME NEW r \in Requests, Read(r) PROVE Reserved'
  <2>1. Progress'
    BY <1>2 DEF Progress, Reserved, TypeOK, Owning, Read, Existing, Finish, Goto, local, answer, history
  <2>2. Running'
    BY <1>2 DEF Running, Reserved, TypeOK, Owning, Read, Existing, Finish, Goto, local, answer, history
  <2>3. ExclusiveRun'
    BY <1>2 DEF ExclusiveRun, Reserved, TypeOK, Owning, Read, Existing, Finish, Goto, local, answer, history, Owns
  <2>4. Stored'
    BY <1>2 DEF Stored, Reserved, TypeOK, Owning, Read, Existing, Finish, Goto, local, answer, history, Genuine
  <2>5. Copied'
    <3>1. Genuine(record[Key[r]], Key[r])' \/ Key[r] \in overrun
      BY <1>2 DEF Read, Existing, Finish, Goto, Reserved, Stored, Genuine, TypeOK, history
    <3>2. seen' = [seen EXCEPT ![r] = record[Key[r]]] \/ seen' = seen
      BY <1>2 DEF Read
    <3>3. \A q \in Requests : Genuine(seen[q], Key[q])' \/ Key[q] \in overrun \/ seen'[q] # seen[q]
      BY <1>2 DEF Read, Existing, Finish, Goto, Reserved, Copied, Genuine, TypeOK, history
    <3>4. QED
      BY <1>2, <3>1, <3>2, <3>3 DEF Copied, Genuine, Read, history, TypeOK
  <2>6. Replayed'
    <3> DEFINE e == record[Key[r]]
    <3>1. CASE e = NoRecord \/ e.expired
      BY <1>2, <3>1 DEF Read, Replayed, Reserved, TypeOK, Finish, Goto, answer, history
    <3>2. CASE e # NoRecord /\ ~e.expired
      <4>1. e \in Records /\ Existing(r, e) /\ pc[r] # "done" /\ UNCHANGED history
        BY <1>2, <3>2 DEF Read, TypeOK
      <4>2. Key[r] \notin overrun => Genuine(e, Key[r])
        BY DEF Reserved, Stored
      <4>3. QED
        BY <3>2, <4>1, <4>2, ExistingReplay DEF Reserved, history
    <3>3. QED
      BY <3>1, <3>2
  <2>7. Unanswered'
    BY <1>2 DEF Unanswered, Reserved, TypeOK, Owning, Read, Existing, Finish, Goto, local, answer, history
  <2>8. QED
    BY <2>1, <2>2, <2>3, <2>4, <2>5, <2>6, <2>7 DEF Reserved
<1>3. ASSUME NEW r \in Requests, Reclaim(r) PROVE Reserved'
  <2>1. Progress'
    BY <1>3 DEF Progress, Reserved, TypeOK, Owning, Reclaim, Reclaimable, Goto, local, answer, history
  <2>2. Running' /\ ExclusiveRun'
    <3>1. record[Key[r]] \in Records /\ record[Key[r]].expired
      BY <1>3 DEF Reclaim, Reclaimable, TypeOK
    <3>2. record[Key[r]].id \in Requests
      BY <3>1 DEF Records
    <3>3. \A q \in Requests : Key[q] = Key[r] /\ pc[q] \in Owning => Key[r] \in overrun
      BY <3>1 DEF Reserved, Running
    <3>4. QED
      BY <1>3, <3>2, <3>3, TakesOver DEF Reclaim, Reserved, history
  <2>4. Stored'
    BY <1>3 DEF Stored, Reserved, TypeOK, Owning, Reclaim, Reclaimable, Goto, local, answer, history, Genuine
  <2>5. Copied'
    BY <1>3 DEF Copied, Reserved, TypeOK, Owning, Reclaim, Reclaimable, Goto, local, answer, history, Genuine
  <2>6. Replayed'
    BY <1>3 DEF Replayed, Reserved, TypeOK, Owning, Reclaim, Reclaimable, Goto, local, answer, history
  <2>7. Unanswered'
    BY <1>3 DEF Unanswered, Reserved, TypeOK, Owning, Reclaim, Reclaimable, Goto, local, answer, history
  <2>8. QED
    BY <2>1, <2>2, <2>4, <2>5, <2>6, <2>7 DEF Reserved
<1>4. ASSUME NEW r \in Requests, ReclaimLost(r) PROVE Reserved'
  <2>1. Progress'
    BY <1>4 DEF Progress, Reserved, TypeOK, Owning, ReclaimLost, Existing, Finish, Goto, local, answer, history
  <2>2. Running'
    BY <1>4 DEF Running, Reserved, TypeOK, Owning, ReclaimLost, Existing, Finish, Goto, local, answer, history
  <2>3. ExclusiveRun'
    BY <1>4 DEF ExclusiveRun, Reserved, TypeOK, Owning, ReclaimLost, Existing, Finish, Goto, local, answer, history, Owns
  <2>4. Stored'
    BY <1>4 DEF Stored, Reserved, TypeOK, Owning, ReclaimLost, Existing, Finish, Goto, local, answer, history, Genuine
  <2>5. Copied'
    BY <1>4 DEF Copied, Reserved, TypeOK, Owning, ReclaimLost, Existing, Finish, Goto, local, answer, history, Genuine
  <2>6. Replayed'
    <3>1. /\ seen[r] \in Records /\ seen[r] # NoRecord /\ pc[r] # "done"
          /\ Existing(r, seen[r]) /\ UNCHANGED history
      BY <1>4 DEF ReclaimLost, TypeOK
    <3>2. Key[r] \notin overrun => Genuine(seen[r], Key[r])
      BY DEF Reserved, Copied
    <3>3. QED
      BY <3>1, <3>2, ExistingReplay DEF Reserved, history
  <2>7. Unanswered'
    BY <1>4 DEF Unanswered, Reserved, TypeOK, Owning, ReclaimLost, Existing, Finish, Goto, local, answer, history
  <2>8. QED
    BY <2>1, <2>2, <2>3, <2>4, <2>5, <2>6, <2>7 DEF Reserved
<1>5. ASSUME NEW r \in Requests, Refuse(r) PROVE Reserved'
  <2>1. Progress'
    BY <1>5 DEF Progress, Reserved, TypeOK, Owning, Refuse, Goto, local, answer, history
  <2>2. Running'
    BY <1>5 DEF Running, Reserved, TypeOK, Owning, Refuse, Goto, local, answer, history
  <2>3. ExclusiveRun'
    BY <1>5 DEF ExclusiveRun, Reserved, TypeOK, Owning, Refuse, Goto, local, answer, history, Owns
  <2>4. Stored'
    BY <1>5 DEF Stored, Reserved, TypeOK, Owning, Refuse, Goto, local, answer, history, Genuine
  <2>5. Copied'
    BY <1>5 DEF Copied, Reserved, TypeOK, Owning, Refuse, Goto, local, answer, history, Genuine
  <2>6. Replayed'
    BY <1>5 DEF Replayed, Reserved, TypeOK, Owning, Refuse, Goto, local, answer, history
  <2>7. Unanswered'
    BY <1>5 DEF Unanswered, Reserved, TypeOK, Owning, Refuse, Goto, local, answer, history
  <2>8. QED
    BY <2>1, <2>2, <2>3, <2>4, <2>5, <2>6, <2>7 DEF Reserved
<1>6. ASSUME NEW r \in Requests, Commit(r) PROVE Reserved'
  <2>1. Progress'
    BY <1>6 DEF Progress, Reserved, TypeOK, Owning, Commit, Goto, local, answer, history
  <2>2. Running'
    BY <1>6 DEF Running, Reserved, TypeOK, Owning, Commit, Goto, local, answer, history
  <2>3. ExclusiveRun'
    BY <1>6 DEF ExclusiveRun, Reserved, TypeOK, Owning, Commit, Goto, local, answer, history, Owns
  <2>4. Stored'
    BY <1>6 DEF Stored, Reserved, TypeOK, Owning, Commit, Goto, local, answer, history, Genuine
  <2>5. Copied'
    BY <1>6 DEF Copied, Reserved, TypeOK, Owning, Commit, Goto, local, answer, history, Genuine
  <2>6. Replayed'
    BY <1>6 DEF Replayed, Reserved, TypeOK, Owning, Commit, Goto, local, answer, history
  <2>7. Unanswered'
    BY <1>6 DEF Unanswered, Reserved, TypeOK, Owning, Commit, Goto, local, answer, history
  <2>8. QED
    BY <2>1, <2>2, <2>3, <2>4, <2>5, <2>6, <2>7 DEF Reserved
<1>7. ASSUME NEW r \in Requests, RestFails(r) PROVE Reserved'
  <2>1. Progress'
    BY <1>7 DEF Progress, Reserved, TypeOK, Owning, RestFails, Goto, local, answer, history
  <2>2. Running'
    BY <1>7 DEF Running, Reserved, TypeOK, Owning, RestFails, Goto, local, answer, history
  <2>3. ExclusiveRun'
    BY <1>7 DEF ExclusiveRun, Reserved, TypeOK, Owning, RestFails, Goto, local, answer, history, Owns
  <2>4. Stored'
    BY <1>7 DEF Stored, Reserved, TypeOK, Owning, RestFails, Goto, local, answer, history, Genuine
  <2>5. Copied'
    BY <1>7 DEF Copied, Reserved, TypeOK, Owning, RestFails, Goto, local, answer, history, Genuine
  <2>6. Replayed'
    BY <1>7 DEF Replayed, Reserved, TypeOK, Owning, RestFails, Goto, local, answer, history
  <2>7. Unanswered'
    BY <1>7 DEF Unanswered, Reserved, TypeOK, Owning, RestFails, Goto, local, answer, history
  <2>8. QED
    BY <2>1, <2>2, <2>3, <2>4, <2>5, <2>6, <2>7 DEF Reserved
<1>8. ASSUME NEW r \in Requests, Return(r) PROVE Reserved'
  <2>1. Progress'
    BY <1>8 DEF Progress, Reserved, TypeOK, Owning, Return, Goto, local, answer, history
  <2>2. Running'
    BY <1>8 DEF Running, Reserved, TypeOK, Owning, Return, Goto, local, answer, history
  <2>3. ExclusiveRun'
    BY <1>8 DEF ExclusiveRun, Reserved, TypeOK, Owning, Return, Goto, local, answer, history, Owns
  <2>4. Stored'
    BY <1>8 DEF Stored, Reserved, TypeOK, Owning, Return, Goto, local, answer, history, Genuine
  <2>5. Copied'
    BY <1>8 DEF Copied, Reserved, TypeOK, Owning, Return, Goto, local, answer, history, Genuine
  <2>6. Replayed'
    BY <1>8 DEF Replayed, Reserved, TypeOK, Owning, Return, Goto, local, answer, history
  <2>7. Unanswered'
    BY <1>8 DEF Unanswered, Reserved, TypeOK, Owning, Return, Goto, local, answer, history
  <2>8. QED
    BY <2>1, <2>2, <2>3, <2>4, <2>5, <2>6, <2>7 DEF Reserved
<1>9. ASSUME NEW r \in Requests, Undo(r) PROVE Reserved'
  <2>1. Progress'
    BY <1>9 DEF Progress, Reserved, TypeOK, Owning, Undo, Finish, Goto, local, answer, history
  <2>2. Running'
    <3>1. \A q \in Requests : pc'[q] \in Owning /\ Key[q] \notin overrun =>
                               Key[q] # Key[r] /\ pc[q] \in Owning
      BY <1>9 DEF Undo, Finish, Goto, Reserved, ExclusiveRun, Owning, TypeOK
    <3>2. \A j \in Keys \ {Key[r]} : record'[j] = record[j]
      BY <1>9 DEF Undo, TypeOK
    <3>3. QED
      BY <1>9, <3>1, <3>2 DEF Undo, Running, Reserved, history
  <2>3. ExclusiveRun'
    BY <1>9 DEF ExclusiveRun, Reserved, TypeOK, Owning, Undo, Finish, Goto, local, answer, history, Owns
  <2>4. Stored'
    BY <1>9 DEF Stored, Reserved, TypeOK, Owning, Undo, Finish, Goto, local, answer, history, Genuine
  <2>5. Copied'
    BY <1>9 DEF Copied, Reserved, TypeOK, Owning, Undo, Finish, Goto, local, answer, history, Genuine
  <2>6. Replayed'
    BY <1>9 DEF Replayed, Reserved, TypeOK, Owning, Undo, Finish, Goto, local, answer, history
  <2>7. Unanswered'
    BY <1>9 DEF Unanswered, Reserved, TypeOK, Owning, Undo, Finish, Goto, local, answer, history
  <2>8. QED
    BY <2>1, <2>2, <2>3, <2>4, <2>5, <2>6, <2>7 DEF Reserved
<1>10. ASSUME NEW r \in Requests, Save(r) PROVE Reserved'
  <2>1. Progress'
    BY <1>10 DEF Progress, Reserved, TypeOK, Owning, Save, Finish, Goto, local, answer, history
  <2>2. Running'
    <3>1. \A q \in Requests : pc'[q] \in Owning /\ Key[q] \notin overrun =>
                               Key[q] # Key[r] /\ pc[q] \in Owning
      BY <1>10 DEF Save, Finish, Goto, Reserved, ExclusiveRun, Owning, TypeOK
    <3>2. \A j \in Keys \ {Key[r]} : record'[j] = record[j]
      BY <1>10 DEF Save, TypeOK
    <3>3. QED
      BY <1>10, <3>1, <3>2 DEF Save, Running, Reserved, history
  <2>3. ExclusiveRun'
    BY <1>10 DEF ExclusiveRun, Reserved, TypeOK, Owning, Save, Finish, Goto, local, answer, history, Owns
  <2>4. Stored'
    <3> DEFINE k == Key[r]
               e == [record[k] EXCEPT !.by = r]
    <3>1. r \in effects \ late /\ pc' = [pc EXCEPT ![r] = "done"] /\ UNCHANGED history
      BY <1>10 DEF Save, Finish, Goto, Reserved, Progress
    <3>2. \A j \in Keys \ overrun : Genuine(record[j], j)'  \/ record'[j] # record[j]
      BY <3>1 DEF Stored, Genuine, Reserved, TypeOK, history
    <3>3. CASE ~Owns(r)
      BY <1>10, <3>1, <3>2, <3>3 DEF Save, Stored, history
    <3>4. CASE Owns(r)
      <4>1. record[k] \in Records
        BY <3>4 DEF Owns, TypeOK
      <4>2. e.hash = record[k].hash /\ e.by = r
        BY <4>1, UpdatedRecord
      <4>3. record' = [record EXCEPT ![k] = e]
        BY <1>10, <3>4 DEF Save
      <4>4. k \notin overrun => record[k].hash = Hash[r]
        BY <1>10 DEF Save, Reserved, Running, Owning
      <4> HIDE DEF e
      <4>5. record'[k] = e /\ \A j \in Keys \ {k} : record'[j] = record[j]
        BY <4>3 DEF TypeOK
      <4>6. k \notin overrun => Genuine(record[k], k)'
        BY <3>1, <4>2, <4>4, <4>5 DEF Genuine, TypeOK, history
      <4>7. QED
        BY <3>1, <3>2, <4>5, <4>6 DEF Stored, history
    <3>5. QED
      BY <3>3, <3>4
  <2>5. Copied'
    BY <1>10 DEF Copied, Reserved, TypeOK, Owning, Save, Finish, Goto, local, answer, history, Genuine
  <2>6. Replayed'
    BY <1>10 DEF Replayed, Reserved, TypeOK, Owning, Save, Finish, Goto, local, answer, history
  <2>7. Unanswered'
    BY <1>10 DEF Unanswered, Reserved, TypeOK, Owning, Save, Finish, Goto, local, answer, history
  <2>8. QED
    BY <2>1, <2>2, <2>3, <2>4, <2>5, <2>6, <2>7 DEF Reserved
<1>11. ASSUME NEW r \in Requests, Fail(r) PROVE Reserved'
  <2>1. Progress'
    BY <1>11 DEF Progress, Reserved, TypeOK, Owning, Fail, Finish, Goto, local, answer, history
  <2>2. Running'
    BY <1>11 DEF Running, Reserved, TypeOK, Owning, Fail, Finish, Goto, local, answer, history
  <2>3. ExclusiveRun'
    BY <1>11 DEF ExclusiveRun, Reserved, TypeOK, Owning, Fail, Finish, Goto, local, answer, history, Owns
  <2>4. Stored'
    BY <1>11 DEF Stored, Reserved, TypeOK, Owning, Fail, Finish, Goto, local, answer, history, Genuine
  <2>5. Copied'
    BY <1>11 DEF Copied, Reserved, TypeOK, Owning, Fail, Finish, Goto, local, answer, history, Genuine
  <2>6. Replayed'
    BY <1>11 DEF Replayed, Reserved, TypeOK, Owning, Fail, Finish, Goto, local, answer, history
  <2>7. Unanswered'
    BY <1>11 DEF Unanswered, Reserved, TypeOK, Owning, Fail, Finish, Goto, local, answer, history
  <2>8. QED
    BY <2>1, <2>2, <2>3, <2>4, <2>5, <2>6, <2>7 DEF Reserved
<1>12. ASSUME NEW k \in Keys, Expire(k) PROVE Reserved'
  <2>1. Progress'
    BY <1>12 DEF Progress, Reserved, TypeOK, Owning, Expire, local, answer, history
  <2>2. Running'
    BY <1>12 DEF Running, Reserved, TypeOK, Owning, Expire, local, answer, history
  <2>3. ExclusiveRun'
    BY <1>12 DEF ExclusiveRun, Reserved, TypeOK, Owning, Expire, local, answer, history, Owns
  <2>4. Stored'
    BY <1>12 DEF Stored, Reserved, TypeOK, Owning, Expire, local, answer, history, Genuine
  <2>5. Copied'
    BY <1>12 DEF Copied, Reserved, TypeOK, Owning, Expire, local, answer, history, Genuine
  <2>6. Replayed'
    BY <1>12 DEF Replayed, Reserved, TypeOK, Owning, Expire, local, answer, history
  <2>7. Unanswered'
    BY <1>12 DEF Unanswered, Reserved, TypeOK, Owning, Expire, local, answer, history
  <2>8. QED
    BY <2>1, <2>2, <2>3, <2>4, <2>5, <2>6, <2>7 DEF Reserved
<1>13. CASE UNCHANGED vars
  BY <1>13 DEF Reserved, Progress, Running, ExclusiveRun, Stored, Copied, Replayed, Unanswered,
               Genuine, Owns, vars, local, answer, history
<1>14. QED
  BY <1>1, <1>2, <1>3, <1>4, <1>5, <1>6, <1>7, <1>8, <1>9, <1>10, <1>11, <1>12, <1>13 DEF Next

\* TypeOK is inductive together with Reserved.
LEMMA InvariantStep ==
  TypeOK /\ Reserved /\ [Next]_vars => TypeOK' /\ Reserved'
<1>1. Reserved => Progress
  BY DEF Reserved
<1>2. QED
  BY <1>1, TypeStep, ReservedStep

LEMMA InvariantInit == Init => TypeOK /\ Reserved
<1> SUFFICES ASSUME Init PROVE TypeOK /\ Reserved
  OBVIOUS
<1>1. TypeOK
  BY IdempotencyAssumption DEF Init, TypeOK, Labels, Replies
<1>2. Reserved
  BY KeyType DEF Init, Reserved, Progress, Running, ExclusiveRun, Stored, Copied, Replayed,
                 Unanswered, Genuine, Owns, Owning
<1>3. QED
  BY <1>1, <1>2

THEOREM Invariance == Spec => [](TypeOK /\ Reserved)
  BY InvariantInit, InvariantStep, PTL DEF Spec

-----------------------------------------------------------------------------
(***************************************************************************)
(* Theorems.                                                               *)
(***************************************************************************)

\* Records, requests and answers always have the shape the interceptor expects.
THEOREM TypeCorrect == Spec => []TypeOK
  BY Invariance, PTL

\* Whatever retries interleave, one request at a time runs the use case of a key.
THEOREM RunsAreExclusive == Spec => []ExclusiveRun
<1>1. Reserved => ExclusiveRun
  BY DEF Reserved
<1>2. QED
  BY <1>1, Invariance, PTL

\* Whatever interleaves, a replayed response belongs to an identical request whose
\* change is committed.
THEOREM ReplaysAreGenuine == Spec => []ReplayIsGenuine
<1>1. Reserved => ReplayIsGenuine
  BY DEF Reserved, Replayed, ReplayIsGenuine
<1>2. QED
  BY <1>1, Invariance, PTL

\* What a step does to a stored response that has not expired.
LEMMA CompletedStep ==
  ASSUME TypeOK, Reserved, [Next]_vars, NEW k \in Keys \ overrun, record[k] # NoRecord,
         record[k].by # NoRequest, ~record[k].expired
  PROVE  record'[k] # NoRecord /\ [record'[k] EXCEPT !.expired = FALSE] = record[k]
<1> DEFINE e == record[k]
<1>1. e \in Records
  BY DEF TypeOK
<1>2. [e EXCEPT !.expired = FALSE] = e
  BY <1>1 DEF Records
<1>3. SUFFICES \/ record'[k] = e
               \/ record'[k] = [e EXCEPT !.expired = TRUE]
  <2>1. [[e EXCEPT !.expired = TRUE] EXCEPT !.expired = FALSE] = e
    BY <1>1 DEF Records
  <2>2. [e EXCEPT !.expired = TRUE] # NoRecord
    BY <1>1, IdempotencyAssumption DEF Records
  <2>3. QED
    BY <1>2, <1>3, <2>1, <2>2
<1>4. ASSUME NEW r \in Requests, pc[r] \in Owning PROVE Key[r] # k
  BY <1>4 DEF Reserved, Running
<1>5. ASSUME NEW r \in Requests, Reserve(r) PROVE record'[k] = e
  BY <1>5 DEF Reserve, TypeOK
<1>6. ASSUME NEW r \in Requests, Reclaim(r) PROVE record'[k] = e
  BY <1>6 DEF Reclaim, Reclaimable, TypeOK
<1>7. ASSUME NEW r \in Requests, Undo(r) \/ Save(r) PROVE record'[k] = e
  <2>1. Key[r] # k
    BY <1>4, <1>7 DEF Undo, Save, Owning
  <2>2. QED
    BY <1>7, <2>1 DEF Undo, Save, TypeOK
<1>8. ASSUME NEW r \in Requests,
             \/ Read(r) \/ ReclaimLost(r) \/ Refuse(r) \/ Commit(r)
             \/ RestFails(r) \/ Return(r) \/ Fail(r)
      PROVE  record'[k] = e
  BY <1>8 DEF Read, ReclaimLost, Refuse, Commit, RestFails, Return, Fail
<1>9. ASSUME NEW j \in Keys, Expire(j)
      PROVE  record'[k] = e \/ record'[k] = [e EXCEPT !.expired = TRUE]
  <2>1. record' = [record EXCEPT ![j] = [record[j] EXCEPT !.expired = TRUE]]
    BY <1>9 DEF Expire
  <2>2. CASE j = k
    <3> DEFINE x == [e EXCEPT !.expired = TRUE]
    <3>1. record' = [record EXCEPT ![k] = x]
      BY <2>1, <2>2
    <3> HIDE DEF x
    <3>2. record'[k] = x
      BY <3>1 DEF TypeOK
    <3>3. QED
      BY <3>2 DEF x
  <2>3. CASE j # k
    <3> DEFINE x == [record[j] EXCEPT !.expired = TRUE]
    <3>1. record' = [record EXCEPT ![j] = x]
      BY <2>1
    <3> HIDE DEF x
    <3>2. QED
      BY <2>3, <3>1 DEF TypeOK
  <2>4. QED
    BY <2>2, <2>3
<1>10. CASE UNCHANGED vars
  BY <1>10 DEF vars
<1>11. QED
  BY <1>5, <1>6, <1>7, <1>8, <1>9, <1>10 DEF Next

\* A stored response is kept until it expires, whatever requests come late.
THEOREM ResponsesAreKept == Spec => CompletedIsKept
<1> DEFINE Kept == \A k \in Keys \ overrun :
             LET e == record[k] IN
             e # NoRecord /\ e.by # NoRequest /\ ~e.expired =>
               record'[k] # NoRecord /\ [record'[k] EXCEPT !.expired = FALSE] = e
<1>1. TypeOK /\ Reserved /\ [Next]_vars => Kept
  BY CompletedStep
<1> HIDE DEF Kept
<1>2. Spec => [][Kept]_vars
  BY <1>1, Invariance, PTL DEF Spec
<1>3. QED
  BY <1>2 DEF CompletedIsKept, Kept

-----------------------------------------------------------------------------
(***************************************************************************)
(* Repetitions.  Who runs under a key, or is about to give the key back,   *)
(* may change something once more, and so may whoever takes a record that  *)
(* is gone or expired: with the changes that are committed, that never     *)
(* exceeds what expiries and late failures pay for.                        *)
(***************************************************************************)

Committed(k) == {r \in effects : Key[r] = k}
Belated(k)   == {r \in late : Key[r] = k}
Open(k)      == {r \in Requests : Key[r] = k /\ pc[r] \in {"run", "undo"}}
Free(k)      == record[k] = NoRecord \/ record[k].expired
Token(k)     == IF Free(k) THEN 1 ELSE 0

PaidFor(k) == Cardinality(Committed(k)) + Cardinality(Open(k)) + Token(k)
                <= 1 + expiries[k] + Cardinality(Belated(k))

Paid == \A k \in Keys : PaidFor(k)

\* Requests are finitely many; their subsets grow and shrink one by one.
LEMMA Counting ==
  ASSUME NEW S \in SUBSET Requests, NEW T \in SUBSET Requests, NEW r
  PROVE  /\ Cardinality(S) \in Nat
         /\ T \subseteq S => Cardinality(T) <= Cardinality(S)
         /\ T \subseteq S \union {r} => Cardinality(T) <= Cardinality(S) + 1
         /\ r \in S /\ T \subseteq S \ {r} => Cardinality(T) <= Cardinality(S) - 1
         /\ r \notin S /\ T = S \union {r} => Cardinality(T) = Cardinality(S) + 1
<1>1. /\ IsFiniteSet(S) /\ IsFiniteSet(S \union {r}) /\ IsFiniteSet(S \ {r})
      /\ Cardinality(S) \in Nat
      /\ Cardinality(S \union {r}) = IF r \in S THEN Cardinality(S) ELSE Cardinality(S) + 1
      /\ r \in S => Cardinality(S \ {r}) = Cardinality(S) - 1
  BY IdempotencyAssumption, FS_Subset, FS_AddElement, FS_RemoveElement, FS_CardinalityType
<1>2. \A U : IsFiniteSet(U) /\ T \subseteq U => Cardinality(T) <= Cardinality(U)
  BY FS_Subset
<1>3. Cardinality(T) \in Nat
  BY IdempotencyAssumption, FS_Subset, FS_CardinalityType
<1>4. T \subseteq S => Cardinality(T) <= Cardinality(S)
  BY <1>1, <1>2
<1>5. T \subseteq S \union {r} => Cardinality(T) <= Cardinality(S) + 1
  <2>1. T \subseteq S \union {r} => Cardinality(T) <= Cardinality(S \union {r})
    BY <1>1, <1>2
  <2> QED BY <1>1, <1>3, <2>1
<1>6. r \in S /\ T \subseteq S \ {r} => Cardinality(T) <= Cardinality(S) - 1
  <2>1. T \subseteq S \ {r} => Cardinality(T) <= Cardinality(S \ {r})
    BY <1>1, <1>2
  <2> QED BY <1>1, <2>1
<1>7. r \notin S /\ T = S \union {r} => Cardinality(T) = Cardinality(S) + 1
  BY <1>1
<1> QED BY <1>1, <1>4, <1>5, <1>6, <1>7

\* The counted sets are sets of requests.
LEMMA CountedSets ==
  ASSUME TypeOK, NEW k \in Keys
  PROVE  /\ Committed(k) \in SUBSET Requests /\ Belated(k) \in SUBSET Requests
         /\ Open(k) \in SUBSET Requests /\ expiries[k] \in Nat
BY IdempotencyAssumption DEF TypeOK, Committed, Belated, Open

\* A step that commits nothing, opens nothing and frees nothing.
LEMMA PaidKept ==
  ASSUME TypeOK, TypeOK', NEW k \in Keys, PaidFor(k), UNCHANGED <<effects, late>>,
         expiries'[k] = expiries[k], Open(k)' \subseteq Open(k), Free(k)' => Free(k)
  PROVE  PaidFor(k)'
<1>1. Committed(k)' = Committed(k) /\ Belated(k)' = Belated(k)
  BY DEF Committed, Belated
<1>2. /\ Cardinality(Open(k)') <= Cardinality(Open(k))
      /\ Cardinality(Open(k)') \in Nat /\ Cardinality(Open(k)) \in Nat
      /\ Cardinality(Committed(k)) \in Nat /\ Cardinality(Belated(k)) \in Nat
  BY CountedSets, Counting, Open(k)' \in SUBSET Requests DEF Open
<1> QED BY <1>1, <1>2, CountedSets DEF PaidFor, Token

\* A step of one request, seen from any key: the set of its open requests
\* changes by that request only.
LEMMA OpenChange ==
  ASSUME TypeOK, NEW r \in Requests, NEW label, Goto(r, label), NEW k \in Keys
  PROVE  /\ Open(k)' \subseteq Open(k) \union {r}
         /\ Key[r] # k => Open(k)' = Open(k)
         /\ label \notin {"run", "undo"} => Open(k)' = Open(k) \ {r}
         /\ pc[r] \in {"run", "undo"} => Open(k)' \subseteq Open(k)
BY DEF Open, Goto, TypeOK

\* Reserving and reclaiming use the token of the record.
LEMMA PaidByTaking ==
  ASSUME TypeOK, TypeOK', NEW r \in Requests, NEW k \in Keys, PaidFor(k),
         Reserve(r) \/ Reclaim(r)
  PROVE  PaidFor(k)'
<1> USE KeyType DEF history
<1>1. UNCHANGED <<effects, late, expiries>>
  BY DEF Reserve, Reclaim
<1>2. CASE Key[r] = k /\ Free(k) /\ Goto(r, "run")
  <2>1. ~Free(k)'
    <3>1. PICK i \in Requests :
            record' = [record EXCEPT ![k] =
              [id |-> i, hash |-> Hash[r], by |-> NoRequest, expired |-> FALSE]]
      <4>1. CASE Reserve(r)
        BY <1>2, <4>1 DEF Reserve, Free, Goto, TypeOK
      <4>2. CASE Reclaim(r)
        <5>1. record[k].id \in Requests
          BY <1>2, <4>2 DEF Reclaim, Reclaimable, TypeOK, Records
        <5> QED BY <1>2, <4>2, <5>1 DEF Reclaim
      <4> QED BY <4>1, <4>2
    <3>2. [id |-> i, hash |-> Hash[r], by |-> NoRequest, expired |-> FALSE] # NoRecord
      BY FreshRecord, IdempotencyAssumption
    <3> QED BY <3>1, <3>2 DEF Free, TypeOK
  <2>2. Open(k)' \subseteq Open(k) \union {r}
    BY <1>2, OpenChange
  <2>3. Committed(k)' = Committed(k) /\ Belated(k)' = Belated(k)
    BY <1>1 DEF Committed, Belated
  <2>4. Open(k)' \in SUBSET Requests
    BY DEF Open
  <2>5. /\ Cardinality(Open(k)') <= Cardinality(Open(k)) + 1
        /\ Cardinality(Open(k)') \in Nat /\ Cardinality(Open(k)) \in Nat
        /\ Cardinality(Committed(k)) \in Nat /\ Cardinality(Belated(k)) \in Nat
    BY <2>2, <2>4, CountedSets, Counting
  <2> QED BY <1>1, <1>2, <2>1, <2>3, <2>5, CountedSets DEF PaidFor, Token
<1>3. CASE Key[r] # k
  <2>1. Open(k)' = Open(k)
    BY <1>3, OpenChange DEF Reserve, Reclaim
  <2>2. record'[k] = record[k]
    BY <1>3 DEF Reserve, Reclaim, TypeOK
  <2> QED BY <1>1, <2>1, <2>2, PaidKept DEF Free
<1>4. CASE Reserve(r) /\ record[Key[r]] # NoRecord
  <2>1. Open(k)' \subseteq Open(k) /\ record' = record
    BY <1>4, OpenChange DEF Reserve
  <2> QED BY <1>1, <2>1, PaidKept DEF Free
<1>5. Key[r] = k => (Free(k) /\ Goto(r, "run")) \/ (Reserve(r) /\ record[Key[r]] # NoRecord)
  BY DEF Reserve, Reclaim, Reclaimable, Free
<1> QED BY <1>2, <1>3, <1>4, <1>5

\* Answers, refusals and the storing of a response open and free nothing.
LEMMA PaidByAnswer ==
  ASSUME TypeOK, TypeOK', NEW r \in Requests, NEW k \in Keys, PaidFor(k),
         Read(r) \/ ReclaimLost(r) \/ Refuse(r) \/ Return(r) \/ Fail(r) \/ Save(r)
  PROVE  PaidFor(k)'
<1> USE KeyType DEF history
<1>1. UNCHANGED <<effects, late, expiries>>
  BY DEF Read, ReclaimLost, Refuse, Return, Fail, Save
<1>2. \/ Goto(r, "done") \/ Goto(r, "reclaim") \/ Goto(r, "save")
      \/ pc[r] = "run" /\ Goto(r, "undo")
  BY DEF Read, ReclaimLost, Refuse, Return, Fail, Save, Existing, Finish
<1>3. Open(k)' \subseteq Open(k)
  BY <1>2, OpenChange
<1>4. Free(k)' => Free(k)
  <2>1. CASE Save(r) /\ Owns(r)
    <3> DEFINE e == [record[Key[r]] EXCEPT !.by = r]
    <3>1. record[Key[r]] \in Records
      BY <2>1 DEF Owns, TypeOK
    <3>2. e \in Records /\ e.expired = record[Key[r]].expired /\ record[Key[r]] # NoRecord
      BY <3>1, UpdatedRecord, IdempotencyAssumption
    <3>3. record' = [record EXCEPT ![Key[r]] = e]
      BY <2>1 DEF Save
    <3> HIDE DEF e
    <3>4. e # NoRecord
      BY <3>2, IdempotencyAssumption
    <3> QED BY <3>2, <3>3, <3>4 DEF Free, TypeOK
  <2>2. CASE ~(Save(r) /\ Owns(r))
    <3>1. record' = record
      BY <2>2 DEF Read, ReclaimLost, Refuse, Return, Fail, Save
    <3> QED BY <3>1 DEF Free
  <2> QED BY <2>1, <2>2
<1> QED BY <1>1, <1>3, <1>4, PaidKept

\* A commit uses what its request has open; a failure after it is late and pays
\* for what it opens; giving the key back frees no more than was open.
LEMMA PaidByUseCase ==
  ASSUME TypeOK, TypeOK', Progress, NEW r \in Requests, NEW k \in Keys, PaidFor(k),
         Commit(r) \/ RestFails(r) \/ Undo(r)
  PROVE  PaidFor(k)'
<1> USE KeyType DEF history
<1>1. expiries' = expiries
  BY DEF Commit, RestFails, Undo
<1>2. CASE Key[r] # k
  <2>1. Open(k)' = Open(k)
    BY <1>2, OpenChange DEF Commit, RestFails, Undo, Finish
  <2>2. record'[k] = record[k]
    BY <1>2 DEF Commit, RestFails, Undo, TypeOK
  <2>3. Committed(k)' = Committed(k) /\ Belated(k)' = Belated(k)
    BY <1>2 DEF Commit, RestFails, Undo, Committed, Belated
  <2> QED BY <1>1, <2>1, <2>2, <2>3 DEF PaidFor, Token, Free
<1>3. CASE Key[r] = k /\ Commit(r)
  <2>1. Committed(k)' = Committed(k) \union {r} /\ Belated(k)' = Belated(k)
    BY <1>3 DEF Commit, Committed, Belated
  <2>2. r \in Open(k) /\ Open(k)' = Open(k) \ {r}
    BY <1>3, OpenChange DEF Commit, Open
  <2>3. Free(k)' <=> Free(k)
    BY <1>3 DEF Commit, Free
  <2>4. Open(k)' \in SUBSET Requests /\ Committed(k)' \in SUBSET Requests
    BY <2>1, <2>2, CountedSets
  <2>5. /\ Cardinality(Committed(k)') <= Cardinality(Committed(k)) + 1
        /\ Cardinality(Open(k)') <= Cardinality(Open(k)) - 1
        /\ Cardinality(Committed(k)') \in Nat /\ Cardinality(Open(k)') \in Nat
        /\ Cardinality(Committed(k)) \in Nat /\ Cardinality(Open(k)) \in Nat
        /\ Cardinality(Belated(k)) \in Nat
    BY <2>1, <2>2, <2>4, CountedSets, Counting
  <2> QED BY <1>1, <2>1, <2>3, <2>5, CountedSets DEF PaidFor, Token
<1>4. CASE Key[r] = k /\ RestFails(r)
  <2>1. /\ Committed(k)' = Committed(k)
        /\ r \notin Belated(k) /\ Belated(k)' = Belated(k) \union {r}
    BY <1>4 DEF RestFails, Committed, Belated, Progress
  <2>2. Open(k)' \subseteq Open(k) \union {r}
    BY <1>4, OpenChange DEF RestFails
  <2>3. Free(k)' <=> Free(k)
    BY <1>4 DEF RestFails, Free
  <2>4. Open(k)' \in SUBSET Requests /\ Belated(k)' \in SUBSET Requests
    BY <2>1, CountedSets DEF Open
  <2>5. /\ Cardinality(Belated(k)') = Cardinality(Belated(k)) + 1
        /\ Cardinality(Open(k)') <= Cardinality(Open(k)) + 1
        /\ Cardinality(Committed(k)) \in Nat /\ Cardinality(Open(k)') \in Nat
        /\ Cardinality(Belated(k)) \in Nat /\ Cardinality(Open(k)) \in Nat
    BY <2>1, <2>2, <2>4, CountedSets, Counting
  <2> QED BY <1>1, <2>1, <2>3, <2>5, CountedSets DEF PaidFor, Token
<1>5. CASE Key[r] = k /\ Undo(r)
  <2>1. Committed(k)' = Committed(k) /\ Belated(k)' = Belated(k)
    BY <1>5 DEF Undo, Committed, Belated
  <2>2. r \in Open(k) /\ Open(k)' = Open(k) \ {r}
    BY <1>5, OpenChange DEF Undo, Finish, Open
  <2>3. Open(k)' \in SUBSET Requests
    BY <2>2, CountedSets
  <2>4. /\ Cardinality(Open(k)') <= Cardinality(Open(k)) - 1
        /\ Cardinality(Committed(k)) \in Nat /\ Cardinality(Open(k)') \in Nat
        /\ Cardinality(Belated(k)) \in Nat /\ Cardinality(Open(k)) \in Nat
    BY <2>2, <2>3, CountedSets, Counting
  <2> QED BY <1>1, <2>1, <2>4, CountedSets DEF PaidFor, Token
<1> QED BY <1>2, <1>3, <1>4, <1>5

\* An expiry pays for the record it frees.
LEMMA PaidByExpiry ==
  ASSUME TypeOK, TypeOK', NEW j \in Keys, Expire(j), NEW k \in Keys, PaidFor(k)
  PROVE  PaidFor(k)'
<1>1. Committed(k)' = Committed(k) /\ Belated(k)' = Belated(k) /\ Open(k)' = Open(k)
  BY DEF Expire, Committed, Belated, Open
<1>2. CASE j = k
  <2>1. expiries'[k] = expiries[k] + 1
    BY <1>2 DEF Expire, TypeOK
  <2>2. /\ Cardinality(Committed(k)) \in Nat /\ Cardinality(Open(k)) \in Nat
        /\ Cardinality(Belated(k)) \in Nat
    BY CountedSets, Counting
  <2> QED BY <1>1, <2>1, <2>2, CountedSets DEF PaidFor, Token
<1>3. CASE j # k
  <2>1. expiries'[k] = expiries[k] /\ record'[k] = record[k]
    BY <1>3 DEF Expire, TypeOK
  <2> QED BY <1>1, <2>1 DEF PaidFor, Token, Free
<1> QED BY <1>2, <1>3

\* A domain change is repeated only after an expiry of its key or after a failure
\* that came later than its commit (RepeatsAccounted): whatever retries, crashes
\* and lost responses there are.
THEOREM RepeatsAlwaysAccounted == Spec => []RepeatsAccounted
<1>1. Init => Paid
  <2> SUFFICES ASSUME Init, NEW k \in Keys PROVE PaidFor(k)
    BY DEF Paid
  <2>1. Committed(k) = {} /\ Open(k) = {} /\ Belated(k) = {}
    BY DEF Init, Committed, Open, Belated
  <2>2. /\ Cardinality(Committed(k)) = 0 /\ Cardinality(Open(k)) = 0
        /\ Cardinality(Belated(k)) = 0
    BY <2>1, FS_EmptySet
  <2> QED BY <2>2 DEF Init, PaidFor, Token
<1>2. TypeOK /\ TypeOK' /\ Reserved /\ Paid /\ [Next]_vars => Paid'
  <2> SUFFICES ASSUME TypeOK, TypeOK', Progress, Paid, [Next]_vars, NEW k \in Keys
               PROVE  PaidFor(k)'
    BY DEF Paid, Reserved
  <2>1. PaidFor(k)
    BY DEF Paid
  <2>2. CASE UNCHANGED vars
    BY <2>1, <2>2 DEF vars, history, PaidFor, Token, Committed, Belated, Open, Free
  <2>3. ASSUME NEW r \in Requests,
               \/ Reserve(r) \/ Read(r) \/ Reclaim(r) \/ ReclaimLost(r)
               \/ Refuse(r) \/ Commit(r) \/ RestFails(r) \/ Return(r)
               \/ Undo(r) \/ Save(r) \/ Fail(r)
        PROVE  PaidFor(k)'
    BY <2>1, <2>3, PaidByTaking, PaidByAnswer, PaidByUseCase
  <2>4. ASSUME NEW j \in Keys, Expire(j) PROVE PaidFor(k)'
    BY <2>1, <2>4, PaidByExpiry
  <2> QED BY <2>2, <2>3, <2>4 DEF Next
<1>3. TypeOK /\ Paid => RepeatsAccounted
  <2> SUFFICES ASSUME TypeOK, Paid, NEW k \in Keys
               PROVE  Cardinality(Committed(k)) <= 1 + expiries[k] + Cardinality(Belated(k))
    BY DEF RepeatsAccounted, Committed, Belated
  <2>1. /\ Cardinality(Committed(k)) \in Nat /\ Cardinality(Open(k)) \in Nat
        /\ Cardinality(Belated(k)) \in Nat
    BY CountedSets, Counting
  <2> QED BY <2>1, CountedSets DEF Paid, PaidFor, Token
<1> QED BY <1>1, <1>2, <1>3, Invariance, PTL DEF Spec
=============================================================================
