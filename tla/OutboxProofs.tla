---------------------------- MODULE OutboxProofs ----------------------------
(***************************************************************************)
(* Theorems about the outbox, for every number of rows, workers, attempts  *)
(* and faults: types, the exclusive claim, the finality of outcomes, the   *)
(* at-least-once hand-over and the honest dead letter; that it never hands *)
(* a message over again without a failure or a fault that accounts for it; *)
(* and that it implements an at-least-once queue.                          *)
(***************************************************************************)
EXTENDS Outbox, FiniteSetTheorems, TLAPS

\* A worker on a row moves to another label and stays well typed.
LEMMA GotoType ==
  ASSUME WorkerOK, NEW w \in Workers, NEW label \in Labels,
         pc[w] # "idle", Goto(w, label)
  PROVE  WorkerOK'
BY DEF WorkerOK, Goto

\* A worker that lets go of its row is idle and well typed.
LEMMA ReleaseType ==
  ASSUME WorkerOK, NEW w \in Workers, Release(w)
  PROVE  WorkerOK'
BY DEF WorkerOK, Release, Labels

\* What a worker that is not idle is on is a row.
LEMMA OnRow ==
  ASSUME TypeOK, NEW w \in Workers, pc[w] # "idle"
  PROVE  cur[w] \in Events
BY DEF TypeOK, WorkerOK

\* The type invariant of the outbox holds in every reachable state.
THEOREM TypeCorrect == Spec => []TypeOK
<1>1. Init => TypeOK
  BY OutboxAssumption
     DEF Init, TypeOK, RowOK, WorkerOK, HistoryOK, Statuses, Labels
<1>2. TypeOK /\ [Next]_vars => TypeOK'
  <2> SUFFICES ASSUME TypeOK, [Next]_vars PROVE RowOK' /\ WorkerOK' /\ HistoryOK'
    BY DEF TypeOK
  <2> USE DEF row, worker, history
  <2>a. RowOK /\ WorkerOK /\ HistoryOK
    BY DEF TypeOK
  <2>r. UNCHANGED row => RowOK'
    BY <2>a DEF RowOK
  <2>w. UNCHANGED worker => WorkerOK'
    BY <2>a DEF WorkerOK
  <2>h. UNCHANGED <<faults, history>> => HistoryOK'
    BY <2>a DEF HistoryOK
  <2>l. /\ "idle" \in Labels /\ Finding \subseteq Labels
        /\ Delivering \subseteq Labels /\ Failing \subseteq Labels
        /\ "idle" \notin Finding \union Delivering \union Failing
    BY DEF Labels, Finding, Delivering, Failing
  <2>1. ASSUME NEW e \in Events, Enqueue(e) \/ Purge(e) \/ BecomeDue(e) \/ LockExpires(e)
        PROVE  RowOK' /\ WorkerOK' /\ HistoryOK'
    <3>1. RowOK'
      BY <2>1, <2>a DEF Enqueue, Purge, BecomeDue, LockExpires, LockAges, RowOK, Statuses
    <3>2. QED
      BY <2>1, <2>w, <2>h, <3>1 DEF Enqueue, Purge, BecomeDue, LockExpires
  <2>2. ASSUME NEW e \in Events, LockOverrun(e)
        PROVE  RowOK' /\ WorkerOK' /\ HistoryOK'
    <3>1. RowOK'
      BY <2>2, <2>a DEF LockOverrun, LockAges, RowOK
    <3>2. HistoryOK'
      BY <2>2, <2>a, OutboxAssumption DEF LockOverrun, HistoryOK
    <3>3. QED
      BY <2>2, <2>w, <3>1, <3>2 DEF LockOverrun
  <2>3. ASSUME NEW w \in Workers, Crash(w)
        PROVE  RowOK' /\ WorkerOK' /\ HistoryOK'
    <3>1. HistoryOK'
      BY <2>3, <2>a, OutboxAssumption DEF Crash, HistoryOK
    <3>2. QED
      BY <2>3, <2>a, <2>r, <3>1, ReleaseType DEF Crash
  <2>4. ASSUME NEW w \in Workers, Find(w)
        PROVE  RowOK' /\ WorkerOK' /\ HistoryOK'
    <3>1. WorkerOK'
      BY <2>4, <2>a DEF Find, Eligible, WorkerOK, Labels, Finding
    <3>2. QED
      BY <2>4, <2>r, <2>h, <3>1 DEF Find
  <2>5. ASSUME NEW w \in Workers, Claim(w)
        PROVE  RowOK' /\ WorkerOK' /\ HistoryOK'
    <3>1. RowOK'
      BY <2>5, <2>a DEF Claim, RowOK, Statuses
    <3>2. WorkerOK'
      <4> DEFINE label == IF Kind[cur[w]] = "TELEGRAM" THEN "lookup" ELSE "send"
      <4>1. label \in Labels /\ pc[w] # "idle" /\ Goto(w, label)
        BY <2>5, <2>l DEF Claim, Delivering
      <4>2. QED
        BY <4>1, <2>a, GotoType
    <3>3. QED
      BY <2>5, <2>h, <3>1, <3>2 DEF Claim
  <2>6. ASSUME NEW w \in Workers, ClaimLost(w)
        PROVE  RowOK' /\ WorkerOK' /\ HistoryOK'
    BY <2>6, <2>a, <2>r, <2>h, ReleaseType DEF ClaimLost
  <2>7. ASSUME NEW w \in Workers,
               \/ LookupNone(w) \/ LookupQuiet(w) \/ LookupActive(w)
               \/ Send(w) \/ SendUnacknowledged(w) \/ Throw(w)
        PROVE  RowOK' /\ WorkerOK' /\ HistoryOK'
    <3>1. RowOK'
      BY <2>7, <2>r DEF LookupNone, LookupQuiet, LookupActive, Send, SendUnacknowledged, Throw
    <3>2. PICK label \in Labels : pc[w] # "idle" /\ Goto(w, label)
      BY <2>7, <2>l DEF LookupNone, LookupQuiet, LookupActive, Send, SendUnacknowledged, Throw,
                        Delivering, Failing
    <3>3. WorkerOK'
      BY <3>2, <2>a, GotoType
    <3>4. cur[w] \in Events
      BY <3>2, OnRow
    <3>5. HistoryOK'
      BY <2>7, <2>a, <3>4
         DEF LookupNone, LookupQuiet, LookupActive, Send, SendUnacknowledged, Throw, HistoryOK
    <3>6. QED
      BY <3>1, <3>3, <3>5
  <2>8. ASSUME NEW w \in Workers, Mark(w) \/ Defer(w) \/ FailWrite(w)
        PROVE  RowOK' /\ WorkerOK' /\ HistoryOK'
    <3>1. RowOK'
      <4>1. seen[w] + 1 \in Nat
        BY <2>a DEF WorkerOK
      <4>2. CASE Mark(w) \/ Defer(w)
        BY <2>a, <4>2 DEF Mark, Defer, RowOK, Statuses
      <4>3. CASE FailWrite(w)
        <5> DEFINE n == seen[w] + 1
        <5> HIDE DEF n
        <5>1. n \in Nat
          BY <4>1 DEF n
        <5>2. CASE status[cur[w]] = "purged"
          BY <2>a, <4>3, <5>2 DEF FailWrite, RowOK
        <5>3. CASE status[cur[w]] # "purged"
          BY <2>a, <4>3, <5>1, <5>3 DEF FailWrite, RowOK, Statuses, n
        <5>4. QED
          BY <5>2, <5>3
      <4>4. QED
        BY <2>8, <4>2, <4>3
    <3>2. QED
      BY <2>8, <2>a, <2>h, <3>1, ReleaseType DEF Mark, Defer, FailWrite
  <2>9. ASSUME NEW w \in Workers, FailRead(w)
        PROVE  RowOK' /\ WorkerOK' /\ HistoryOK'
    <3>1. WorkerOK'
      <4>1. CASE status[cur[w]] = "PROCESSING"
        <5>1. attempts[cur[w]] \in Nat
          BY <2>9, <2>a, OnRow DEF FailRead, RowOK
        <5>2. "failWrite" \in Labels
          BY <2>l DEF Failing
        <5>3. cur[w] \in Events
          BY <2>9, OnRow DEF FailRead
        <5>4. /\ seen' = [seen EXCEPT ![w] = attempts[cur[w]]]
              /\ pc' = [pc EXCEPT ![w] = "failWrite"]
              /\ cur' = cur
          BY <2>9, <4>1 DEF FailRead
        <5>5. QED
          BY <2>a, <5>1, <5>2, <5>3, <5>4 DEF WorkerOK
      <4>2. CASE status[cur[w]] # "PROCESSING"
        BY <2>9, <2>a, <4>2, ReleaseType DEF FailRead
      <4>3. QED
        BY <4>1, <4>2
    <3>2. QED
      BY <2>9, <2>r, <2>h, <3>1 DEF FailRead
  <2>10. CASE UNCHANGED vars
    BY <2>10, <2>r, <2>w, <2>h DEF vars
  <2>11. QED
    BY <2>1, <2>2, <2>3, <2>4, <2>5, <2>6, <2>7, <2>8, <2>9, <2>10 DEF Next, WorkerStep
<1>3. QED
  BY <1>1, <1>2, PTL DEF Spec

-----------------------------------------------------------------------------
(***************************************************************************)
(* The exclusive claim.                                                    *)
(***************************************************************************)

\* Holding a row, pointwise: the form of ExclusiveClaim that is inductive.
Claimed ==
  \A e \in Events \ overrun : \A w \in Workers :
    Holds(w, e) => /\ status[e] = "PROCESSING" /\ ~stale[e]
                   /\ \A v \in Workers : Holds(v, e) => v = w

\* A step that moves worker w from one label to another inside deliver and
\* fail, or makes it let go, gives nobody a row.
LEMMA HoldsKept ==
  ASSUME TypeOK, NEW w \in Workers, NEW v \in Workers, NEW e \in Events,
         \/ Release(w)
         \/ \E label : Goto(w, label) /\ pc[w] \in Delivering \union Failing,
         Holds(v, e)'
  PROVE  Holds(v, e)
<1>1. CASE Release(w)
  BY <1>1 DEF Release, Holds, TypeOK, WorkerOK, Delivering, Failing
<1>2. CASE \E label : Goto(w, label) /\ pc[w] \in Delivering \union Failing
  BY <1>2 DEF Goto, Holds, TypeOK, WorkerOK
<1>3. QED
  BY <1>1, <1>2

\* A step that keeps the status and the lock of every row, gives nobody a row
\* and forgets no overrun, preserves the exclusive claim.
LEMMA ClaimedKept ==
  ASSUME Claimed, NEW S \in SUBSET Events,
         overrun \subseteq overrun',
         \A e \in Events \ overrun' : \A w \in Workers : Holds(w, e)' => Holds(w, e),
         \A e \in (Events \ overrun') \ S : status'[e] = status[e] /\ stale'[e] = stale[e],
         \A e \in S \ overrun' : \A w \in Workers : ~Holds(w, e)'
  PROVE  Claimed'
BY DEF Claimed

\* As long as no lock expired under a live worker, a row is held by at most one
\* worker, PROCESSING and freshly locked.
THEOREM ClaimExclusive == Spec => []Claimed
<1>1. Init => Claimed
  BY DEF Init, Claimed, Holds, Delivering, Failing
<1>2. TypeOK /\ Claimed /\ [Next]_vars => Claimed'
  <2> SUFFICES ASSUME TypeOK, Claimed, [Next]_vars PROVE Claimed'
    OBVIOUS
  <2> USE DEF row, worker, history
  <2>w. UNCHANGED worker => \A e \in Events, w \in Workers : Holds(w, e)' => Holds(w, e)
    BY DEF Holds
  <2>1. ASSUME NEW e \in Events, Enqueue(e) \/ Purge(e) \/ BecomeDue(e) \/ LockExpires(e)
        PROVE  Claimed'
    <3>1. overrun' = overrun /\ UNCHANGED worker
      BY <2>1 DEF Enqueue, Purge, BecomeDue, LockExpires
    <3>2. \A f \in Events \ {e} : status'[f] = status[f] /\ stale'[f] = stale[f]
      BY <2>1 DEF TypeOK, RowOK, Enqueue, Purge, BecomeDue, LockExpires, LockAges
    <3>3. e \notin overrun => \A w \in Workers : ~Holds(w, e)
      BY <2>1 DEF Enqueue, Purge, BecomeDue, LockExpires, Claimed, Holders
    <3>4. QED
      BY <2>w, <3>1, <3>2, <3>3, ClaimedKept, {e} \in SUBSET Events DEF Holds
  <2>2. ASSUME NEW e \in Events, LockOverrun(e)
        PROVE  Claimed'
    <3>1. overrun' = overrun \union {e} /\ UNCHANGED worker
      BY <2>2 DEF LockOverrun
    <3>2. \A f \in Events \ {e} : status'[f] = status[f] /\ stale'[f] = stale[f]
      BY <2>2 DEF TypeOK, RowOK, LockOverrun, LockAges
    <3>3. QED
      BY <2>w, <3>1, <3>2, ClaimedKept, {e} \in SUBSET Events
  <2>3. ASSUME NEW w \in Workers, Find(w)
        PROVE  Claimed'
    <3>1. UNCHANGED <<status, stale, overrun>>
      BY <2>3 DEF Find
    <3>2. \A e \in Events, v \in Workers : Holds(v, e)' => Holds(v, e)
      BY <2>3 DEF Find, Holds, TypeOK, WorkerOK, Delivering, Failing
    <3>3. QED
      BY <3>1, <3>2, ClaimedKept, {} \in SUBSET Events
  <2>4. ASSUME NEW w \in Workers, Claim(w)
        PROVE  Claimed'
    <3> DEFINE e0 == cur[w]
    <3>1. e0 \in Events /\ pc[w] \notin Delivering \union Failing
      BY <2>4, OnRow DEF Claim, Finding, Delivering, Failing
    <3>2. e0 \notin overrun => \A v \in Workers : ~Holds(v, e0)
      BY <2>4, <3>1 DEF Claim, Claimable, Claimed
    <3>3. \A v \in Workers \ {w}, e \in Events : Holds(v, e)' => Holds(v, e)
      BY <2>4 DEF Claim, Goto, Holds, TypeOK, WorkerOK
    <3>4. \A e \in Events \ {e0} : ~Holds(w, e)'
      BY <2>4 DEF Claim, Goto, Holds
    <3>5. \A e \in Events \ {e0} : status'[e] = status[e] /\ stale'[e] = stale[e]
      BY <2>4 DEF Claim, TypeOK, RowOK
    <3>6. status'[e0] = "PROCESSING" /\ ~stale'[e0] /\ overrun' = overrun
      BY <2>4, <3>1 DEF Claim, TypeOK, RowOK
    <3> SUFFICES ASSUME NEW e \in Events \ overrun, NEW u \in Workers, Holds(u, e)'
                 PROVE  /\ status'[e] = "PROCESSING" /\ ~stale'[e]
                        /\ \A v \in Workers : Holds(v, e)' => v = u
      BY <3>6 DEF Claimed
    <3>7. CASE e = e0
      BY <3>2, <3>3, <3>6, <3>7
    <3>8. CASE e # e0
      <4>1. Holds(u, e) /\ \A v \in Workers : Holds(v, e)' => Holds(v, e)
        BY <3>3, <3>4, <3>8
      <4>2. QED
        BY <4>1, <3>5, <3>8 DEF Claimed
    <3>9. QED
      BY <3>7, <3>8
  <2>5. ASSUME NEW w \in Workers, Crash(w) \/ ClaimLost(w)
        PROVE  Claimed'
    <3>1. UNCHANGED <<status, stale, overrun>> /\ Release(w)
      BY <2>5 DEF Crash, ClaimLost
    <3>2. QED
      BY <3>1, HoldsKept, ClaimedKept, {} \in SUBSET Events
  <2>6. ASSUME NEW w \in Workers,
               \/ LookupNone(w) \/ LookupQuiet(w) \/ LookupActive(w)
               \/ Send(w) \/ SendUnacknowledged(w) \/ Throw(w)
        PROVE  Claimed'
    <3>1. UNCHANGED <<status, stale, overrun>>
      BY <2>6 DEF LookupNone, LookupQuiet, LookupActive, Send, SendUnacknowledged, Throw
    <3>2. \E label : Goto(w, label) /\ pc[w] \in Delivering \union Failing
      BY <2>6 DEF LookupNone, LookupQuiet, LookupActive, Send, SendUnacknowledged, Throw,
                  Delivering
    <3>3. QED
      BY <3>1, <3>2, HoldsKept, ClaimedKept, {} \in SUBSET Events
  <2>7. ASSUME NEW w \in Workers, FailRead(w)
        PROVE  Claimed'
    <3>1. UNCHANGED <<status, stale, overrun>>
      BY <2>7 DEF FailRead
    <3>2. \A e \in Events, v \in Workers : Holds(v, e)' => Holds(v, e)
      <4>1. CASE status[cur[w]] = "PROCESSING"
        BY <2>7, <4>1 DEF FailRead, Holds, TypeOK, WorkerOK, Failing
      <4>2. CASE status[cur[w]] # "PROCESSING"
        BY <2>7, <4>2, HoldsKept DEF FailRead
      <4>3. QED
        BY <4>1, <4>2
    <3>3. QED
      BY <3>1, <3>2, ClaimedKept, {} \in SUBSET Events
  <2>8. ASSUME NEW w \in Workers, Mark(w) \/ Defer(w) \/ FailWrite(w)
        PROVE  Claimed'
    <3>1. Release(w) /\ overrun' = overrun
      BY <2>8 DEF Mark, Defer, FailWrite
    <3>2. PICK e0 \in Events : e0 = cur[w] /\ Holds(w, e0)
      BY <2>8, OnRow DEF Mark, Defer, FailWrite, Holds, Delivering, Failing
    <3>3. \A e \in Events \ {e0} : status'[e] = status[e] /\ stale'[e] = stale[e]
      BY <2>8, <3>2 DEF Mark, Defer, FailWrite, TypeOK, RowOK
    <3>4. \A v \in Workers, e \in Events : Holds(v, e)' => Holds(v, e)
      BY <3>1, HoldsKept
    <3>5. ~Holds(w, e0)'
      BY <3>1 DEF Release, Holds, TypeOK, WorkerOK, Delivering, Failing
    <3>6. e0 \notin overrun => \A v \in Workers : ~Holds(v, e0)'
      BY <3>2, <3>4, <3>5 DEF Claimed
    <3>7. QED
      BY <3>1, <3>2, <3>3, <3>4, <3>6, ClaimedKept, {e0} \in SUBSET Events
  <2>9. CASE UNCHANGED vars
    BY <2>9, <2>w, ClaimedKept, {} \in SUBSET Events DEF vars
  <2>10. QED
    BY <2>1, <2>2, <2>3, <2>4, <2>5, <2>6, <2>7, <2>8, <2>9 DEF Next, WorkerStep
<1>3. QED
  BY <1>1, <1>2, TypeCorrect, PTL DEF Spec

\* ExclusiveClaim, as the runs check it.
THEOREM ClaimExclusiveInv == Spec => []ExclusiveClaim
<1>1. Claimed => ExclusiveClaim
  BY DEF Claimed, ExclusiveClaim, Holders
<1>2. QED
  BY <1>1, ClaimExclusive, PTL

\* No late worker changes an outcome, unless a lock expired under a live one.
THEOREM OutcomesFinal == Spec => OutcomeFinal
<1> DEFINE Kept == \A e \in Events \ overrun : Terminal(e) => status'[e] = status[e]
<1>1. TypeOK /\ Claimed /\ [Next]_vars => [Kept]_vars
  <2> SUFFICES ASSUME TypeOK, Claimed, Next, NEW e \in Events \ overrun, Terminal(e)
               PROVE  status'[e] = status[e]
    OBVIOUS
  <2> USE DEF row, Terminal, TypeOK, RowOK
  <2>1. ASSUME NEW f \in Events,
               Enqueue(f) \/ Purge(f) \/ BecomeDue(f) \/ LockExpires(f) \/ LockOverrun(f)
        PROVE  status'[e] = status[e]
    BY <2>1 DEF Enqueue, Purge, BecomeDue, LockExpires, LockOverrun, LockAges
  <2>2. ASSUME NEW w \in Workers, Claim(w) \/ Mark(w) \/ Defer(w)
        PROVE  status'[e] = status[e]
    <3>1. cur[w] = e => UNCHANGED status
      BY <2>2 DEF Claim, Claimable, Mark, Defer
    <3>2. cur[w] # e => status'[e] = status[e]
      BY <2>2 DEF Claim, Mark, Defer
    <3>3. QED
      BY <3>1, <3>2
  <2>3. ASSUME NEW w \in Workers, FailWrite(w)
        PROVE  status'[e] = status[e]
    <3>1. CASE cur[w] = e
      <4>1. Holds(w, e)
        BY <2>3, <3>1 DEF FailWrite, Holds, Failing
      <4>2. status[e] = "PROCESSING"
        BY <4>1 DEF Claimed
      <4>3. QED
        BY <4>2
    <3>2. CASE cur[w] # e
      BY <2>3, <3>2 DEF FailWrite
    <3>3. QED
      BY <3>1, <3>2
  <2>4. ASSUME NEW w \in Workers,
               \/ Crash(w) \/ Find(w) \/ ClaimLost(w) \/ LookupNone(w) \/ LookupQuiet(w)
               \/ LookupActive(w) \/ Send(w) \/ SendUnacknowledged(w) \/ Throw(w) \/ FailRead(w)
        PROVE  status'[e] = status[e]
    BY <2>4 DEF Crash, Find, ClaimLost, LookupNone, LookupQuiet, LookupActive, Send,
                SendUnacknowledged, Throw, FailRead
  <2>5. QED
    BY <2>1, <2>2, <2>3, <2>4 DEF Next, WorkerStep
<1>2. QED
  BY <1>1, TypeCorrect, ClaimExclusive, PTL DEF Spec, OutcomeFinal

-----------------------------------------------------------------------------
(***************************************************************************)
(* At least once, and the honest dead letter.                              *)
(***************************************************************************)

Handed(e) == sends[e] > 0 \/ e \in skipped

\* DeliveredWasHanded, with what it needs of a worker about to mark its row.
HandedInv ==
  /\ DeliveredWasHanded
  /\ \A w \in Workers : pc[w] = "mark" => Handed(cur[w])

\* A row is DELIVERED only after a provider took it or nobody was there to
\* take it.
THEOREM HandedBeforeDelivered == Spec => []DeliveredWasHanded
<1>1. Init => HandedInv
  BY DEF Init, HandedInv, DeliveredWasHanded
<1>2. TypeOK /\ HandedInv /\ [Next]_vars => HandedInv'
  <2> SUFFICES ASSUME TypeOK, HandedInv, [Next]_vars PROVE HandedInv'
    OBVIOUS
  <2> USE DEF row, worker, history
  \* Without a new hand-over it is enough that no row becomes DELIVERED, and no
  \* worker comes to mark its row, unless the row was handed over.
  <2>k. ASSUME UNCHANGED <<sends, skipped>>,
               \A e \in Events : status'[e] = "DELIVERED" => status[e] = "DELIVERED" \/ Handed(e),
               \A w \in Workers : pc'[w] = "mark" => Handed(cur'[w])
        PROVE  HandedInv'
    BY <2>k DEF HandedInv, DeliveredWasHanded, Handed
  <2>1. ASSUME NEW e \in Events,
               Enqueue(e) \/ Purge(e) \/ BecomeDue(e) \/ LockExpires(e) \/ LockOverrun(e)
        PROVE  HandedInv'
    BY <2>1, <2>k DEF Enqueue, Purge, BecomeDue, LockExpires, LockOverrun, LockAges,
                      HandedInv, TypeOK, RowOK
  <2>2. ASSUME NEW w \in Workers,
               \/ Crash(w) \/ Find(w) \/ ClaimLost(w) \/ LookupQuiet(w) \/ LookupActive(w)
               \/ Throw(w) \/ FailRead(w)
        PROVE  HandedInv'
    <3>1. UNCHANGED <<status, sends, skipped>>
      BY <2>2 DEF Crash, Find, ClaimLost, LookupQuiet, LookupActive, Throw, FailRead
    <3>2. \A v \in Workers : pc'[v] = "mark" => pc[v] = "mark" /\ cur'[v] = cur[v]
      BY <2>2 DEF Crash, Find, ClaimLost, LookupQuiet, LookupActive, Throw, FailRead,
                  Goto, Release, TypeOK, WorkerOK
    <3>3. QED
      BY <3>1, <3>2, <2>k DEF HandedInv
  <2>3. ASSUME NEW w \in Workers, Claim(w)
        PROVE  HandedInv'
    <3>1. UNCHANGED <<sends, skipped, cur>>
      BY <2>3 DEF Claim, Goto
    <3>2. \A e \in Events : status'[e] = "DELIVERED" => status[e] = "DELIVERED"
      BY <2>3 DEF Claim, TypeOK, RowOK
    <3>3. \A v \in Workers : pc'[v] = "mark" => pc[v] = "mark"
      BY <2>3 DEF Claim, Goto, TypeOK, WorkerOK
    <3>4. QED
      BY <3>1, <3>2, <3>3, <2>k DEF HandedInv
  <2>4. ASSUME NEW w \in Workers, LookupNone(w)
        PROVE  HandedInv'
    BY <2>4 DEF LookupNone, Goto, HandedInv, DeliveredWasHanded, Handed, TypeOK, WorkerOK
  <2>5. ASSUME NEW w \in Workers, Send(w) \/ SendUnacknowledged(w)
        PROVE  HandedInv'
    <3>1. PICK e0 \in Events : e0 = cur[w]
      BY <2>5, OnRow DEF Send, SendUnacknowledged
    <3>2. /\ sends'[e0] = sends[e0] + 1
          /\ \A e \in Events \ {e0} : sends'[e] = sends[e]
          /\ \A e \in Events : sends[e] \in Nat
      BY <2>5, <3>1 DEF Send, SendUnacknowledged, TypeOK, HistoryOK
    <3>3. UNCHANGED <<status, skipped, cur>>
      BY <2>5 DEF Send, SendUnacknowledged, Goto
    <3>4. Handed(e0)' /\ \A e \in Events : Handed(e) => Handed(e)'
      BY <3>2, <3>3 DEF Handed
    <3>5. \A v \in Workers : pc'[v] = "mark" => v = w \/ pc[v] = "mark"
      BY <2>5 DEF Send, SendUnacknowledged, Goto, TypeOK, WorkerOK
    <3>6. \A v \in Workers : pc[v] = "mark" => cur[v] \in Events
      BY OnRow
    <3>7. DeliveredWasHanded'
      BY <3>3, <3>4 DEF HandedInv, DeliveredWasHanded, Handed
    <3>8. \A v \in Workers : pc'[v] = "mark" => Handed(cur[v])'
      BY <3>1, <3>3, <3>4, <3>5, <3>6 DEF HandedInv, Handed
    <3>9. QED
      BY <3>7, <3>8 DEF HandedInv
  <2>6. ASSUME NEW w \in Workers, Mark(w) \/ Defer(w) \/ FailWrite(w)
        PROVE  HandedInv'
    <3>1. UNCHANGED <<sends, skipped>> /\ Release(w)
      BY <2>6 DEF Mark, Defer, FailWrite
    <3>2. \A v \in Workers : pc'[v] = "mark" => pc[v] = "mark" /\ cur'[v] = cur[v]
      BY <3>1 DEF Release, TypeOK, WorkerOK
    <3>3. \A e \in Events : status'[e] = "DELIVERED" => status[e] = "DELIVERED" \/ Handed(e)
      BY <2>6 DEF Mark, Defer, FailWrite, HandedInv, TypeOK, RowOK
    <3>4. QED
      BY <3>1, <3>2, <3>3, <2>k DEF HandedInv
  <2>7. CASE UNCHANGED vars
    BY <2>7, <2>k DEF vars, HandedInv
  <2>8. QED
    BY <2>1, <2>2, <2>3, <2>4, <2>5, <2>6, <2>7 DEF Next, WorkerStep
<1>3. HandedInv => DeliveredWasHanded
  BY DEF HandedInv
<1>4. QED
  BY <1>1, <1>2, <1>3, TypeCorrect, PTL DEF Spec

\* The workers that carry a failure of row e that its row does not show yet.
Failed(e) == {w \in Workers : cur[w] = e /\ pc[w] \in Failing}

\* attempts never runs ahead of the failures that happened, although two
\* workers may overwrite each other's count.
CountInv ==
  /\ \A e \in Events : attempts[e] + Cardinality(Failed(e)) <= failures[e]
  /\ \A w \in Workers : pc[w] = "failWrite" =>
        seen[w] + Cardinality(Failed(cur[w])) <= failures[cur[w]]
  /\ \A e \in Events : status[e] = "FAILED" => attempts[e] >= MaxAttempts

LEMMA FailedFinite ==
  ASSUME NEW e
  PROVE  IsFiniteSet(Failed(e)) /\ Cardinality(Failed(e)) \in Nat
BY OutboxAssumption, FS_Subset, FS_CardinalityType DEF Failed

\* A step that charges no failure, writes no count and starts no fail()
\* preserves CountInv: the set of failing workers may only shrink.
LEMMA CountKept ==
  ASSUME TypeOK, TypeOK', CountInv, UNCHANGED <<attempts, failures>>,
         \A v \in Workers : pc'[v] \in Failing =>
            pc[v] = pc'[v] /\ cur[v] = cur'[v] /\ seen[v] = seen'[v],
         \A e \in Events : status'[e] = "FAILED" => status[e] = "FAILED"
  PROVE  CountInv'
<1>1. ASSUME NEW e \in Events
      PROVE  /\ Cardinality(Failed(e)) \in Nat /\ Cardinality(Failed(e)') \in Nat
             /\ Cardinality(Failed(e)') <= Cardinality(Failed(e))
  <2>1. Failed(e)' \in SUBSET Failed(e)
    BY DEF Failed
  <2>2. QED
    BY <2>1, FailedFinite, FS_Subset, FS_CardinalityType
<1>2. \A e \in Events : attempts'[e] + Cardinality(Failed(e)') <= failures'[e]
  BY <1>1 DEF CountInv, TypeOK, RowOK, HistoryOK
<1>3. ASSUME NEW v \in Workers, pc'[v] = "failWrite"
      PROVE  seen'[v] + Cardinality(Failed(cur[v])') <= failures'[cur'[v]]
  <2>1. PICK e \in Events : e = cur[v] /\ e = cur'[v] /\ pc[v] = "failWrite" /\ seen[v] = seen'[v]
    BY <1>3, OnRow DEF Failing
  <2>2. seen[v] + Cardinality(Failed(e)) <= failures[e]
    BY <2>1 DEF CountInv
  <2>3. seen[v] \in Nat /\ failures[e] \in Nat
    BY DEF TypeOK, WorkerOK, HistoryOK
  <2>4. Failed(e)' = Failed(cur[v])'
    BY <2>1
  <2>5. QED
    BY <1>1, <2>1, <2>2, <2>3, <2>4
<1>4. \A e \in Events : status'[e] = "FAILED" => attempts'[e] >= MaxAttempts
  BY DEF CountInv
<1>5. QED
  BY <1>2, <1>3, <1>4 DEF CountInv

\* FAILED is honest: MaxAttempts deliveries of the row did fail before it was
\* given up, whatever fail() of stale workers wrote over each other.
THEOREM DeadLettersEarned == Spec => []DeadLetterEarned
<1>1. Init => CountInv
  <2> SUFFICES ASSUME Init PROVE CountInv
    OBVIOUS
  <2>1. ASSUME NEW e \in Events PROVE Cardinality(Failed(e)) = 0
    <3>1. Failed(e) = {}
      BY DEF Init, Failed, Failing
    <3>2. QED
      BY <3>1, FS_EmptySet
  <2>2. QED
    BY <2>1 DEF Init, CountInv
<1>2. TypeOK /\ TypeOK' /\ CountInv /\ [Next]_vars => CountInv'
  <2> SUFFICES ASSUME TypeOK, TypeOK', CountInv, [Next]_vars PROVE CountInv'
    OBVIOUS
  <2> USE DEF row, worker, history
  <2>1. ASSUME NEW e \in Events,
               Enqueue(e) \/ Purge(e) \/ BecomeDue(e) \/ LockExpires(e) \/ LockOverrun(e)
        PROVE  CountInv'
    BY <2>1, CountKept DEF Enqueue, Purge, BecomeDue, LockExpires, LockOverrun, LockAges,
                           TypeOK, RowOK
  <2>2. ASSUME NEW w \in Workers,
               \/ Crash(w) \/ Find(w) \/ ClaimLost(w) \/ LookupNone(w) \/ LookupQuiet(w)
               \/ LookupActive(w) \/ Send(w)
        PROVE  CountInv'
    BY <2>2, CountKept DEF Crash, Find, ClaimLost, LookupNone, LookupQuiet, LookupActive, Send,
                           Goto, Release, TypeOK, WorkerOK, Failing
  <2>3. ASSUME NEW w \in Workers, Claim(w) \/ Mark(w) \/ Defer(w)
        PROVE  CountInv'
    <3>1. UNCHANGED <<attempts, failures>>
      BY <2>3 DEF Claim, Mark, Defer
    <3>2. \A v \in Workers : pc'[v] \in Failing =>
             pc[v] = pc'[v] /\ cur[v] = cur'[v] /\ seen[v] = seen'[v]
      BY <2>3 DEF Claim, Mark, Defer, Goto, Release, TypeOK, WorkerOK, Failing
    <3>3. \A e \in Events : status'[e] = "FAILED" => status[e] = "FAILED"
      BY <2>3 DEF Claim, Mark, Defer, TypeOK, RowOK
    <3>4. QED
      BY <3>1, <3>2, <3>3, CountKept
  <2>4. ASSUME NEW w \in Workers, Throw(w) \/ SendUnacknowledged(w)
        PROVE  CountInv'
    <3>1. PICK e0 \in Events : e0 = cur[w]
      BY <2>4, OnRow DEF Throw, SendUnacknowledged, Delivering
    <3>2. /\ UNCHANGED <<attempts, status, cur, seen>>
          /\ pc' = [pc EXCEPT ![w] = "fail"]
          /\ failures' = [failures EXCEPT ![e0] = @ + 1]
          /\ pc[w] \notin Failing
      BY <2>4, <3>1 DEF Throw, SendUnacknowledged, Goto, Delivering, Failing
    <3>3. Failed(e0)' = Failed(e0) \union {w} /\ w \notin Failed(e0)
      BY <3>1, <3>2 DEF Failed, Failing, TypeOK, WorkerOK
    <3>4. /\ Cardinality(Failed(e0)') = Cardinality(Failed(e0)) + 1
          /\ Cardinality(Failed(e0)) \in Nat
      BY <3>3, FailedFinite, FS_AddElement
    <3>5. \A e \in Events \ {e0} : Failed(e)' = Failed(e)
      BY <3>1, <3>2 DEF Failed, TypeOK, WorkerOK
    <3>6. failures'[e0] = failures[e0] + 1 /\ \A e \in Events \ {e0} : failures'[e] = failures[e]
      BY <3>2 DEF TypeOK, HistoryOK
    <3>7. ASSUME NEW e \in Events, NEW n \in Nat, n + Cardinality(Failed(e)) <= failures[e]
          PROVE  n + Cardinality(Failed(e)') <= failures'[e]
      <4>1. failures[e] \in Nat
        BY DEF TypeOK, HistoryOK
      <4>2. CASE e = e0
        BY <3>4, <3>6, <3>7, <4>1, <4>2
      <4>3. CASE e # e0
        BY <3>5, <3>6, <3>7, <4>3
      <4>4. QED
        BY <4>2, <4>3
    <3>8. \A e \in Events : attempts'[e] + Cardinality(Failed(e)') <= failures'[e]
      BY <3>2, <3>7 DEF CountInv, TypeOK, RowOK
    <3>9. ASSUME NEW v \in Workers, pc'[v] = "failWrite"
          PROVE  seen'[v] + Cardinality(Failed(cur[v])') <= failures'[cur'[v]]
      <4>1. pc[v] = "failWrite"
        BY <3>2, <3>9 DEF TypeOK, WorkerOK
      <4>2. PICK e \in Events : e = cur[v] /\ e = cur'[v]
        BY <3>2, <4>1, OnRow
      <4>3. seen[v] + Cardinality(Failed(e)) <= failures[e] /\ seen[v] \in Nat
        BY <4>1, <4>2 DEF CountInv, TypeOK, WorkerOK
      <4>4. Failed(e)' = Failed(cur[v])' /\ seen'[v] = seen[v]
        BY <3>2, <4>2
      <4>5. QED
        BY <3>7, <4>2, <4>3, <4>4
    <3>10. \A e \in Events : status'[e] = "FAILED" => attempts'[e] >= MaxAttempts
      BY <3>2 DEF CountInv
    <3>11. QED
      BY <3>8, <3>9, <3>10 DEF CountInv
  <2>5. ASSUME NEW w \in Workers, FailRead(w)
        PROVE  CountInv'
    <3>1. CASE status[cur[w]] # "PROCESSING"
      BY <2>5, <3>1, CountKept DEF FailRead, Release, TypeOK, WorkerOK, Failing
    <3>2. CASE status[cur[w]] = "PROCESSING"
      <4>1. PICK e0 \in Events : e0 = cur[w]
        BY <2>5, OnRow DEF FailRead
      <4>2. /\ UNCHANGED <<row, cur, failures>>
            /\ pc' = [pc EXCEPT ![w] = "failWrite"]
            /\ seen' = [seen EXCEPT ![w] = attempts[e0]]
            /\ pc[w] = "fail"
        BY <2>5, <3>2, <4>1 DEF FailRead
      <4>3. \A e : Failed(e)' = Failed(e)
        BY <4>2 DEF Failed, Failing, TypeOK, WorkerOK
      <4>4. ASSUME NEW v \in Workers, pc'[v] = "failWrite"
            PROVE  seen'[v] + Cardinality(Failed(cur[v])') <= failures'[cur'[v]]
        <5>1. Failed(cur[v])' = Failed(cur[v])
          BY <4>2, <4>3
        <5>2. CASE v = w
          BY <4>1, <4>2, <5>1, <5>2 DEF CountInv, TypeOK, WorkerOK
        <5>3. CASE v # w
          BY <4>2, <4>4, <5>1, <5>3 DEF CountInv, TypeOK, WorkerOK
        <5>4. QED
          BY <5>2, <5>3
      <4>5. QED
        BY <4>2, <4>3, <4>4 DEF CountInv
    <3>3. QED
      BY <3>1, <3>2
  <2>6. ASSUME NEW w \in Workers, FailWrite(w)
        PROVE  CountInv'
    <3>1. CASE status[cur[w]] = "purged"
      BY <2>6, <3>1, CountKept DEF FailWrite, Release, TypeOK, WorkerOK, Failing
    <3>2. CASE status[cur[w]] # "purged"
      <4>1. PICK e0 \in Events : e0 = cur[w]
        BY <2>6, OnRow DEF FailWrite
      <4>2. /\ attempts' = [attempts EXCEPT ![e0] = seen[w] + 1]
            /\ status' = [status EXCEPT ![e0] = IF seen[w] + 1 >= MaxAttempts THEN "FAILED"
                                                                              ELSE "PENDING"]
            /\ UNCHANGED failures /\ Release(w) /\ pc[w] = "failWrite"
        BY <2>6, <3>2, <4>1 DEF FailWrite
      <4>3. Failed(e0)' = Failed(e0) \ {w} /\ w \in Failed(e0)
        BY <4>1, <4>2 DEF Failed, Release, Failing, TypeOK, WorkerOK
      <4>4. /\ Cardinality(Failed(e0)') = Cardinality(Failed(e0)) - 1
            /\ Cardinality(Failed(e0)) \in Nat /\ Cardinality(Failed(e0)') \in Nat
        <5>1. IsFiniteSet(Failed(e0)) /\ Cardinality(Failed(e0)) \in Nat
          BY FailedFinite
        <5>2. /\ Cardinality(Failed(e0) \ {w}) = Cardinality(Failed(e0)) - 1
              /\ Cardinality(Failed(e0) \ {w}) \in Nat
          BY <4>3, <5>1, FS_RemoveElement, FS_CardinalityType
        <5>3. QED
          BY <4>3, <5>1, <5>2
      <4>5. \A e \in Events \ {e0} : Failed(e)' = Failed(e)
        BY <4>1, <4>2 DEF Failed, Release, Failing, TypeOK, WorkerOK
      <4>6. seen[w] + Cardinality(Failed(e0)) <= failures[e0] /\ seen[w] \in Nat
        BY <4>1, <4>2 DEF CountInv, TypeOK, WorkerOK
      <4>7. ASSUME NEW e \in Events
            PROVE  attempts'[e] + Cardinality(Failed(e)') <= failures'[e]
        <5>1. CASE e = e0
          <6>1. attempts'[e0] = seen[w] + 1 /\ failures'[e0] = failures[e0]
            BY <4>2 DEF TypeOK, RowOK
          <6>2. failures[e0] \in Nat
            BY DEF TypeOK, HistoryOK
          <6>3. QED
            BY <4>4, <4>6, <5>1, <6>1, <6>2
        <5>2. CASE e # e0
          BY <4>2, <4>5, <5>2 DEF CountInv, TypeOK, RowOK
        <5>3. QED
          BY <5>1, <5>2
      <4>8. ASSUME NEW v \in Workers, pc'[v] = "failWrite"
            PROVE  seen'[v] + Cardinality(Failed(cur[v])') <= failures'[cur'[v]]
        <5>1. v # w /\ pc[v] = "failWrite" /\ seen'[v] = seen[v] /\ cur'[v] = cur[v]
          BY <4>2, <4>8 DEF Release, TypeOK, WorkerOK
        <5>2. PICK e \in Events : e = cur[v] /\ e = cur'[v]
          BY <5>1, OnRow
        <5>3. seen[v] + Cardinality(Failed(e)) <= failures[e] /\ seen[v] \in Nat
          BY <5>1, <5>2 DEF CountInv, TypeOK, WorkerOK
        <5>4. Failed(e)' = Failed(cur[v])' /\ failures[e] \in Nat
          BY <5>2 DEF TypeOK, HistoryOK
        <5>5. CASE e = e0
          BY <4>2, <4>4, <5>1, <5>2, <5>3, <5>4, <5>5
        <5>6. CASE e # e0
          BY <4>2, <4>5, <5>1, <5>2, <5>3, <5>4, <5>6
        <5>7. QED
          BY <5>5, <5>6
      <4>9. ASSUME NEW e \in Events, status'[e] = "FAILED"
            PROVE  attempts'[e] >= MaxAttempts
        <5> DEFINE n == seen[w] + 1
        <5>1. CASE e = e0
          <6>1. attempts'[e0] = n /\ status'[e0] = IF n >= MaxAttempts THEN "FAILED" ELSE "PENDING"
            BY <4>2 DEF TypeOK, RowOK
          <6>2. CASE n >= MaxAttempts
            BY <5>1, <6>1, <6>2
          <6>3. CASE ~(n >= MaxAttempts)
            BY <4>9, <5>1, <6>1, <6>3
          <6>4. QED
            BY <6>2, <6>3
        <5>2. CASE e # e0
          BY <4>2, <4>9, <5>2 DEF CountInv
        <5>3. QED
          BY <5>1, <5>2
      <4>10. QED
        BY <4>7, <4>8, <4>9 DEF CountInv
    <3>3. QED
      BY <3>1, <3>2
  <2>7. CASE UNCHANGED vars
    BY <2>7, CountKept DEF vars, TypeOK, WorkerOK
  <2>8. QED
    BY <2>1, <2>2, <2>3, <2>4, <2>5, <2>6, <2>7 DEF Next, WorkerStep
<1>3. TypeOK /\ CountInv => DeadLetterEarned
  <2> SUFFICES ASSUME TypeOK, CountInv, NEW e \in Events, status[e] = "FAILED"
               PROVE  failures[e] >= MaxAttempts
    BY DEF DeadLetterEarned
  <2>1. Cardinality(Failed(e)) \in Nat
    BY FailedFinite
  <2>2. attempts[e] \in Nat /\ failures[e] \in Nat
    BY DEF TypeOK, RowOK, HistoryOK
  <2>3. QED
    BY <2>1, <2>2, OutboxAssumption DEF CountInv
<1>4. QED
  BY <1>1, <1>2, <1>3, TypeCorrect, PTL DEF Spec

-----------------------------------------------------------------------------
(***************************************************************************)
(* Repetitions.  A row can be handed over by the workers that owe it a     *)
(* hand-over or a failure, and once more if it is free to be claimed: with *)
(* what was already sent, that never exceeds what failures and faults pay. *)
(***************************************************************************)

Owing(e) == {w \in Workers : Holds(w, e) /\ pc[w] # "mark"}

\* Waiting, or locked by nobody, or by a lock that may be taken over.
Free(e) == \/ status[e] \in {"none", "PENDING"}
           \/ status[e] = "PROCESSING" /\ (stale[e] \/ Holders(e) = {})

Token(e) == IF Free(e) THEN 1 ELSE 0

PaidFor(e) == sends[e] + Cardinality(Owing(e)) + Token(e) <= 1 + failures[e] + faults

Paid == \A e \in Events : PaidFor(e)

\* The workers that owe something are finitely many.
LEMMA OwingFinite ==
  ASSUME NEW e
  PROVE  IsFiniteSet(Owing(e)) /\ Cardinality(Owing(e)) \in Nat
BY OutboxAssumption, FS_Subset, FS_CardinalityType DEF Owing

\* A set of them with at most one more, or with one less.
LEMMA OwingBounds ==
  ASSUME NEW e, NEW w
  PROVE  /\ Owing(e)' \subseteq Owing(e) => Cardinality(Owing(e)') <= Cardinality(Owing(e))
         /\ Owing(e)' \subseteq Owing(e) \union {w}
              => Cardinality(Owing(e)') <= Cardinality(Owing(e)) + 1
         /\ w \in Owing(e) /\ Owing(e)' \subseteq Owing(e) \ {w}
              => Cardinality(Owing(e)') <= Cardinality(Owing(e)) - 1
         /\ Cardinality(Owing(e)) \in Nat /\ Cardinality(Owing(e)') \in Nat
<1>1. IsFiniteSet(Owing(e)) /\ Cardinality(Owing(e)) \in Nat
  BY OwingFinite
<1>2. /\ IsFiniteSet(Owing(e) \union {w}) /\ IsFiniteSet(Owing(e) \ {w})
      /\ Cardinality(Owing(e) \union {w}) \in {Cardinality(Owing(e)), Cardinality(Owing(e)) + 1}
      /\ w \in Owing(e) => Cardinality(Owing(e) \ {w}) = Cardinality(Owing(e)) - 1
  BY <1>1, FS_AddElement, FS_RemoveElement
<1>3. Cardinality(Owing(e)') \in Nat
  BY OutboxAssumption, FS_Subset, FS_CardinalityType DEF Owing
<1>4. \A S : IsFiniteSet(S) /\ Owing(e)' \subseteq S
               => Cardinality(Owing(e)') <= Cardinality(S)
  BY FS_Subset
<1>5. Owing(e)' \subseteq Owing(e) => Cardinality(Owing(e)') <= Cardinality(Owing(e))
  BY <1>1, <1>4
<1>6. Owing(e)' \subseteq Owing(e) \union {w}
        => Cardinality(Owing(e)') <= Cardinality(Owing(e) \union {w})
  BY <1>2, <1>4
<1>7. Owing(e)' \subseteq Owing(e) \ {w} => Cardinality(Owing(e)') <= Cardinality(Owing(e) \ {w})
  BY <1>2, <1>4
<1> QED BY <1>1, <1>2, <1>3, <1>5, <1>6, <1>7

\* A row has a token or none, as it is free or not.
LEMMA TokenBounds ==
  ASSUME NEW e
  PROVE  /\ Token(e) \in 0 .. 1 /\ Token(e)' \in 0 .. 1
         /\ (Free(e)' => Free(e)) => Token(e)' <= Token(e)
         /\ Free(e) => Token(e) = 1
         /\ ~Free(e)' => Token(e)' = 0
BY DEF Token

\* The counters are natural numbers.
LEMMA Counters ==
  ASSUME TypeOK, NEW e \in Events
  PROVE  sends[e] \in Nat /\ failures[e] \in Nat /\ faults \in Nat
BY DEF TypeOK, HistoryOK

\* Without a hand-over, nobody who comes to owe one, and no row that becomes
\* free, what was paid for stays paid.
LEMMA PaidKept ==
  ASSUME TypeOK, TypeOK', NEW e \in Events, PaidFor(e),
         Owing(e)' \subseteq Owing(e), Free(e)' => Free(e),
         sends'[e] = sends[e], failures'[e] >= failures[e], faults' >= faults
  PROVE  PaidFor(e)'
<1>1. /\ sends[e] \in Nat /\ failures[e] \in Nat /\ faults \in Nat
      /\ sends'[e] \in Nat /\ failures'[e] \in Nat /\ faults' \in Nat
  BY DEF TypeOK, HistoryOK
<1>2. /\ Cardinality(Owing(e)) \in Nat /\ Cardinality(Owing(e)') \in Nat
      /\ Cardinality(Owing(e)') <= Cardinality(Owing(e))
  BY OwingBounds
<1>3. Token(e) \in 0 .. 1 /\ Token(e)' \in 0 .. 1 /\ Token(e)' <= Token(e)
  BY TokenBounds
<1> QED BY <1>1, <1>2, <1>3 DEF PaidFor

\* A worker that lets go of its row pays for the row it makes free.
LEMMA PaidReleased ==
  ASSUME TypeOK, TypeOK', NEW e \in Events, PaidFor(e),
         NEW w \in Owing(e), Owing(e)' \subseteq Owing(e) \ {w},
         UNCHANGED <<sends, failures, faults>>
  PROVE  PaidFor(e)'
<1>1. sends[e] \in Nat /\ failures[e] \in Nat /\ faults \in Nat
  BY Counters
<1>2. /\ Cardinality(Owing(e)) \in Nat /\ Cardinality(Owing(e)') \in Nat
      /\ Cardinality(Owing(e)') <= Cardinality(Owing(e)) - 1
  BY OwingBounds
<1>3. Token(e) \in 0 .. 1 /\ Token(e)' \in 0 .. 1
  BY TokenBounds
<1> QED BY <1>1, <1>2, <1>3 DEF PaidFor

\* The rows a worker is not on notice nothing of its steps.
LEMMA Elsewhere ==
  ASSUME TypeOK, NEW w \in Workers, pc[w] # "idle", NEW e \in Events, e # cur[w],
         Release(w) \/ \E label : Goto(w, label),
         status'[e] = status[e], stale'[e] = stale[e]
  PROVE  Owing(e)' \subseteq Owing(e) /\ (Free(e)' => Free(e))
<1>1. \A v \in Workers : (Holds(v, e)' <=> Holds(v, e)) /\ (Holds(v, e) => pc'[v] = pc[v])
  <2>1. CASE Release(w)
    BY <2>1, OutboxAssumption DEF Release, Holds, TypeOK, WorkerOK
  <2>2. CASE \E label : Goto(w, label)
    BY <2>2 DEF Goto, Holds, TypeOK, WorkerOK
  <2> QED BY <2>1, <2>2
<1>2. Holders(e)' = Holders(e)
  BY <1>1 DEF Holders
<1> QED BY <1>1, <1>2 DEF Owing, Free

\* What happens to a row apart from its worker makes no row free, but for the
\* lock that expires under its worker: a fault pays for that.
LEMMA PaidByRows ==
  ASSUME TypeOK, TypeOK', NEW e0 \in Events, NEW e \in Events, PaidFor(e),
         Enqueue(e0) \/ Purge(e0) \/ BecomeDue(e0) \/ LockExpires(e0) \/ LockOverrun(e0)
  PROVE  PaidFor(e)'
<1> USE DEF row, worker, history
<1>1. UNCHANGED <<pc, cur>> => Owing(e)' = Owing(e) /\ Holders(e)' = Holders(e)
  BY DEF Owing, Holders, Holds
<1>2. CASE Enqueue(e0) \/ Purge(e0) \/ BecomeDue(e0) \/ LockExpires(e0)
  <2>1. UNCHANGED <<pc, cur, sends, failures, faults>>
    BY <1>2 DEF Enqueue, Purge, BecomeDue, LockExpires
  <2>2. Free(e)' => Free(e)
    BY <1>1, <1>2, <2>1 DEF Enqueue, Purge, BecomeDue, LockExpires, LockAges, Free, TypeOK, RowOK
  <2>3. failures'[e] >= failures[e] /\ faults' >= faults
    BY <2>1, Counters
  <2> QED BY <1>1, <2>1, <2>2, <2>3, PaidKept
<1>3. CASE LockOverrun(e0)
  <2>1. UNCHANGED <<pc, cur, sends, failures>> /\ faults' = faults + 1
    BY <1>3 DEF LockOverrun
  <2>2. /\ Cardinality(Owing(e)) \in Nat /\ Cardinality(Owing(e)') \in Nat
        /\ Cardinality(Owing(e)') <= Cardinality(Owing(e))
    BY <1>1, <2>1, OwingBounds
  <2>3. Token(e) \in 0 .. 1 /\ Token(e)' \in 0 .. 1
    BY TokenBounds
  <2>4. sends[e] \in Nat /\ failures[e] \in Nat /\ faults \in Nat
    BY Counters
  <2> QED BY <2>1, <2>2, <2>3, <2>4 DEF PaidFor
<1> QED BY <1>2, <1>3

\* Finding a row and losing it again.
LEMMA PaidByFinding ==
  ASSUME TypeOK, TypeOK', NEW w \in Workers, NEW e \in Events, PaidFor(e),
         Find(w) \/ ClaimLost(w)
  PROVE  PaidFor(e)'
<1> USE DEF row, worker, history
<1>1. UNCHANGED <<status, stale, sends, failures, faults>>
  BY DEF Find, ClaimLost
<1>2. \A v \in Workers : (Holds(v, e)' <=> Holds(v, e)) /\ (Holds(v, e) => pc'[v] = pc[v])
  BY DEF Find, ClaimLost, Release, Holds, Delivering, Failing, Finding, TypeOK, WorkerOK
<1>3. Owing(e)' \subseteq Owing(e) /\ (Free(e)' => Free(e))
  BY <1>1, <1>2 DEF Owing, Free, Holders
<1>4. failures'[e] >= failures[e] /\ faults' >= faults
  BY <1>1, Counters
<1> QED BY <1>1, <1>3, <1>4, PaidKept

\* A claim takes the token of the row that was free.
LEMMA PaidByClaim ==
  ASSUME TypeOK, TypeOK', NEW w \in Workers, NEW e \in Events, PaidFor(e), Claim(w)
  PROVE  PaidFor(e)'
<1> USE DEF row, worker, history
<1>1. cur[w] \in Events /\ pc[w] # "idle"
  BY OnRow DEF Claim, Finding
<1>2. UNCHANGED <<sends, failures, faults>>
  BY DEF Claim
<1>3. CASE e = cur[w]
  <2>1. Free(e)
    BY <1>3 DEF Claim, Claimable, Free
  <2>2. status'[e] = "PROCESSING" /\ ~stale'[e] /\ w \in Holders(e)'
    BY <1>1, <1>3 DEF Claim, Goto, Holders, Holds, Delivering, TypeOK, RowOK, WorkerOK
  <2>3. ~Free(e)'
    BY <2>2 DEF Free
  <2>4. Owing(e)' \subseteq Owing(e) \union {w}
    BY DEF Claim, Goto, Owing, Holds, TypeOK, WorkerOK
  <2>5. /\ Cardinality(Owing(e)) \in Nat /\ Cardinality(Owing(e)') \in Nat
        /\ Cardinality(Owing(e)') <= Cardinality(Owing(e)) + 1
    BY <2>4, OwingBounds
  <2>6. Token(e) = 1 /\ Token(e)' = 0
    BY <2>1, <2>3, TokenBounds
  <2>7. sends[e] \in Nat /\ failures[e] \in Nat /\ faults \in Nat
    BY Counters
  <2> QED BY <1>2, <2>5, <2>6, <2>7 DEF PaidFor
<1>4. CASE e # cur[w]
  <2>1. status'[e] = status[e] /\ stale'[e] = stale[e] /\ \E label : Goto(w, label)
    BY <1>4 DEF Claim, TypeOK, RowOK
  <2>2. failures'[e] >= failures[e] /\ faults' >= faults
    BY <1>2, Counters
  <2> QED BY <1>1, <1>2, <1>4, <2>1, <2>2, Elsewhere, PaidKept
<1> QED BY <1>3, <1>4

\* Inside deliver: a hand-over uses what its worker owed, an error pays for what
\* the worker owes from then on.
LEMMA PaidByDelivery ==
  ASSUME TypeOK, TypeOK', NEW w \in Workers, NEW e \in Events, PaidFor(e),
         \/ LookupNone(w) \/ LookupQuiet(w) \/ LookupActive(w)
         \/ Send(w) \/ SendUnacknowledged(w) \/ Throw(w)
  PROVE  PaidFor(e)'
<1> USE DEF row, worker, history
<1>1. /\ cur[w] \in Events /\ pc[w] \in Delivering /\ pc[w] # "idle"
      /\ UNCHANGED <<status, stale, cur, faults>>
      /\ \E label : Goto(w, label)
  BY OnRow DEF LookupNone, LookupQuiet, LookupActive, Send, SendUnacknowledged, Throw, Goto,
               Delivering
<1>2. \A v \in Workers : v # w => pc'[v] = pc[v]
  BY <1>1 DEF Goto, TypeOK, WorkerOK
<1>3. CASE e # cur[w]
  <2>1. sends'[e] = sends[e] /\ failures'[e] = failures[e]
    BY <1>3 DEF LookupNone, LookupQuiet, LookupActive, Send, SendUnacknowledged, Throw,
                TypeOK, HistoryOK
  <2>2. failures'[e] >= failures[e] /\ faults' >= faults
    BY <1>1, <2>1, Counters
  <2> QED BY <1>1, <1>3, <2>1, <2>2, Elsewhere, PaidKept
<1>4. CASE e = cur[w]
  <2>1. Holds(w, e) /\ Holds(w, e)'
    BY <1>1, <1>4 DEF LookupNone, LookupQuiet, LookupActive, Send, SendUnacknowledged, Throw,
                      Goto, Holds, Delivering, Failing, TypeOK, WorkerOK
  <2>2. Holders(e)' = Holders(e) /\ Owing(e)' \subseteq Owing(e) \union {w}
    BY <1>1, <1>2, <2>1 DEF Holders, Holds, Owing
  <2>3. Free(e)' <=> Free(e)
    BY <1>1, <2>2 DEF Free
  <2>c. /\ sends[e] \in Nat /\ failures[e] \in Nat /\ faults \in Nat
        /\ Cardinality(Owing(e)) \in Nat /\ Cardinality(Owing(e)') \in Nat
    BY Counters, OwingBounds
  <2>t. Token(e) \in 0 .. 1 /\ Token(e)' \in 0 .. 1 /\ Token(e)' <= Token(e)
    BY <2>3, TokenBounds
  <2>4. CASE LookupNone(w) \/ LookupQuiet(w) \/ LookupActive(w)
    <3>1. pc[w] # "mark" /\ UNCHANGED <<sends, failures>>
      BY <2>4 DEF LookupNone, LookupQuiet, LookupActive
    <3>2. Owing(e)' \subseteq Owing(e)
      BY <2>1, <2>2, <3>1 DEF Owing
    <3>3. failures'[e] >= failures[e] /\ faults' >= faults
      BY <1>1, <3>1, Counters
    <3> QED BY <2>3, <3>1, <3>2, <3>3, PaidKept
  <2>5. CASE Send(w)
    <3>1. pc[w] # "mark" /\ pc'[w] = "mark" /\ UNCHANGED failures /\ sends'[e] = sends[e] + 1
      BY <1>4, <2>5 DEF Send, Goto, TypeOK, WorkerOK, HistoryOK
    <3>2. w \in Owing(e) /\ Owing(e)' \subseteq Owing(e) \ {w}
      BY <2>1, <2>2, <3>1 DEF Owing
    <3>3. Cardinality(Owing(e)') <= Cardinality(Owing(e)) - 1
      BY <3>2, OwingBounds
    <3> QED BY <1>1, <2>c, <2>t, <3>1, <3>3 DEF PaidFor
  <2>6. CASE SendUnacknowledged(w)
    <3>1. /\ pc[w] # "mark"
          /\ failures'[e] = failures[e] + 1 /\ sends'[e] = sends[e] + 1
      BY <1>4, <2>6 DEF SendUnacknowledged, TypeOK, HistoryOK
    <3>2. Owing(e)' \subseteq Owing(e)
      BY <2>1, <2>2, <3>1 DEF Owing
    <3>3. Cardinality(Owing(e)') <= Cardinality(Owing(e))
      BY <3>2, OwingBounds
    <3> QED BY <1>1, <2>c, <2>t, <3>1, <3>3 DEF PaidFor
  <2>7. CASE Throw(w)
    <3>1. failures'[e] = failures[e] + 1 /\ sends'[e] = sends[e]
      BY <1>4, <2>7 DEF Throw, TypeOK, HistoryOK
    <3>2. Cardinality(Owing(e)') <= Cardinality(Owing(e)) + 1
      BY <2>2, OwingBounds
    <3> QED BY <1>1, <2>c, <2>t, <3>1, <3>2 DEF PaidFor
  <2> QED BY <2>4, <2>5, <2>6, <2>7
<1> QED BY <1>3, <1>4

\* The end of a delivery, and the death of a worker.
LEMMA PaidByEnd ==
  ASSUME TypeOK, TypeOK', NEW w \in Workers, NEW e \in Events, PaidFor(e),
         Mark(w) \/ Defer(w) \/ FailRead(w) \/ FailWrite(w) \/ Crash(w)
  PROVE  PaidFor(e)'
<1> USE DEF row, worker, history
<1>1. UNCHANGED <<sends, failures>> /\ pc[w] # "idle" /\ cur[w] \in Events
  BY OnRow DEF Mark, Defer, FailRead, FailWrite, Crash
<1>2. Release(w) => Owing(e)' \subseteq Owing(e) \ {w}
  BY OutboxAssumption DEF Release, Owing, Holds, TypeOK, WorkerOK, Delivering, Failing
<1>3. CASE Crash(w)
  <2>1. Release(w) /\ faults' = faults + 1
    BY <1>3 DEF Crash
  <2>2. Owing(e)' \subseteq Owing(e)
    BY <1>2, <2>1
  <2>3. /\ Cardinality(Owing(e)) \in Nat /\ Cardinality(Owing(e)') \in Nat
        /\ Cardinality(Owing(e)') <= Cardinality(Owing(e))
    BY <2>2, OwingBounds
  <2>4. Token(e) \in 0 .. 1 /\ Token(e)' \in 0 .. 1
    BY TokenBounds
  <2>5. sends[e] \in Nat /\ failures[e] \in Nat /\ faults \in Nat
    BY Counters
  <2> QED BY <1>1, <2>1, <2>3, <2>4, <2>5 DEF PaidFor
<1>4. CASE e # cur[w] /\ (Mark(w) \/ Defer(w) \/ FailRead(w) \/ FailWrite(w))
  <2>1. status'[e] = status[e] /\ stale'[e] = stale[e] /\ faults' = faults
    BY <1>4 DEF Mark, Defer, FailRead, FailWrite, TypeOK, RowOK
  <2>2. Owing(e)' \subseteq Owing(e) /\ (Free(e)' => Free(e))
    <3>1. CASE Release(w)
      BY <1>1, <1>4, <2>1, <3>1, Elsewhere
    <3>2. CASE ~Release(w)
      <4>1. Goto(w, "failWrite") \/ (pc' = [pc EXCEPT ![w] = "failWrite"] /\ UNCHANGED cur)
        BY <1>4, <3>2 DEF Mark, Defer, FailRead, FailWrite
      <4>2. \A v \in Workers : (Holds(v, e)' <=> Holds(v, e)) /\ (Holds(v, e) => pc'[v] = pc[v])
        BY <1>4, <4>1 DEF Goto, Holds, TypeOK, WorkerOK
      <4> QED BY <2>1, <4>2 DEF Owing, Free, Holders
    <3> QED BY <3>1, <3>2
  <2>3. failures'[e] >= failures[e] /\ faults' >= faults
    BY <1>1, <2>1, Counters
  <2> QED BY <1>1, <2>2, <2>3, PaidKept
<1>5. CASE e = cur[w] /\ Mark(w)
  <2>1. Owing(e)' \subseteq Owing(e)
    BY <1>2, <1>5 DEF Mark
  <2>2. Free(e)' => Free(e)
    BY <1>5 DEF Mark, Free, TypeOK, RowOK
  <2>3. failures'[e] >= failures[e] /\ faults' >= faults
    BY <1>1, <1>5, Counters DEF Mark
  <2> QED BY <1>1, <2>1, <2>2, <2>3, PaidKept
<1>6. CASE e = cur[w] /\ (Defer(w) \/ FailWrite(w) \/ (FailRead(w) /\ Release(w)))
  <2>1. Release(w) /\ faults' = faults /\ w \in Owing(e)
    BY <1>6 DEF Defer, FailWrite, FailRead, Owing, Holds, Delivering, Failing
  <2> QED BY <1>1, <1>2, <2>1, PaidReleased
<1>7. CASE e = cur[w] /\ FailRead(w) /\ ~Release(w)
  <2>1. /\ UNCHANGED <<status, stale, cur, faults>>
        /\ pc[w] = "fail" /\ pc' = [pc EXCEPT ![w] = "failWrite"]
    BY <1>7 DEF FailRead
  <2>2. Holders(e)' = Holders(e) /\ Owing(e)' = Owing(e)
    BY <2>1 DEF Holders, Owing, Holds, Failing, TypeOK, WorkerOK
  <2>3. Free(e)' => Free(e)
    BY <2>1, <2>2 DEF Free
  <2>4. failures'[e] >= failures[e] /\ faults' >= faults
    BY <1>1, <2>1, Counters
  <2> QED BY <1>1, <2>2, <2>3, <2>4, PaidKept
<1> QED BY <1>3, <1>4, <1>5, <1>6, <1>7

\* Nothing but a failed delivery or a fault makes the outbox hand a message over
\* again (RepeatsAccounted), however claims, reclaims and late workers overlap.
THEOREM RepeatsAlwaysAccounted == Spec => []RepeatsAccounted
<1>1. Init => Paid
  <2> SUFFICES ASSUME Init, NEW e \in Events PROVE PaidFor(e)
    BY DEF Paid
  <2>1. Owing(e) = {}
    BY DEF Init, Owing, Holds, Delivering, Failing
  <2>2. Cardinality(Owing(e)) = 0
    BY <2>1, FS_EmptySet
  <2> QED BY <2>2 DEF Init, PaidFor, Token
<1>2. TypeOK /\ TypeOK' /\ Paid /\ [Next]_vars => Paid'
  <2> SUFFICES ASSUME TypeOK, TypeOK', Paid, [Next]_vars, NEW e \in Events PROVE PaidFor(e)'
    BY DEF Paid
  <2>1. PaidFor(e)
    BY DEF Paid
  <2>2. CASE UNCHANGED vars
    BY <2>1, <2>2 DEF vars, row, worker, history, PaidFor, Token, Owing, Free, Holders, Holds
  <2>3. ASSUME NEW e0 \in Events, \/ Enqueue(e0) \/ Purge(e0) \/ BecomeDue(e0)
                                  \/ LockExpires(e0) \/ LockOverrun(e0)
        PROVE  PaidFor(e)'
    BY <2>1, <2>3, PaidByRows
  <2>4. ASSUME NEW w \in Workers, WorkerStep(w) \/ Crash(w) PROVE PaidFor(e)'
    BY <2>1, <2>4, PaidByFinding, PaidByClaim, PaidByDelivery, PaidByEnd DEF WorkerStep
  <2> QED BY <2>2, <2>3, <2>4 DEF Next
<1>3. TypeOK /\ Paid => RepeatsAccounted
  BY OwingFinite, Counters DEF Paid, PaidFor, Token, RepeatsAccounted
<1> QED BY <1>1, <1>2, <1>3, TypeCorrect, PTL DEF Spec

-----------------------------------------------------------------------------
(***************************************************************************)
(* The refinement.                                                         *)
(***************************************************************************)

HandedRows == {e \in Events : sends[e] > 0} \union skipped

\* A worker is on a row that was inserted.
Begun == \A w \in Workers : pc[w] # "idle" => status[cur[w]] # "none"

\* Rows are inserted before a worker finds them.
LEMMA BegunKept == TypeOK /\ Begun /\ [Next]_vars => Begun'
<1> SUFFICES ASSUME TypeOK, Begun, [Next]_vars PROVE Begun'
  OBVIOUS
<1> USE DEF row, worker, history
<1>0. \A w \in Workers : pc[w] # "idle" => cur[w] \in Events
  BY OnRow
<1>1. CASE UNCHANGED vars
  BY <1>1 DEF vars, Begun
<1>2. ASSUME NEW e \in Events, \/ Enqueue(e) \/ Purge(e) \/ BecomeDue(e)
                              \/ LockExpires(e) \/ LockOverrun(e)
      PROVE  Begun'
  BY <1>0, <1>2 DEF Enqueue, Purge, BecomeDue, LockExpires, LockOverrun, LockAges, Begun,
                    TypeOK, RowOK
<1>3. ASSUME NEW w \in Workers, Find(w) PROVE Begun'
  BY <1>3 DEF Find, Eligible, Begun, TypeOK, WorkerOK
<1>4. ASSUME NEW w \in Workers,
             \/ Claim(w) \/ LookupNone(w) \/ LookupQuiet(w) \/ LookupActive(w)
             \/ Send(w) \/ SendUnacknowledged(w) \/ Throw(w)
      PROVE  Begun'
  <2>1. cur' = cur /\ pc[w] # "idle" /\ \A v \in Workers : v # w => pc'[v] = pc[v]
    BY <1>4 DEF Claim, LookupNone, LookupQuiet, LookupActive, Send, SendUnacknowledged, Throw,
                Goto, Finding, Delivering, TypeOK, WorkerOK
  <2>2. \A e \in Events : status'[e] = "none" => status[e] = "none"
    BY <1>4 DEF Claim, LookupNone, LookupQuiet, LookupActive, Send, SendUnacknowledged, Throw,
                TypeOK, RowOK
  <2> QED BY <1>0, <2>1, <2>2 DEF Begun
<1>5. ASSUME NEW w \in Workers,
             ClaimLost(w) \/ Mark(w) \/ Defer(w) \/ FailRead(w) \/ FailWrite(w) \/ Crash(w)
      PROVE  Begun'
  <2>1. \A v \in Workers : pc'[v] # "idle" => pc[v] # "idle" /\ cur'[v] = cur[v]
    BY <1>5 DEF ClaimLost, Mark, Defer, FailRead, FailWrite, Crash, Release, TypeOK, WorkerOK
  <2>2. \A e \in Events : status'[e] = "none" => status[e] = "none"
    BY <1>5 DEF ClaimLost, Mark, Defer, FailRead, FailWrite, Crash, TypeOK, RowOK
  <2> QED BY <1>0, <2>1, <2>2 DEF Begun
<1> QED BY <1>1, <1>2, <1>3, <1>4, <1>5 DEF Next, WorkerStep

\* Nothing that the queue shows has changed.
LEMMA QueueStutters ==
  ASSUME \A e \in Events : Outcome(e)' = Outcome(e), UNCHANGED <<sends, skipped, failures, overrun>>
  PROVE  UNCHANGED Queue!vars
BY DEF Queue!vars

\* One row goes to another outcome as the queue allows.
LEMMA QueueMoves ==
  ASSUME NEW e \in Events, \A f \in Events \ {e} : status'[f] = status[f],
         UNCHANGED <<sends, skipped, failures, overrun>>,
         \/ Outcome(e)' = Outcome(e)
         \/ Outcome(e) = "none" /\ Outcome(e)' = "open"
         \/ Outcome(e) = "open" /\ Outcome(e)' = "purged"
         \/ Outcome(e) = "open" /\ Outcome(e)' = "DELIVERED" /\ e \in HandedRows
         \/ /\ Outcome(e) = "open" \/ (Outcome(e) = "DELIVERED" /\ e \in overrun)
            /\ Outcome(e)' = "FAILED" /\ failures[e] >= MaxAttempts
         \/ Outcome(e) \in {"DELIVERED", "FAILED"} /\ Outcome(e)' = "open" /\ e \in overrun
  PROVE  [Queue!Next]_(Queue!vars)
<1>1. \A f \in Events \ {e} : Outcome(f)' = Outcome(f)
  BY DEF Outcome
<1>2. [f \in Events |-> Outcome(f)]' = [[f \in Events |-> Outcome(f)] EXCEPT ![e] = Outcome(e)']
  BY <1>1
<1>3. HandedRows' = HandedRows
  BY DEF HandedRows
<1>4. CASE Outcome(e)' = Outcome(e)
  BY <1>1, <1>4, QueueStutters
<1>5. CASE Outcome(e) = "none" /\ Outcome(e)' = "open"
  BY <1>2, <1>3, <1>5 DEF Queue!Next, Queue!Accept, Queue!Move, HandedRows
<1>6. CASE Outcome(e) = "open" /\ Outcome(e)' = "purged"
  BY <1>2, <1>3, <1>6 DEF Queue!Next, Queue!Withdraw, Queue!Move, HandedRows
<1>7. CASE Outcome(e) = "open" /\ Outcome(e)' = "DELIVERED" /\ e \in HandedRows
  BY <1>2, <1>3, <1>7 DEF Queue!Next, Queue!Deliver, Queue!Move, HandedRows
<1>8. CASE /\ Outcome(e) = "open" \/ (Outcome(e) = "DELIVERED" /\ e \in overrun)
           /\ Outcome(e)' = "FAILED" /\ failures[e] >= MaxAttempts
  BY <1>2, <1>3, <1>8 DEF Queue!Next, Queue!GiveUp, Queue!Move, HandedRows
<1>9. CASE Outcome(e) \in {"DELIVERED", "FAILED"} /\ Outcome(e)' = "open" /\ e \in overrun
  BY <1>2, <1>3, <1>9 DEF Queue!Next, Queue!Reopen, Queue!Move, HandedRows
<1> QED BY <1>4, <1>5, <1>6, <1>7, <1>8, <1>9

\* A worker tries its row.
LEMMA QueueAttempts ==
  ASSUME TypeOK, NEW e \in Events, status[e] # "none", UNCHANGED <<status, overrun>>,
         HandedRows' \in {HandedRows, HandedRows \union {e}},
         failures' \in {failures, [failures EXCEPT ![e] = @ + 1]}
  PROVE  [Queue!Next]_(Queue!vars)
<1>1. [f \in Events |-> Outcome(f)]' = [f \in Events |-> Outcome(f)]
  BY DEF Outcome
<1>2. Outcome(e) # "none"
  BY DEF Outcome
<1> QED BY <1>1, <1>2 DEF Queue!Next, Queue!Attempt, HandedRows

\* Every step of the outbox is a step of the queue, or shows nothing of it.
LEMMA QueueStep ==
  ASSUME TypeOK, TypeOK', Claimed, Begun, DeliveredWasHanded', DeadLetterEarned', [Next]_vars
  PROVE  [Queue!Next]_(Queue!vars)
<1> USE DEF row, worker, history
<1>1. CASE UNCHANGED vars
  BY <1>1, QueueStutters DEF vars, Outcome
<1>2. ASSUME NEW e \in Events, Enqueue(e) \/ Purge(e) PROVE [Queue!Next]_(Queue!vars)
  <2>1. /\ \A f \in Events \ {e} : status'[f] = status[f]
        /\ UNCHANGED <<sends, skipped, failures, overrun>>
        /\ \/ status[e] = "none" /\ status'[e] = "PENDING"
           \/ status[e] = "PENDING" /\ status'[e] = "purged"
    BY <1>2 DEF Enqueue, Purge, TypeOK, RowOK
  <2> QED BY <2>1, QueueMoves DEF Outcome
<1>3. ASSUME NEW e \in Events, BecomeDue(e) \/ LockExpires(e) PROVE [Queue!Next]_(Queue!vars)
  BY <1>3, QueueStutters DEF BecomeDue, LockExpires, LockAges, Outcome
<1>4. ASSUME NEW e \in Events, LockOverrun(e) PROVE [Queue!Next]_(Queue!vars)
  <2>1. /\ UNCHANGED <<status, sends, skipped, failures>> /\ status[e] = "PROCESSING"
        /\ overrun' = overrun \union {e}
    BY <1>4 DEF LockOverrun, LockAges
  <2>2. [f \in Events |-> Outcome(f)]' = [f \in Events |-> Outcome(f)]
    BY <2>1 DEF Outcome
  <2> QED BY <2>1, <2>2 DEF Queue!Next, Queue!Contest, Outcome
<1>5. ASSUME NEW w \in Workers,
             \/ Find(w) \/ ClaimLost(w) \/ LookupQuiet(w) \/ LookupActive(w)
             \/ FailRead(w) \/ Crash(w)
      PROVE  [Queue!Next]_(Queue!vars)
  <2>1. UNCHANGED <<status, sends, skipped, failures, overrun>>
    BY <1>5 DEF Find, ClaimLost, LookupQuiet, LookupActive, FailRead, Crash
  <2> QED BY <2>1, QueueStutters DEF Outcome
<1>6. ASSUME NEW w \in Workers,
             LookupNone(w) \/ Send(w) \/ SendUnacknowledged(w) \/ Throw(w)
      PROVE  [Queue!Next]_(Queue!vars)
  <2>1. PICK e \in Events : e = cur[w] /\ status[e] # "none"
    BY <1>6, OnRow DEF LookupNone, Send, SendUnacknowledged, Throw, Delivering, Begun
  <2>2. UNCHANGED <<status, overrun>>
    BY <1>6 DEF LookupNone, Send, SendUnacknowledged, Throw
  <2>3. failures' \in {failures, [failures EXCEPT ![e] = @ + 1]}
    BY <1>6, <2>1 DEF LookupNone, Send, SendUnacknowledged, Throw
  <2>4. CASE LookupNone(w)
    BY <2>1, <2>2, <2>3, <2>4, QueueAttempts DEF LookupNone, HandedRows
  <2>5. CASE Throw(w)
    BY <2>1, <2>2, <2>3, <2>5, QueueAttempts DEF Throw, HandedRows
  <2>6. CASE Send(w) \/ SendUnacknowledged(w)
    <3>1. skipped' = skipped /\ sends' = [sends EXCEPT ![e] = @ + 1]
      BY <2>1, <2>6 DEF Send, SendUnacknowledged
    <3>2. \A f \in Events : sends'[f] > 0 <=> (f = e \/ sends[f] > 0)
      BY <3>1 DEF TypeOK, HistoryOK
    <3>3. HandedRows' = HandedRows \union {e}
      BY <3>1, <3>2 DEF HandedRows
    <3> QED BY <2>1, <2>2, <2>3, <3>3, QueueAttempts
  <2> QED BY <1>6, <2>4, <2>5, <2>6
<1>7. ASSUME NEW w \in Workers, Claim(w) \/ Mark(w) \/ Defer(w) PROVE [Queue!Next]_(Queue!vars)
  <2>1. PICK e \in Events : e = cur[w]
    BY <1>7, OnRow DEF Claim, Mark, Defer, Finding
  <2>2. /\ \A f \in Events \ {e} : status'[f] = status[f]
        /\ UNCHANGED <<sends, skipped, failures, overrun>>
        /\ \/ status'[e] = status[e]
           \/ status[e] \in {"PENDING", "PROCESSING"} /\ status'[e] \in {"PENDING", "PROCESSING"}
           \/ status[e] = "PROCESSING" /\ status'[e] = "DELIVERED"
    BY <1>7, <2>1 DEF Claim, Claimable, Mark, Defer, TypeOK, RowOK
  <2>3. status'[e] = "DELIVERED" => e \in HandedRows
    BY <2>2 DEF DeliveredWasHanded, HandedRows
  <2> QED BY <2>2, <2>3, QueueMoves DEF Outcome
<1>8. ASSUME NEW w \in Workers, FailWrite(w) PROVE [Queue!Next]_(Queue!vars)
  <2>1. PICK e \in Events : e = cur[w] /\ status[e] # "none" /\ Holds(w, e)
    BY <1>8, OnRow DEF FailWrite, Begun, Holds, Failing
  <2>2. /\ \A f \in Events \ {e} : status'[f] = status[f]
        /\ UNCHANGED <<sends, skipped, failures, overrun>>
        /\ \/ status'[e] = status[e]
           \/ status[e] # "purged" /\ status'[e] \in {"PENDING", "FAILED"}
    BY <1>8, <2>1 DEF FailWrite, TypeOK, RowOK
  <2>3. status'[e] = "FAILED" => failures[e] >= MaxAttempts
    BY <2>2 DEF DeadLetterEarned
  <2>4. e \notin overrun => status[e] = "PROCESSING"
    BY <2>1 DEF Claimed
  <2>5. status[e] \in {"PENDING", "PROCESSING", "DELIVERED", "FAILED", "purged"}
    BY <2>1 DEF TypeOK, RowOK, Statuses
  <2> QED BY <2>2, <2>3, <2>4, <2>5, QueueMoves DEF Outcome
<1> QED BY <1>1, <1>2, <1>3, <1>4, <1>5, <1>6, <1>7, <1>8 DEF Next, WorkerStep

\* The outbox implements the at-least-once queue (QueueSpec): accepted rows are
\* handed over before they are closed, given up only after MaxAttempts failures,
\* and stay closed unless a lock expired under a live worker.
THEOREM OutboxImplementsQueue == Spec => QueueSpec
<1>1. Init => Queue!Init /\ Begun
  BY DEF Init, Begun, Queue!Init, Outcome
<1>2. QED
  BY <1>1, BegunKept, QueueStep, TypeCorrect, ClaimExclusive, HandedBeforeDelivered,
     DeadLettersEarned, PTL DEF Spec, QueueSpec, Queue!Spec
=============================================================================
