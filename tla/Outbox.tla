------------------------------- MODULE Outbox -------------------------------
(***************************************************************************)
(* The transactional outbox (common/outbox).  A domain transaction inserts *)
(* an OutboxEvent row; every API process runs one OutboxWorker loop that   *)
(* claims the oldest eligible row, hands it to a provider (SMTP, the       *)
(* Telegram gateway, FCM) and records the outcome.                         *)
(*                                                                         *)
(* Rows are shared through PostgreSQL under READ COMMITTED: every await of *)
(* a query or of a provider is a point where the other workers run, so     *)
(* claimNext, deliver and fail are modelled query by query.  Wall-clock    *)
(* times are abstracted to the two comparisons the code makes with them:   *)
(* due (availableAt <= now) and stale (lockedAt <= now - lock timeout).    *)
(***************************************************************************)
EXTENDS Naturals, FiniteSets

CONSTANTS
  Events,        \* outbox rows, numbered in createdAt order
  Workers,       \* OutboxWorker loops, one per API process
  Kind,          \* the type column of each row
  MaxAttempts,   \* OUTBOX_MAX_ATTEMPTS
  MaxFaults,     \* bound: crashes, and locks that expire under a live worker
  NoEvent        \* a worker that is on no row

ASSUME OutboxAssumption ==
  /\ Events \subseteq Nat
  /\ NoEvent \notin Events
  /\ IsFiniteSet(Workers)
  /\ Kind \in [Events -> {"EMAIL", "TELEGRAM", "PUSH"}]
  /\ MaxAttempts \in Nat \ {0}
  /\ MaxFaults \in Nat

VARIABLES
  status,    \* OutboxEvent.status; "none" before the insert, "purged" after retention
  attempts,  \* OutboxEvent.attempts
  due,       \* availableAt has passed
  stale,     \* lockedAt is older than OUTBOX_LOCK_TIMEOUT_MS
  pc,        \* where each worker is in claimNext / deliver / fail
  cur,       \* the row the worker is on
  seen,      \* the attempts it read in fail()
  faults,    \* crashes and overrun locks so far
  sends,     \* history: how often a provider accepted the row
  skipped,   \* history: rows found without an active Telegram recipient
  failures,  \* history: delivery attempts that threw
  overrun    \* history: rows whose lock expired under a live worker

row     == <<status, attempts, due, stale>>
worker  == <<pc, cur, seen>>
history == <<sends, skipped, failures, overrun>>
vars    == <<row, worker, faults, history>>

Statuses   == {"none", "PENDING", "PROCESSING", "DELIVERED", "FAILED", "purged"}
Delivering == {"lookup", "send", "mark", "defer"}   \* the try block of deliver
Failing    == {"fail", "failWrite"}                 \* fail()
Finding    == {"foundPending", "foundStale"}        \* the claim transaction

Labels     == {"idle"} \union Finding \union Delivering \union Failing

\* Worker w believes that it owns row e.
Holds(w, e) == cur[w] = e /\ pc[w] \in Delivering \union Failing
Holders(e)  == {w \in Workers : Holds(w, e)}

Terminal(e) == status[e] \in {"DELIVERED", "FAILED", "purged"}

Init ==
  /\ status   = [e \in Events |-> "none"]
  /\ attempts = [e \in Events |-> 0]
  /\ due      = [e \in Events |-> FALSE]
  /\ stale    = [e \in Events |-> FALSE]
  /\ pc       = [w \in Workers |-> "idle"]
  /\ cur      = [w \in Workers |-> NoEvent]
  /\ seen     = [w \in Workers |-> 0]
  /\ faults   = 0
  /\ sends    = [e \in Events |-> 0]
  /\ skipped  = {}
  /\ failures = [e \in Events |-> 0]
  /\ overrun  = {}

Goto(w, label) == /\ pc' = [pc EXCEPT ![w] = label]
                  /\ UNCHANGED <<cur, seen>>

Release(w) == /\ pc'   = [pc EXCEPT ![w] = "idle"]
              /\ cur'  = [cur EXCEPT ![w] = NoEvent]
              /\ seen' = [seen EXCEPT ![w] = 0]

(***************************************************************************)
(* Producers.                                                              *)
(***************************************************************************)

\* The insert commits with the domain change.  Only a Telegram row may carry
\* an availableAt in the future (quiet hours).
Enqueue(e) ==
  /\ status[e] = "none"
  /\ status' = [status EXCEPT ![e] = "PENDING"]
  /\ \E d \in BOOLEAN : /\ Kind[e] = "TELEGRAM" \/ d
                        /\ due' = [due EXCEPT ![e] = d]
  /\ UNCHANGED <<attempts, stale, worker, faults, history>>

\* Retention deletes the waiting Telegram rows of an anonymised account.
Purge(e) ==
  /\ Kind[e] = "TELEGRAM"
  /\ status[e] = "PENDING"
  /\ status' = [status EXCEPT ![e] = "purged"]
  /\ UNCHANGED <<attempts, due, stale, worker, faults, history>>

(***************************************************************************)
(* claimNext: findFirst, then a conditional updateMany in the same         *)
(* transaction.  The update re-checks the status it saw, and the staleness *)
(* of a reclaimed lock, but not availableAt.                               *)
(***************************************************************************)

\* Mutant: stale locks are not reclaimed.
Eligible_NoReclaim == {e \in Events : status[e] = "PENDING" /\ due[e]}

Eligible == {e \in Events : \/ status[e] = "PENDING" /\ due[e]
                            \/ status[e] = "PROCESSING" /\ stale[e]}

Find(w) ==
  /\ pc[w] = "idle"
  /\ \E e \in Eligible :
       /\ \A f \in Eligible : e <= f
       /\ cur' = [cur EXCEPT ![w] = e]
       /\ pc' = [pc EXCEPT ![w] = IF status[e] = "PENDING" THEN "foundPending"
                                                           ELSE "foundStale"]
  /\ UNCHANGED <<row, seen, faults, history>>

\* Mutant: the update is by id.
Claimable_NoRecheck(w) == pc[w] \in Finding

Claimable(w) == \/ pc[w] = "foundPending" /\ status[cur[w]] = "PENDING"
                \/ /\ pc[w] = "foundStale"
                   /\ status[cur[w]] = "PROCESSING"
                   /\ stale[cur[w]]

Claim(w) ==
  /\ pc[w] \in Finding
  /\ Claimable(w)
  /\ status' = [status EXCEPT ![cur[w]] = "PROCESSING"]
  /\ stale'  = [stale EXCEPT ![cur[w]] = FALSE]
  /\ Goto(w, IF Kind[cur[w]] = "TELEGRAM" THEN "lookup" ELSE "send")
  /\ UNCHANGED <<attempts, due, faults, history>>

\* count # 1: claimNext returns null and the batch ends.
ClaimLost(w) ==
  /\ pc[w] \in Finding
  /\ ~Claimable(w)
  /\ Release(w)
  /\ UNCHANGED <<row, faults, history>>

(***************************************************************************)
(* deliver.                                                                *)
(***************************************************************************)

\* No active connection, or Telegram disabled: nothing is sent, and the row is
\* marked delivered all the same.
LookupNone(w) ==
  /\ pc[w] = "lookup"
  /\ skipped' = skipped \union {cur[w]}
  /\ Goto(w, "mark")
  /\ UNCHANGED <<row, faults, sends, failures, overrun>>

LookupQuiet(w) ==
  /\ pc[w] = "lookup"
  /\ Goto(w, "defer")
  /\ UNCHANGED <<row, faults, history>>

LookupActive(w) ==
  /\ pc[w] = "lookup"
  /\ Goto(w, "send")
  /\ UNCHANGED <<row, faults, history>>

\* Mutant: quiet hours are looked up after sending.
Send_BeforeQuietHours(w) ==
  /\ pc[w] = "send"
  /\ sends' = [sends EXCEPT ![cur[w]] = @ + 1]
  /\ \E next \in {"mark", "defer"} : Goto(w, next)
  /\ UNCHANGED <<row, faults, skipped, failures, overrun>>

Send(w) ==
  /\ pc[w] = "send"
  /\ sends' = [sends EXCEPT ![cur[w]] = @ + 1]
  /\ Goto(w, "mark")
  /\ UNCHANGED <<row, faults, skipped, failures, overrun>>

\* The provider took the message but the call threw: a lost reply, or the
\* update that disables invalid push devices failed after the multicast.
SendUnacknowledged(w) ==
  /\ pc[w] = "send"
  /\ sends' = [sends EXCEPT ![cur[w]] = @ + 1]
  /\ failures' = [failures EXCEPT ![cur[w]] = @ + 1]
  /\ Goto(w, "fail")
  /\ UNCHANGED <<row, faults, skipped, overrun>>

\* Any other await of the try block throws: a bad payload, a provider that
\* rejects the message, the database.
Throw(w) ==
  /\ pc[w] \in Delivering
  /\ failures' = [failures EXCEPT ![cur[w]] = @ + 1]
  /\ Goto(w, "fail")
  /\ UNCHANGED <<row, faults, sends, skipped, overrun>>

\* updateMany where id and PROCESSING: it does not ask whose claim that is.
Mark(w) ==
  LET e == cur[w] IN
  /\ pc[w] = "mark"
  /\ IF status[e] = "PROCESSING"
     THEN /\ status' = [status EXCEPT ![e] = "DELIVERED"]
          /\ stale'  = [stale EXCEPT ![e] = FALSE]
     ELSE UNCHANGED <<status, stale>>
  /\ Release(w)
  /\ UNCHANGED <<attempts, due, faults, history>>

\* deferTelegram: back to PENDING until the quiet hours end.
Defer(w) ==
  LET e == cur[w] IN
  /\ pc[w] = "defer"
  /\ IF status[e] = "PROCESSING"
     THEN /\ status' = [status EXCEPT ![e] = "PENDING"]
          /\ due'    = [due EXCEPT ![e] = FALSE]
          /\ stale'  = [stale EXCEPT ![e] = FALSE]
     ELSE UNCHANGED <<status, due, stale>>
  /\ Release(w)
  /\ UNCHANGED <<attempts, faults, history>>

(***************************************************************************)
(* fail: read the row, then update it by id alone.                         *)
(***************************************************************************)

FailRead(w) ==
  /\ pc[w] = "fail"
  /\ IF status[cur[w]] = "PROCESSING"
     THEN /\ seen' = [seen EXCEPT ![w] = attempts[cur[w]]]
          /\ pc' = [pc EXCEPT ![w] = "failWrite"]
          /\ UNCHANGED cur
     ELSE Release(w)
  /\ UNCHANGED <<row, faults, history>>

\* Mutant: the last attempt is given up.
FailWrite_OffByOne(w) ==
  LET e == cur[w] IN
  /\ pc[w] = "failWrite"
  /\ attempts' = [attempts EXCEPT ![e] = seen[w] + 1]
  /\ status' = [status EXCEPT ![e] = IF seen[w] + 2 >= MaxAttempts THEN "FAILED"
                                                                   ELSE "PENDING"]
  /\ due'    = [due EXCEPT ![e] = FALSE]
  /\ stale'  = [stale EXCEPT ![e] = FALSE]
  /\ Release(w)
  /\ UNCHANGED <<faults, history>>

FailWrite(w) ==
  LET e == cur[w]
      n == seen[w] + 1
  IN
  /\ pc[w] = "failWrite"
  /\ IF status[e] # "purged"
     THEN /\ attempts' = [attempts EXCEPT ![e] = n]
          /\ status' = [status EXCEPT ![e] = IF n >= MaxAttempts THEN "FAILED"
                                                                 ELSE "PENDING"]
          /\ due'    = [due EXCEPT ![e] = FALSE]
          /\ stale'  = [stale EXCEPT ![e] = FALSE]
     ELSE UNCHANGED row                       \* the update by id throws
  /\ Release(w)
  /\ UNCHANGED <<faults, history>>

(***************************************************************************)
(* Time and crashes.                                                       *)
(***************************************************************************)

BecomeDue(e) ==
  /\ status[e] = "PENDING"
  /\ ~due[e]
  /\ due' = [due EXCEPT ![e] = TRUE]
  /\ UNCHANGED <<status, attempts, stale, worker, faults, history>>

\* A claim transaction lives for seconds, a lock for minutes: no lock expires
\* between the two queries of a claim that is looking at it.
LockAges(e) ==
  /\ status[e] = "PROCESSING"
  /\ ~stale[e]
  /\ \A w \in Workers : ~(cur[w] = e /\ pc[w] \in Finding)
  /\ stale' = [stale EXCEPT ![e] = TRUE]

LockExpires(e) ==
  /\ LockAges(e)
  /\ Holders(e) = {}
  /\ UNCHANGED <<status, attempts, due, worker, faults, history>>

\* The holder is alive but slow: the row becomes claimable under it.
LockOverrun(e) ==
  /\ LockAges(e)
  /\ Holders(e) # {}
  /\ faults < MaxFaults
  /\ faults' = faults + 1
  /\ overrun' = overrun \union {e}
  /\ UNCHANGED <<status, attempts, due, worker, sends, skipped, failures>>

\* The process dies, or an exception escapes fail(): the row stays as it is.
Crash(w) ==
  /\ pc[w] # "idle"
  /\ faults < MaxFaults
  /\ faults' = faults + 1
  /\ Release(w)
  /\ UNCHANGED <<row, history>>

WorkerStep(w) ==
  \/ Find(w) \/ Claim(w) \/ ClaimLost(w)
  \/ LookupNone(w) \/ LookupQuiet(w) \/ LookupActive(w)
  \/ Send(w) \/ SendUnacknowledged(w) \/ Throw(w)
  \/ Mark(w) \/ Defer(w) \/ FailRead(w) \/ FailWrite(w)

Next ==
  \/ \E e \in Events : \/ Enqueue(e) \/ Purge(e)
                       \/ BecomeDue(e) \/ LockExpires(e) \/ LockOverrun(e)
  \/ \E w \in Workers : WorkerStep(w) \/ Crash(w)

Spec == Init /\ [][Next]_vars

\* setInterval keeps every loop running and awaits return; time passes.  Quiet
\* hours end and the row is due when they do, so a worker that keeps looking a
\* recipient up does not find the quiet hours every time.
Fairness ==
  /\ \A w \in Workers : WF_vars(WorkerStep(w))
  /\ \A w \in Workers : SF_vars(LookupNone(w) \/ LookupActive(w))
  /\ \A e \in Events  : WF_vars(BecomeDue(e)) /\ WF_vars(LockExpires(e))

FairSpec == Spec /\ Fairness

-----------------------------------------------------------------------------
(***************************************************************************)
(* Properties.                                                             *)
(***************************************************************************)

RowOK ==
  /\ status   \in [Events -> Statuses]
  /\ attempts \in [Events -> Nat]
  /\ due      \in [Events -> BOOLEAN]
  /\ stale    \in [Events -> BOOLEAN]

WorkerOK ==
  /\ pc   \in [Workers -> Labels]
  /\ cur  \in [Workers -> Events \union {NoEvent}]
  /\ seen \in [Workers -> Nat]
  /\ \A w \in Workers : pc[w] # "idle" => cur[w] \in Events

HistoryOK ==
  /\ faults   \in 0 .. MaxFaults
  /\ sends    \in [Events -> Nat]
  /\ skipped  \subseteq Events
  /\ failures \in [Events -> Nat]
  /\ overrun  \subseteq Events

\* The shape of the rows and of the workers' local state; a worker that is not
\* idle is on a row.
TypeOK == RowOK /\ WorkerOK /\ HistoryOK

\* A claim is exclusive: as long as no lock expired under a live worker, a row
\* has at most one holder, and while it has one it is PROCESSING under a fresh
\* lock.  This is what claimNext's conditional update is for.
ExclusiveClaim ==
  \A e \in Events \ overrun :
    /\ \A v, w \in Holders(e) : v = w
    /\ Holders(e) # {} => status[e] = "PROCESSING" /\ ~stale[e]

\* A row says DELIVERED only if a provider accepted it or its recipient had no
\* active channel, however crashes, reclaims and stale workers interleave.
DeliveredWasHanded ==
  \A e \in Events : status[e] = "DELIVERED" => sends[e] > 0 \/ e \in skipped

\* No row is dead-lettered early: behind FAILED there are MaxAttempts failed
\* deliveries, although fail() counts them with an unlocked read and write.
DeadLetterEarned ==
  \A e \in Events : status[e] = "FAILED" => failures[e] >= MaxAttempts

\* Every hand-over after the first is paid for by a failed delivery or by a
\* fault: nothing else makes the outbox send a message again.
RepeatsAccounted ==
  \A e \in Events : sends[e] <= 1 + failures[e] + faults

\* Outcomes are final unless a lock expired under a live worker: no late fail()
\* turns a delivered or dead-lettered row back into a pending one.
OutcomeFinal ==
  [][\A e \in Events \ overrun : Terminal(e) => status'[e] = status[e]]_vars

\* With finitely many faults every accepted row reaches an outcome and keeps it.
EventuallySettled ==
  \A e \in Events : status[e] # "none" ~> [](Terminal(e))

-----------------------------------------------------------------------------
(***************************************************************************)
(* The outbox implements an at-least-once queue.                           *)
(***************************************************************************)
Outcome(e) == IF status[e] \in {"PENDING", "PROCESSING"} THEN "open" ELSE status[e]

Queue == INSTANCE AtLeastOnce WITH
           Items     <- Events,
           Limit     <- MaxAttempts,
           state     <- [e \in Events |-> Outcome(e)],
           handed    <- {e \in Events : sends[e] > 0} \union skipped,
           failed    <- failures,
           contested <- overrun

QueueSpec == Queue!Spec
=============================================================================
