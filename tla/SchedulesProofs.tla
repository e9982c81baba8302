--------------------------- MODULE SchedulesProofs ---------------------------
(***************************************************************************)
(* What the routines and recurring payments guarantee for every set of     *)
(* workers, requests and rows, every period and every horizon: the type    *)
(* invariant, that no occurrence becomes a task twice, that nobody is      *)
(* reminded twice, and that the next date of a payment has its forecast.   *)
(*                                                                         *)
(* All of it rests on optimistic locking: a row that is written gets a     *)
(* higher version, so whoever finds the version he has read finds the row  *)
(* he has read.                                                            *)
(***************************************************************************)
EXTENDS Schedules, TLAPS

-----------------------------------------------------------------------------
(***************************************************************************)
(* The dates of a series.                                                  *)
(***************************************************************************)

LEMMA Division ==
  ASSUME NEW x \in Nat
  PROVE  /\ x \div Period \in Nat
         /\ x % Period \in 0 .. Period - 1
         /\ x = Period * (x \div Period) + (x % Period)
<1> DEFINE q == x \div Period
<1>1. q \in Int
  BY SchedulesAssumption, SMT
<1>2. x % Period \in 0 .. Period - 1
  BY SchedulesAssumption, SMT
<1>3. x = Period * q + (x % Period)
  BY SchedulesAssumption, SMT
<1> HIDE DEF q
<1>4. ASSUME q < 0  PROVE FALSE
  <2>1. Period * q <= Period * (-1)
    BY <1>1, <1>4, SchedulesAssumption, SMT
  <2>2. Period * (-1) = -Period /\ Period * q \in Int
    BY <1>1, SchedulesAssumption, SMT
  <2> QED BY <1>2, <1>3, <2>1, <2>2, SchedulesAssumption, SMT
<1>5. q \in Nat
  BY <1>1, <1>4
<1> QED BY <1>2, <1>3, <1>5 DEF q

\* A date that is due has a next one within a period after the search.
LEMMA NextAfterIsLater ==
  ASSUME NEW d \in Dates, NEW t \in Moments, d <= t
  PROVE  NextAfter(d, t) \in Dates /\ NextAfter(d, t) > d /\ NextAfter(d, t) > t
<1> DEFINE q == (t - d) \div Period
           r == (t - d) % Period
           n == d + Period * (q + 1)
<1>1. t - d \in Nat /\ d \in Nat /\ t \in Nat
  BY SchedulesAssumption DEF Dates, Moments
<1>2. q \in Nat /\ r \in 0 .. Period - 1 /\ t - d = Period * q + r
  BY <1>1, Division
<1>3. (n - d) % Period = 0
  <2>1. n - d = (q + 1) * Period
    BY <1>1, <1>2, SchedulesAssumption, SMT
  <2>2. \A k \in Nat : (k * Period) % Period = 0
    BY SchedulesAssumption, SMT
  <2>3. q + 1 \in Nat
    BY <1>2
  <2> QED BY <2>1, <2>2, <2>3
<1>4. Period * (q + 1) = Period * q + Period /\ Period * q \in Nat
  BY <1>2, SchedulesAssumption, SMT
<1>5. n \in Dates /\ n > d /\ n > t
  <2> HIDE DEF q, r
  <2> QED BY <1>1, <1>2, <1>4, SchedulesAssumption DEF Dates, Moments
<1>6. ASSUME NEW m \in d + 1 .. n - 1, (m - d) % Period = 0  PROVE m <= t
  <2> DEFINE k == (m - d) \div Period
  <2>1. m - d \in Nat
    BY <1>1, <1>5 DEF Dates
  <2>2. k \in Nat /\ m - d = Period * k
    <3>1. k \in Nat /\ m - d = Period * k + 0
      BY <1>6, <2>1, Division
    <3> HIDE DEF k
    <3> QED BY <3>1, SchedulesAssumption, SMT
  <2>3. Period * k < Period * (q + 1)
    BY <1>1, <1>5, <2>2, SchedulesAssumption DEF Dates
  <2> HIDE DEF q, r, k
  <2>4. k <= q
    <3>1. ASSUME k >= q + 1  PROVE FALSE
      <4>1. Period * k >= Period * (q + 1)
        BY <1>2, <2>2, <3>1, SchedulesAssumption, SMT
      <4>2. Period * k \in Int /\ Period * (q + 1) \in Int
        BY <1>2, <2>2, SchedulesAssumption, SMT
      <4> QED BY <2>3, <4>1, <4>2
    <3> QED BY <1>2, <2>2, <3>1
  <2>5. Period * k <= Period * q
    BY <1>2, <2>2, <2>4, SchedulesAssumption, SMT
  <2> QED BY <1>1, <1>2, <1>4, <2>2, <2>5, SchedulesAssumption
<1> HIDE DEF n
<1> QED BY <1>3, <1>5, <1>6 DEF NextAfter

-----------------------------------------------------------------------------
(***************************************************************************)
(* The inductive invariant.                                                *)
(***************************************************************************)

RoutineCalls == {"editRoutine", "restoreRoutine", "generate"}
PaymentCalls == {"editPayment", "archivePayment", "restorePayment"}

\* What optimistic locking gives: the row as somebody read it is the row, or the
\* row has a higher version.
SawRoutine(r, row) ==
  /\ row \in RoutineRows
  /\ row.version > 0
  /\ row.version <= routine[r].version
  /\ row.version = routine[r].version => row = routine[r]

SawPayment(p, row) ==
  /\ row \in PaymentRows
  /\ row.version > 0
  /\ row.version <= payment[p].version
  /\ row.version = payment[p].version => row = payment[p]

\* A forecast keeps its date and its name is not given again.
SawForecast(p, f) ==
  /\ f \in ForecastRows
  /\ f.due \in Dates
  /\ f.id <= payment[p].version
  /\ \A g \in forecast[p] : g.id = f.id => g.due = f.due

RowsOK ==
  /\ now \in Moments
  /\ routine \in [Routines -> RoutineRows]
  /\ payment \in [Payments -> PaymentRows]
  /\ \A r \in Routines : routine[r].version = 0 => ~routine[r].active /\ routine[r].nextRun = 0
  /\ \A p \in Payments : payment[p].version = 0 => ~payment[p].active

\* The unique index on payment and due date, and names that are not reused.
ForecastsOK ==
  /\ forecast \in [Payments -> SUBSET ForecastRows]
  /\ \A p \in Payments : \A f, g \in forecast[p] :
       /\ f.id \in 1 .. payment[p].version
       /\ f.due = g.due => f = g
       /\ f.id = g.id => f = g

WorkerOK(w) ==
  /\ pc[w] \in {"idle", "routines", "payments", "remind"}
  /\ at[w] \in Moments
  /\ pc[w] = "idle" => found[w] = {}
  /\ pc[w] = "routines" =>
       /\ found[w] \subseteq [id : Routines, row : RoutineRows]
       /\ \A c \in found[w] : SawRoutine(c.id, c.row) /\ c.row.nextRun <= at[w]
  /\ pc[w] = "payments" =>
       /\ found[w] \subseteq [id : Payments, row : PaymentRows]
       /\ \A c \in found[w] : SawPayment(c.id, c.row) /\ c.row.nextDue <= at[w]
  /\ pc[w] = "remind" =>
       /\ found[w] \subseteq [id : Payments, row : ForecastRows]
       /\ \A c \in found[w] : SawForecast(c.id, c.row)

RequestOK(q) ==
  /\ pc[q] \in {"new", "done"} \union RoutineCalls \union PaymentCalls
  /\ item[q] \in Routines \union Payments \union {NoItem}
  /\ seen[q] \in RoutineRows \union PaymentRows \union {NoItem}
  /\ ask[q] \in Asks \union {NoItem}
  /\ pc[q] \in RoutineCalls => item[q] \in Routines /\ SawRoutine(item[q], seen[q])
  /\ pc[q] = "generate" => seen[q].nextRun <= Horizon
  /\ pc[q] \in PaymentCalls => item[q] \in Payments /\ SawPayment(item[q], seen[q])
  /\ pc[q] = "editPayment" =>
       /\ ask[q] \in Asks
       /\ ~ask[q].redo => ask[q].due = seen[q].nextDue /\ ask[q].offset = seen[q].offset

LocalOK ==
  /\ pc \in [Actors -> Labels]
  /\ at \in [Workers -> Moments]
  /\ found = [w \in Workers |-> found[w]]
  /\ item = [q \in Requests |-> item[q]]
  /\ seen = [q \in Requests |-> seen[q]]
  /\ ask = [q \in Requests |-> ask[q]]
  /\ \A w \in Workers : WorkerOK(w)
  /\ \A q \in Requests : RequestOK(q)

\* Occurrences before the next date have been made, at most once more than
\* the date was set; those from it on not since it was set last.
MadeOK ==
  /\ made \in [Routines -> [Dates -> Nat]]
  /\ rewound \in [Routines -> Nat]
  /\ \A r \in Routines, d \in Dates :
       /\ made[r][d] <= 1 + rewound[r]
       /\ d >= routine[r].nextRun => made[r][d] <= rewound[r]

\* A reminder that went out is recorded by a forecast that stays.
RemindedOK ==
  /\ reminded \in [Payments -> [Dates -> Nat]]
  /\ \A p \in Payments, d \in Dates :
       /\ reminded[p][d] <= 1
       /\ reminded[p][d] = 1 => \E f \in forecast[p] : f.sent /\ f.due = d

NextOK ==
  \A p \in Payments : payment[p].version > 0 =>
    \E f \in forecast[p] : /\ f.due = payment[p].nextDue
                           /\ f.sent \/ f.at = f.due - payment[p].offset

FaultsOK == faults \in 0 .. MaxFaults

IInv == /\ RowsOK /\ ForecastsOK /\ LocalOK
        /\ MadeOK /\ RemindedOK /\ NextOK /\ FaultsOK

\* A step leaves a row alone or gives it a higher version; a forecast keeps its
\* date, and a new one has a name above every old one.
Grow ==
  /\ \A r \in Routines : \/ routine'[r] = routine[r]
                         \/ routine'[r].version > routine[r].version
  /\ \A p \in Payments : \/ payment'[p] = payment[p]
                         \/ payment'[p].version > payment[p].version
  /\ \A p \in Payments : \A g \in forecast'[p] :
       \/ g.id > payment[p].version
       \/ \E h \in forecast[p] : h.id = g.id /\ h.due = g.due

LEMMA InitHolds == Init => IInv
<1> SUFFICES ASSUME Init  PROVE IInv
  OBVIOUS
<1>1. RowsOK /\ FaultsOK
  BY SchedulesAssumption
  DEF Init, RowsOK, FaultsOK, RoutineRows, PaymentRows, Moments, Dates
<1>2. ForecastsOK /\ NextOK
  BY SchedulesAssumption DEF Init, ForecastsOK, NextOK
<1>3. LocalOK
  BY SchedulesAssumption
  DEF Init, LocalOK, WorkerOK, RequestOK, Actors, Labels, Moments, RoutineCalls, PaymentCalls
<1>4. MadeOK
  BY SchedulesAssumption DEF Init, MadeOK, Dates
<1>5. RemindedOK
  BY SchedulesAssumption DEF Init, RemindedOK
<1> QED BY <1>1, <1>2, <1>3, <1>4, <1>5 DEF IInv

\* The steps that write no routine, no payment and no forecast.
LEMMA SameRowsGrow ==
  ASSUME RowsOK, ForecastsOK, UNCHANGED rows
  PROVE  Grow
BY DEF Grow, rows

LEMMA GenerateTaskRows ==
  ASSUME IInv, NEW w \in Workers, GenerateTask(w)
  PROVE  RowsOK' /\ Grow
<1>1. PICK c \in found[w] :
        IF Unchanged(c)
        THEN routine' = [routine EXCEPT ![c.id].nextRun = NextAfter(c.row.nextRun, at[w]),
                                        ![c.id].version = @ + 1]
        ELSE UNCHANGED routine
  BY DEF GenerateTask
<1>2. /\ c.id \in Routines /\ c.row \in RoutineRows /\ at[w] \in Moments
      /\ SawRoutine(c.id, c.row) /\ c.row.nextRun <= at[w]
  BY DEF GenerateTask, IInv, LocalOK, WorkerOK
<1>3. NextAfter(c.row.nextRun, at[w]) \in Dates
  BY <1>2, NextAfterIsLater DEF RoutineRows
<1> HIDE DEF NextAfter
<1>4. /\ now' = now /\ payment' = payment /\ forecast' = forecast
      /\ RowsOK
  BY DEF GenerateTask, IInv
<1>5. CASE Unchanged(c)
  <2>1. \A r \in Routines : routine'[r] =
          IF r = c.id THEN [active |-> routine[r].active,
                            nextRun |-> NextAfter(c.row.nextRun, at[w]),
                            version |-> routine[r].version + 1]
                      ELSE routine[r]
    BY <1>1, <1>2, <1>4, <1>5 DEF RowsOK, RoutineRows
  <2>2. routine' = [r \in Routines |-> routine'[r]]
    BY <1>1, <1>4, <1>5 DEF RowsOK
  <2>3. routine' \in [Routines -> RoutineRows]
    BY <1>3, <1>4, <2>1, <2>2 DEF RowsOK, RoutineRows
  <2>4. \A r \in Routines : routine[r].version \in Nat
    BY <1>4 DEF RowsOK, RoutineRows
  <2> QED BY <1>4, <2>1, <2>3, <2>4 DEF RowsOK, Grow
<1>6. CASE ~Unchanged(c)
  BY <1>1, <1>4, <1>6 DEF RowsOK, Grow
<1> QED BY <1>5, <1>6

LEMMA GenerateForecastRows ==
  ASSUME IInv, NEW w \in Workers, GenerateForecast(w)
  PROVE  RowsOK' /\ Grow
<1>1. PICK c \in found[w] : LET next == NextAfter(c.row.nextDue, at[w]) IN
        \/ /\ Current(c)
           /\ payment' = [payment EXCEPT ![c.id].nextDue = next, ![c.id].version = @ + 1]
           /\ forecast' = [forecast EXCEPT ![c.id] = @ \union
                   {Forecast(c.row.version + 1, next, c.row.offset)}]
        \/ UNCHANGED <<payment, forecast>>
  BY DEF GenerateForecast
<1> DEFINE next == NextAfter(c.row.nextDue, at[w])
           Advanced ==
             /\ Current(c)
             /\ payment' = [payment EXCEPT ![c.id].nextDue = next, ![c.id].version = @ + 1]
             /\ forecast' = [forecast EXCEPT ![c.id] = @ \union
                     {Forecast(c.row.version + 1, next, c.row.offset)}]
<1>2. /\ c.id \in Payments /\ c.row \in PaymentRows /\ at[w] \in Moments
      /\ SawPayment(c.id, c.row) /\ c.row.nextDue <= at[w]
  BY DEF GenerateForecast, IInv, LocalOK, WorkerOK
<1>3. next \in Dates
  BY <1>2, NextAfterIsLater DEF PaymentRows
<1>0. Advanced \/ UNCHANGED <<payment, forecast>>
  BY <1>1
<1> HIDE DEF next
<1>4. now' = now /\ routine' = routine /\ RowsOK /\ ForecastsOK
  BY DEF GenerateForecast, IInv
<1>5. CASE Advanced
  <2>1. /\ payment'[c.id] = [active |-> payment[c.id].active, archived |-> payment[c.id].archived,
                              nextDue |-> next, offset |-> payment[c.id].offset,
                              version |-> payment[c.id].version + 1]
        /\ \A p \in Payments : p # c.id => payment'[p] = payment[p]
    BY <1>2, <1>4, <1>5 DEF RowsOK, PaymentRows
  <2>2. payment' = [p \in Payments |-> payment'[p]]
    BY <1>4, <1>5 DEF RowsOK
  <2>3. payment' \in [Payments -> PaymentRows]
    BY <1>3, <1>4, <2>1, <2>2 DEF RowsOK, PaymentRows
  <2>4. \A p \in Payments : payment[p].version \in Nat
    BY <1>4 DEF RowsOK, PaymentRows
  <2>5. \A p \in Payments : forecast'[p] =
          IF p = c.id THEN forecast[p] \union {Forecast(c.row.version + 1, next, c.row.offset)}
                      ELSE forecast[p]
    BY <1>2, <1>4, <1>5 DEF ForecastsOK
  <2>6. Forecast(c.row.version + 1, next, c.row.offset).id > payment[c.id].version
    BY <1>2, <1>5, <2>4 DEF Forecast, Current
  <2>7. RowsOK'
    BY <1>4, <2>1, <2>3, <2>4 DEF RowsOK
  <2>8. \A p \in Payments : \A g \in forecast'[p] :
          g.id > payment[p].version \/ g \in forecast[p]
    BY <2>5, <2>6
  <2>9. \A p \in Payments : payment'[p] = payment[p] \/ payment'[p].version > payment[p].version
    <3>1. payment'[c.id].version = payment[c.id].version + 1
      BY <2>1
    <3> QED BY <1>2, <2>4, <2>1, <3>1
  <2> QED BY <1>4, <2>7, <2>8, <2>9 DEF Grow
<1>6. CASE UNCHANGED <<payment, forecast>>
  BY <1>4, <1>6 DEF RowsOK, Grow
<1> HIDE DEF Advanced
<1> QED BY <1>0, <1>5, <1>6

LEMMA RemindRows ==
  ASSUME IInv, NEW w \in Workers, Remind(w)
  PROVE  RowsOK' /\ Grow
<1>1. /\ now' = now /\ routine' = routine /\ payment' = payment
      /\ RowsOK /\ ForecastsOK
  BY DEF Remind, IInv
<1>2. ASSUME NEW p \in Payments, NEW g \in forecast'[p]
      PROVE  \E h \in forecast[p] : h.id = g.id /\ h.due = g.due
  <2>1. PICK c \in found[w] : forecast' =
          IF Claimable(c) # {}
          THEN [forecast EXCEPT ![c.id] =
                  (@ \ Claimable(c)) \union {[f EXCEPT !.sent = TRUE] : f \in Claimable(c)}]
          ELSE forecast
    BY DEF Remind
  <2>2. g \in forecast[p] \/ \E f \in forecast[p] : g = [f EXCEPT !.sent = TRUE]
    <3>1. CASE g \in forecast[p]
      BY <3>1
    <3>2. CASE g \notin forecast[p]
      <4>1. p = c.id /\ g \in {[f EXCEPT !.sent = TRUE] : f \in Claimable(c)}
        BY <1>1, <1>2, <2>1, <3>2 DEF ForecastsOK
      <4> QED BY <4>1 DEF Claimable
    <3> QED BY <3>1, <3>2
  <2>3. \A f \in forecast[p] : f \in ForecastRows
    BY <1>1 DEF ForecastsOK
  <2> QED BY <2>2, <2>3 DEF ForecastRows
<1> QED BY <1>1, <1>2 DEF RowsOK, Grow

LEMMA CreateRoutineRows ==
  ASSUME IInv, NEW r \in Routines, NEW d \in Moments, NEW kept \in BOOLEAN,
         CreateRoutine(r, d, kept)
  PROVE  RowsOK' /\ Grow
<1>1. RowsOK /\ d \in Dates
  BY SchedulesAssumption DEF IInv, Moments, Dates
<1> QED BY <1>1 DEF CreateRoutine, RowsOK, Grow, RoutineRows, local, history

LEMMA CreatePaymentRows ==
  ASSUME IInv, NEW p \in Payments, NEW d \in Moments, NEW o \in Offsets, NEW kept \in BOOLEAN,
         CreatePayment(p, d, o, kept)
  PROVE  RowsOK' /\ Grow
<1>1. RowsOK /\ ForecastsOK /\ d \in Dates
  BY SchedulesAssumption DEF IInv, Moments, Dates
<1>2. /\ payment' = [payment EXCEPT ![p] = [active |-> kept, archived |-> ~kept, nextDue |-> d,
                            offset |-> o, version |-> IF kept THEN 1 ELSE 2]]
      /\ forecast' = [forecast EXCEPT ![p] = {Forecast(1, d, o)}]
      /\ payment[p].version = 0
      /\ now' = now /\ routine' = routine
  BY DEF CreatePayment
<1>3. RowsOK'
  BY <1>1, <1>2 DEF RowsOK, PaymentRows
<1>4. ASSUME NEW x \in Payments, NEW g \in forecast'[x]
      PROVE  g.id > payment[x].version \/ g \in forecast[x]
  BY <1>1, <1>2, <1>4 DEF ForecastsOK, Forecast
<1>5. \A x \in Payments : payment'[x] = payment[x] \/ payment'[x].version > payment[x].version
  BY <1>1, <1>2 DEF RowsOK
<1> QED BY <1>2, <1>3, <1>4, <1>5 DEF Grow

LEMMA RoutineCallRows ==
  ASSUME IInv, NEW q \in Requests, EditRoutine(q) \/ RestoreRoutine(q) \/ GenerateByHand(q)
  PROVE  RowsOK' /\ Grow
<1> DEFINE r == item[q]
<1>1. /\ RowsOK /\ r \in Routines /\ SawRoutine(r, seen[q])
      /\ pc[q] = "generate" => seen[q].nextRun <= Horizon
  BY DEF IInv, LocalOK, RequestOK, RoutineCalls, EditRoutine, RestoreRoutine, GenerateByHand
<1>2. now' = now /\ payment' = payment /\ forecast' = forecast
  BY DEF EditRoutine, RestoreRoutine, GenerateByHand, Finish
<1>3. \/ routine' = routine
      \/ routine[r].active /\ routine' = [routine EXCEPT ![r].version = @ + 1]
      \/ \E d \in Dates :
           routine[r].active /\ routine' = [routine EXCEPT ![r].nextRun = d, ![r].version = @ + 1]
      \/ \E b \in BOOLEAN : /\ routine[r].version > 0
                            /\ routine' = [routine EXCEPT ![r].active = b, ![r].version = @ + 1]
  <2>1. CASE EditRoutine(q)
    <3>1. \A d \in Moments : d \in Dates
      BY SchedulesAssumption DEF Moments, Dates
    <3>2. routine[r].version > 0
      BY <1>1 DEF RowsOK, SawRoutine, RoutineRows
    <3>3. \/ routine[r].active /\ routine' = [routine EXCEPT ![r].version = @ + 1]
          \/ /\ routine[r].active
             /\ \E d \in Moments : routine' = [routine EXCEPT ![r].nextRun = d,
                                                              ![r].version = @ + 1]
          \/ routine' = [routine EXCEPT ![r].active = FALSE, ![r].version = @ + 1]
          \/ routine' = routine
      BY <2>1 DEF EditRoutine
    <3> HIDE DEF r
    <3> QED BY <3>1, <3>2, <3>3
  <2>2. CASE RestoreRoutine(q)
    BY <1>1, <2>2 DEF RestoreRoutine, RowsOK, SawRoutine, RoutineRows
  <2>3. CASE GenerateByHand(q)
    <3>1. seen[q].nextRun + Period \in Dates
      BY <1>1, <2>3, SchedulesAssumption DEF GenerateByHand, SawRoutine, RoutineRows, Dates
    <3> QED BY <2>3, <3>1 DEF GenerateByHand
  <2> QED BY <2>1, <2>2, <2>3
<1> HIDE DEF r
<1>4. CASE routine' = routine
  BY <1>1, <1>2, <1>4 DEF RowsOK, Grow
<1>5. CASE routine[r].active /\ routine' = [routine EXCEPT ![r].version = @ + 1]
  <2>1. RowsOK'
    BY <1>1, <1>2, <1>5 DEF RowsOK, RoutineRows
  <2> QED BY <1>1, <1>2, <1>5, <2>1 DEF RowsOK, RoutineRows, Grow
<1>6. ASSUME NEW d \in Dates, routine[r].active,
             routine' = [routine EXCEPT ![r].nextRun = d, ![r].version = @ + 1]
      PROVE  RowsOK' /\ Grow
  <2>1. RowsOK'
    BY <1>1, <1>2, <1>6 DEF RowsOK, RoutineRows
  <2> QED BY <1>1, <1>2, <1>6, <2>1 DEF RowsOK, RoutineRows, Grow
<1>7. ASSUME NEW b \in BOOLEAN, routine[r].version > 0,
             routine' = [routine EXCEPT ![r].active = b, ![r].version = @ + 1]
      PROVE  RowsOK' /\ Grow
  <2>1. RowsOK'
    BY <1>1, <1>2, <1>7 DEF RowsOK, RoutineRows
  <2> QED BY <1>1, <1>2, <1>7, <2>1 DEF RowsOK, RoutineRows, Grow
<1> QED BY <1>3, <1>4, <1>5, <1>6, <1>7

LEMMA PaymentCallRows ==
  ASSUME IInv, NEW q \in Requests, EditPayment(q) \/ ArchivePayment(q) \/ RestorePayment(q)
  PROVE  RowsOK' /\ Grow
<1> DEFINE p == item[q]
<1>1. /\ RowsOK /\ ForecastsOK /\ p \in Payments /\ SawPayment(p, seen[q])
      /\ pc[q] = "editPayment" => ask[q] \in Asks
      /\ ask[q] \in Asks => ask[q].due \in Dates
  BY DEF IInv, LocalOK, RequestOK, PaymentCalls, EditPayment, ArchivePayment, RestorePayment, Asks
<1>2. now' = now /\ routine' = routine
  BY DEF EditPayment, ArchivePayment, RestorePayment, Finish
<1>3. CASE payment' = payment /\ forecast' = forecast
  BY <1>1, <1>2, <1>3 DEF RowsOK, Grow
<1>4. CASE /\ payment[p].version = seen[q].version
           /\ \E row \in PaymentRows : /\ row.version = seen[q].version + 1
                                       /\ payment' = [payment EXCEPT ![p] = row]
           /\ \/ forecast' = forecast
              \/ \E f \in ForecastRows :
                   /\ f.id = seen[q].version + 1
                   /\ forecast' = [forecast EXCEPT ![p] = Sent(p) \union {f}]
  <2>1. PICK row \in PaymentRows : row.version = seen[q].version + 1
                                   /\ payment' = [payment EXCEPT ![p] = row]
    BY <1>4
  <2>2. seen[q].version \in Nat
    BY <1>1 DEF SawPayment, PaymentRows
  <2>3. RowsOK'
    BY <1>1, <1>2, <2>1, <2>2 DEF RowsOK
  <2>4. \A x \in Payments : payment'[x] = payment[x] \/ payment'[x].version > payment[x].version
    BY <1>1, <1>4, <2>1, <2>2 DEF RowsOK
  <2>5. ASSUME NEW x \in Payments, NEW g \in forecast'[x]
        PROVE  g.id > payment[x].version \/ g \in forecast[x]
    BY <1>1, <1>4, <2>2, <2>5 DEF ForecastsOK, Sent
  <2> QED BY <1>2, <2>3, <2>4, <2>5 DEF Grow
<1>5. CASE EditPayment(q)
  <2>1. CASE Fits(q, FALSE) /\ payment' # payment
    <3>1. /\ payment' = [payment EXCEPT ![p] =
                [active |-> ask[q].active, archived |-> FALSE, nextDue |-> ask[q].due,
                 offset |-> ask[q].offset, version |-> seen[q].version + 1]]
          /\ \/ forecast' = forecast
             \/ forecast' = [forecast EXCEPT ![p] = Sent(p) \union
                               {Forecast(seen[q].version + 1, ask[q].due, ask[q].offset)}]
      BY <1>5, <2>1 DEF EditPayment
    <3>2. /\ ask[q].active \in BOOLEAN /\ ask[q].due \in Dates /\ ask[q].offset \in Offsets
          /\ seen[q].version \in Nat
      BY <1>1, <1>5 DEF EditPayment, Asks, SawPayment, PaymentRows
    <3>3. Forecast(seen[q].version + 1, ask[q].due, ask[q].offset) \in ForecastRows
          /\ Forecast(seen[q].version + 1, ask[q].due, ask[q].offset).id = seen[q].version + 1
      <4>1. \A d \in Dates, o \in Offsets : d - o \in Int
        BY SchedulesAssumption DEF Dates
      <4>2. ask[q].due - ask[q].offset \in Int
        BY <3>2, <4>1
      <4> QED BY <3>2, <4>2 DEF Forecast, ForecastRows
    <3>4. [active |-> ask[q].active, archived |-> FALSE, nextDue |-> ask[q].due,
           offset |-> ask[q].offset, version |-> seen[q].version + 1] \in PaymentRows
      BY <3>2 DEF PaymentRows
    <3> QED BY <1>4, <2>1, <3>1, <3>3, <3>4 DEF Fits
  <2>2. CASE ~(Fits(q, FALSE) /\ payment' # payment)
    <3>1. CASE payment' = payment
      <4>1. forecast' = forecast
        <5>1. payment[p].version # seen[q].version + 1
              \/ payment[p].version # seen[q].version
          BY <1>1 DEF SawPayment, PaymentRows
        <5>2. Fits(q, FALSE) => payment[p].version = seen[q].version
          BY DEF Fits
        <5>3. payment' = [payment EXCEPT ![p] =
                [active |-> ask[q].active, archived |-> FALSE, nextDue |-> ask[q].due,
                 offset |-> ask[q].offset, version |-> seen[q].version + 1]]
              => payment'[p].version = seen[q].version + 1
          BY <1>1 DEF RowsOK
        <5> QED BY <1>5, <3>1, <5>1, <5>2, <5>3 DEF EditPayment
      <4> QED BY <1>3, <3>1, <4>1
    <3>2. CASE ~Fits(q, FALSE)
      BY <1>3, <1>5, <3>2 DEF EditPayment
    <3> QED BY <2>2, <3>1, <3>2
  <2> QED BY <2>1, <2>2
<1>6. ASSUME NEW a \in BOOLEAN, NEW b \in BOOLEAN, payment[p].version = seen[q].version,
             payment' = [payment EXCEPT ![p].active = a, ![p].archived = b, ![p].version = @ + 1],
             forecast' = forecast
      PROVE  RowsOK' /\ Grow
  <2>1. payment' = [payment EXCEPT ![p] =
            [active |-> a, archived |-> b, nextDue |-> payment[p].nextDue,
             offset |-> payment[p].offset, version |-> seen[q].version + 1]]
    BY <1>1, <1>6 DEF RowsOK, PaymentRows
  <2>2. [active |-> a, archived |-> b, nextDue |-> payment[p].nextDue,
         offset |-> payment[p].offset, version |-> seen[q].version + 1] \in PaymentRows
    BY <1>1 DEF RowsOK, SawPayment, PaymentRows
  <2> QED BY <1>4, <1>6, <2>1, <2>2
<1>7. CASE ArchivePayment(q)
  BY <1>3, <1>6, <1>7 DEF ArchivePayment, Fits
<1>8. CASE RestorePayment(q)
  BY <1>3, <1>6, <1>8 DEF RestorePayment, Fits
<1> QED BY <1>5, <1>7, <1>8

\* The steps that only move a worker or a request, or the clock.
Quiet == \/ Advance \/ UNCHANGED vars
         \/ \E w \in Workers : \/ SearchRoutines(w) \/ SearchPayments(w) \/ SearchReminders(w)
                               \/ TickEnds(w) \/ TickDies(w)
         \/ \E q \in Requests : \/ \E r \in Routines : StartRoutine(q, r)
                                \/ \E p \in Payments : StartPayment(q, p)

LEMMA QuietKeeps ==
  ASSUME Quiet
  PROVE  UNCHANGED <<routine, payment, forecast, made, rewound, reminded>>
BY DEF Quiet, Advance, SearchRoutines, SearchPayments, SearchReminders, TickEnds, TickDies,
       StartRoutine, StartPayment, rows, history, vars

LEMMA NextSplits ==
  ASSUME [Next]_vars
  PROVE  \/ Quiet
         \/ \E w \in Workers : GenerateTask(w) \/ GenerateForecast(w) \/ Remind(w)
         \/ \E q \in Requests : \/ EditRoutine(q) \/ RestoreRoutine(q) \/ GenerateByHand(q)
                                \/ EditPayment(q) \/ ArchivePayment(q) \/ RestorePayment(q)
         \/ \E r \in Routines, d \in Moments, kept \in BOOLEAN : CreateRoutine(r, d, kept)
         \/ \E p \in Payments, d \in Moments, o \in Offsets, kept \in BOOLEAN :
              CreatePayment(p, d, o, kept)
BY DEF Next, Tick, RemindTick, Call, Quiet

LEMMA RowsStep ==
  ASSUME IInv, [Next]_vars
  PROVE  RowsOK' /\ Grow
<1>1. CASE Quiet
  <2>1. now' \in Moments
    BY <1>1, SchedulesAssumption
    DEF Quiet, Advance, SearchRoutines, SearchPayments, SearchReminders, TickEnds, TickDies,
        StartRoutine, StartPayment, vars, IInv, RowsOK, Moments
  <2>2. RowsOK /\ ForecastsOK /\ UNCHANGED rows
    BY <1>1, QuietKeeps DEF IInv, rows
  <2> QED BY <2>1, <2>2, SameRowsGrow DEF RowsOK, rows
<1>2. CASE \E w \in Workers : GenerateTask(w) \/ GenerateForecast(w) \/ Remind(w)
  BY <1>2, GenerateTaskRows, GenerateForecastRows, RemindRows
<1>3. CASE \E q \in Requests : \/ EditRoutine(q) \/ RestoreRoutine(q) \/ GenerateByHand(q)
                               \/ EditPayment(q) \/ ArchivePayment(q) \/ RestorePayment(q)
  BY <1>3, RoutineCallRows, PaymentCallRows
<1>4. CASE \E r \in Routines, d \in Moments, kept \in BOOLEAN : CreateRoutine(r, d, kept)
  BY <1>4, CreateRoutineRows
<1>5. CASE \E p \in Payments, d \in Moments, o \in Offsets, kept \in BOOLEAN :
             CreatePayment(p, d, o, kept)
  BY <1>5, CreatePaymentRows
<1> QED BY <1>1, <1>2, <1>3, <1>4, <1>5, NextSplits

LEMMA FaultsStep ==
  ASSUME IInv, [Next]_vars
  PROVE  FaultsOK'
<1>1. faults' = faults \/ (faults < MaxFaults /\ faults' = faults + 1)
  BY DEF Next, Tick, RemindTick, Call, Advance, SearchRoutines, GenerateTask,
    SearchPayments, GenerateForecast, TickEnds, TickDies, SearchReminders, Remind, StartRoutine,
    StartPayment, EditRoutine, RestoreRoutine, GenerateByHand, EditPayment, ArchivePayment,
    RestorePayment, Finish, CreateRoutine, CreatePayment, history, vars
<1> QED BY <1>1, SchedulesAssumption DEF IInv, FaultsOK

-----------------------------------------------------------------------------
(***************************************************************************)
(* What workers and requests hold.                                         *)
(***************************************************************************)

LEMMA SawStays ==
  ASSUME RowsOK, RowsOK', Grow
  PROVE  /\ \A r \in Routines : \A row : SawRoutine(r, row) => SawRoutine(r, row)'
         /\ \A p \in Payments : \A row : SawPayment(p, row) => SawPayment(p, row)'
<1>1. ASSUME NEW r \in Routines, NEW row, SawRoutine(r, row)  PROVE SawRoutine(r, row)'
  <2>1. /\ row \in RoutineRows /\ row.version \in Nat /\ row.version > 0
        /\ routine[r].version \in Nat /\ routine'[r].version \in Nat
        /\ row.version <= routine[r].version
        /\ row.version = routine[r].version => row = routine[r]
    BY <1>1 DEF SawRoutine, RowsOK, RoutineRows
  <2>2. routine'[r] = routine[r] \/ routine'[r].version > routine[r].version
    BY DEF Grow
  <2> QED BY <2>1, <2>2 DEF SawRoutine
<1>2. ASSUME NEW p \in Payments, NEW row, SawPayment(p, row)  PROVE SawPayment(p, row)'
  <2>1. /\ row \in PaymentRows /\ row.version \in Nat /\ row.version > 0
        /\ payment[p].version \in Nat /\ payment'[p].version \in Nat
        /\ row.version <= payment[p].version
        /\ row.version = payment[p].version => row = payment[p]
    BY <1>2 DEF SawPayment, RowsOK, PaymentRows
  <2>2. payment'[p] = payment[p] \/ payment'[p].version > payment[p].version
    BY DEF Grow
  <2> QED BY <2>1, <2>2 DEF SawPayment
<1> QED BY <1>1, <1>2

LEMMA SawForecastStays ==
  ASSUME RowsOK, RowsOK', Grow, ForecastsOK', NEW p \in Payments, NEW f, SawForecast(p, f)
  PROVE  SawForecast(p, f)'
<1>1. f \in ForecastRows /\ f.id \in Nat /\ f.due \in Dates
  BY DEF SawForecast, ForecastRows
<1>2. payment[p].version \in Nat /\ payment'[p].version \in Nat
      /\ payment'[p].version >= payment[p].version /\ f.id <= payment[p].version
  BY DEF RowsOK, PaymentRows, Grow, SawForecast
<1>3. ASSUME NEW g \in forecast'[p], g.id = f.id  PROVE g.due = f.due
  <2>1. g.id \in Nat
    BY <1>1, <1>3
  <2>2. PICK h \in forecast[p] : h.id = g.id /\ h.due = g.due
    BY <1>2, <1>3, <2>1 DEF Grow
  <2> QED BY <1>3, <2>2 DEF SawForecast
<1> QED BY <1>1, <1>2, <1>3 DEF SawForecast

\* A worker that at most deals with some of what it has found.
LEMMA WorkerStays ==
  ASSUME RowsOK, RowsOK', Grow, ForecastsOK', NEW w \in Workers, WorkerOK(w),
         pc'[w] = pc[w], at'[w] = at[w], found'[w] \subseteq found[w]
  PROVE  WorkerOK(w)'
<1>1. pc[w] = "routines" =>
        \A c \in found'[w] : SawRoutine(c.id, c.row)' /\ c.row.nextRun <= at[w]
  BY SawStays DEF WorkerOK
<1>2. pc[w] = "payments" =>
        \A c \in found'[w] : SawPayment(c.id, c.row)' /\ c.row.nextDue <= at[w]
  BY SawStays DEF WorkerOK
<1>3. pc[w] = "remind" => \A c \in found'[w] : SawForecast(c.id, c.row)'
  BY SawForecastStays DEF WorkerOK
<1> QED BY <1>1, <1>2, <1>3 DEF WorkerOK

LEMMA RequestStays ==
  ASSUME RowsOK, RowsOK', Grow, NEW q \in Requests, RequestOK(q),
         pc'[q] = pc[q], item'[q] = item[q], seen'[q] = seen[q], ask'[q] = ask[q]
  PROVE  RequestOK(q)'
BY SawStays DEF RequestOK, SawRoutine, SawPayment

\* An action of one worker, and what it does to that worker.
WorkerMove(w, label) ==
  /\ pc' = [pc EXCEPT ![w] = label]
  /\ UNCHANGED <<item, seen, ask>>
  /\ \A v \in Workers : v # w => at'[v] = at[v] /\ found'[v] = found[v]
  /\ at' \in [Workers -> Moments]
  /\ found' = [v \in Workers |-> found'[v]]

LEMMA WorkerMoves ==
  ASSUME IInv, RowsOK', Grow, ForecastsOK', NEW w \in Workers, NEW label \in Labels,
         WorkerMove(w, label), WorkerOK(w)'
  PROVE  LocalOK'
<1>1. RowsOK /\ LocalOK /\ w \in Actors /\ \A q \in Requests : q \in Actors /\ q # w
  BY SchedulesAssumption DEF IInv, Actors
<1>2. pc' \in [Actors -> Labels]
  BY <1>1 DEF WorkerMove, LocalOK
<1>3. ASSUME NEW v \in Workers, v # w  PROVE WorkerOK(v)'
  <2>1. pc'[v] = pc[v] /\ at'[v] = at[v] /\ found'[v] \subseteq found[v] /\ WorkerOK(v)
    BY <1>1, <1>3 DEF WorkerMove, LocalOK, Actors
  <2> QED BY <1>1, <2>1, WorkerStays
<1>4. ASSUME NEW q \in Requests  PROVE RequestOK(q)'
  <2>1. pc'[q] = pc[q] /\ item'[q] = item[q] /\ seen'[q] = seen[q] /\ ask'[q] = ask[q]
        /\ RequestOK(q)
    BY <1>1 DEF WorkerMove, LocalOK
  <2> QED BY <1>1, <2>1, RequestStays
<1> QED BY <1>1, <1>2, <1>3, <1>4 DEF LocalOK, WorkerMove

\* An action of one request.
RequestMove(q, label) ==
  /\ pc' = [pc EXCEPT ![q] = label]
  /\ UNCHANGED <<at, found>>
  /\ \A x \in Requests : x # q =>
       item'[x] = item[x] /\ seen'[x] = seen[x] /\ ask'[x] = ask[x]
  /\ item' = [x \in Requests |-> item'[x]]
  /\ seen' = [x \in Requests |-> seen'[x]]
  /\ ask' = [x \in Requests |-> ask'[x]]

LEMMA RequestMoves ==
  ASSUME IInv, RowsOK', Grow, ForecastsOK', NEW q \in Requests, NEW label \in Labels,
         RequestMove(q, label), RequestOK(q)'
  PROVE  LocalOK'
<1>1. RowsOK /\ LocalOK /\ q \in Actors /\ \A w \in Workers : w \in Actors /\ q # w
  BY SchedulesAssumption DEF IInv, Actors
<1>2. pc' \in [Actors -> Labels]
  BY <1>1 DEF RequestMove, LocalOK
<1>3. ASSUME NEW w \in Workers  PROVE WorkerOK(w)'
  <2>1. pc'[w] = pc[w] /\ at'[w] = at[w] /\ found'[w] \subseteq found[w] /\ WorkerOK(w)
    BY <1>1 DEF RequestMove, LocalOK
  <2> QED BY <1>1, <2>1, WorkerStays
<1>4. ASSUME NEW x \in Requests, x # q  PROVE RequestOK(x)'
  <2>1. pc'[x] = pc[x] /\ item'[x] = item[x] /\ seen'[x] = seen[x] /\ ask'[x] = ask[x]
        /\ RequestOK(x)
    BY <1>1, <1>4 DEF RequestMove, LocalOK, Actors
  <2> QED BY <1>1, <2>1, RequestStays
<1> QED BY <1>1, <1>2, <1>3, <1>4 DEF LocalOK, RequestMove

LEMMA FinishLocal ==
  ASSUME IInv, RowsOK', Grow, ForecastsOK', NEW q \in Requests, Finish(q)
  PROVE  LocalOK'
<1>1. RequestMove(q, "done") /\ "done" \in Labels
  BY DEF IInv, LocalOK, Finish, Goto, RequestMove, Labels
<1>2. /\ pc'[q] = "done" /\ item'[q] = NoItem /\ seen'[q] = NoItem /\ ask'[q] = NoItem
  <2>1. q \in Actors
    BY DEF Actors
  <2> QED BY <2>1 DEF IInv, LocalOK, Finish, Goto
<1>3. RequestOK(q)'
  BY <1>2 DEF RequestOK, RoutineCalls, PaymentCalls
<1> QED BY <1>1, <1>3, RequestMoves

LEMMA RestLocal ==
  ASSUME IInv, RowsOK', Grow, ForecastsOK', NEW w \in Workers, Rest(w), UNCHANGED <<item, seen, ask>>
  PROVE  LocalOK'
<1>1. LocalOK /\ w \in Actors /\ 0 \in Moments
  BY SchedulesAssumption DEF IInv, Actors, Moments
<1>2. WorkerMove(w, "idle") /\ "idle" \in Labels
  BY <1>1 DEF LocalOK, Rest, Goto, WorkerMove, Labels
<1>3. pc'[w] = "idle" /\ at'[w] = 0 /\ found'[w] = {}
  BY <1>1 DEF LocalOK, Rest, Goto
<1>4. WorkerOK(w)'
  BY <1>1, <1>3 DEF WorkerOK
<1> QED BY <1>2, <1>4, WorkerMoves

\* A worker that has dealt with a row and looks for the next.
LEMMA DealtLocal ==
  ASSUME IInv, RowsOK', Grow, ForecastsOK', NEW w \in Workers, NEW c,
         found' = [found EXCEPT ![w] = @ \ {c}], UNCHANGED <<pc, at, item, seen, ask>>
  PROVE  LocalOK'
<1>1. LocalOK /\ RowsOK /\ w \in Actors /\ WorkerOK(w)
  BY DEF IInv, LocalOK, Actors
<1>2. WorkerMove(w, pc[w]) /\ pc[w] \in Labels
  BY <1>1 DEF LocalOK, WorkerMove
<1>3. pc'[w] = pc[w] /\ at'[w] = at[w] /\ found'[w] \subseteq found[w]
  BY <1>1 DEF LocalOK
<1>4. WorkerOK(w)'
  BY <1>1, <1>3, WorkerStays
<1> QED BY <1>2, <1>4, WorkerMoves

\* A worker that begins a part of its tick with what a search has found.
LEMMA SearchLocal ==
  ASSUME IInv, RowsOK', Grow, ForecastsOK', NEW w \in Workers, NEW label \in Labels, NEW F,
         at' = [at EXCEPT ![w] = now], found' = [found EXCEPT ![w] = F], Goto(w, label),
         UNCHANGED <<now, rows, item, seen, ask>>,
         \/ /\ label = "routines"
            /\ \A c \in F : \E r \in Routines : /\ c = [id |-> r, row |-> routine[r]]
                                                /\ routine[r].active /\ routine[r].nextRun <= now
         \/ /\ label = "payments"
            /\ \A c \in F : \E p \in Payments : /\ c = [id |-> p, row |-> payment[p]]
                                                /\ payment[p].active /\ payment[p].nextDue <= now
         \/ /\ label = "remind"
            /\ \A c \in F : \E p \in Payments : \E f \in forecast[p] : c = [id |-> p, row |-> f]
  PROVE  LocalOK'
<1>1. /\ LocalOK /\ RowsOK /\ ForecastsOK /\ w \in Actors /\ now \in Moments
      /\ \A r \in Routines : routine[r] \in RoutineRows /\ routine[r].version \in Nat
      /\ \A p \in Payments : payment[p] \in PaymentRows /\ payment[p].version \in Nat
  BY DEF IInv, LocalOK, RowsOK, Actors, RoutineRows, PaymentRows
<1>2. WorkerMove(w, label)
  BY <1>1 DEF LocalOK, WorkerMove, Goto
<1>3. pc'[w] = label /\ at'[w] = now /\ found'[w] = F
  BY <1>1 DEF LocalOK, Goto
<1>4. CASE label = "routines"
  <2>1. ASSUME NEW c \in F
        PROVE  c \in [id : Routines, row : RoutineRows] /\ SawRoutine(c.id, c.row)'
               /\ c.row.nextRun <= now
    <3>1. PICK r \in Routines : c = [id |-> r, row |-> routine[r]]
                                /\ routine[r].active /\ routine[r].nextRun <= now
      BY <1>4
    <3>2. routine[r].version > 0 /\ routine' = routine
      BY <1>1, <3>1 DEF RowsOK, rows
    <3> QED BY <1>1, <3>1, <3>2 DEF SawRoutine
  <2>2. WorkerOK(w)'
    BY <1>1, <1>3, <1>4, <2>1 DEF WorkerOK
  <2> QED BY <1>2, <2>2, WorkerMoves
<1>5. CASE label = "payments"
  <2>1. ASSUME NEW c \in F
        PROVE  c \in [id : Payments, row : PaymentRows] /\ SawPayment(c.id, c.row)'
               /\ c.row.nextDue <= now
    <3>1. PICK p \in Payments : c = [id |-> p, row |-> payment[p]]
                                /\ payment[p].active /\ payment[p].nextDue <= now
      BY <1>5
    <3>2. payment[p].version > 0 /\ payment' = payment
      BY <1>1, <3>1 DEF RowsOK, rows
    <3> QED BY <1>1, <3>1, <3>2 DEF SawPayment
  <2>2. WorkerOK(w)'
    BY <1>1, <1>3, <1>5, <2>1 DEF WorkerOK
  <2> QED BY <1>2, <2>2, WorkerMoves
<1>6. CASE label = "remind"
  <2>1. ASSUME NEW c \in F
        PROVE  c \in [id : Payments, row : ForecastRows] /\ SawForecast(c.id, c.row)'
    <3>0. PICK p \in Payments : \E f \in forecast[p] : c = [id |-> p, row |-> f]
      BY <1>6
    <3>1. PICK f \in forecast[p] : c = [id |-> p, row |-> f]
      BY <3>0
    <3>2. /\ f \in ForecastRows /\ f.due \in Dates /\ f.id <= payment[p].version
          /\ \A g \in forecast[p] : g.id = f.id => g = f
      BY <1>1, <3>1 DEF ForecastsOK, ForecastRows
    <3>3. payment' = payment /\ forecast' = forecast
      BY DEF rows
    <3> QED BY <3>1, <3>2, <3>3 DEF SawForecast
  <2>2. WorkerOK(w)'
    BY <1>1, <1>3, <1>6, <2>1 DEF WorkerOK
  <2> QED BY <1>2, <2>2, WorkerMoves
<1> QED BY <1>4, <1>5, <1>6

LEMMA StartRoutineLocal ==
  ASSUME IInv, RowsOK', Grow, ForecastsOK', NEW q \in Requests, NEW r \in Routines,
         StartRoutine(q, r)
  PROVE  LocalOK'
<1>1. LocalOK /\ RowsOK /\ q \in Actors /\ routine' = routine
      /\ routine[r] \in RoutineRows /\ routine[r].version \in Nat
  BY DEF IInv, LocalOK, RowsOK, Actors, RoutineRows, StartRoutine, rows
<1>2. PICK label \in RoutineCalls :
        Read(q, r, routine[r], label) /\ (label = "generate" => routine[r].nextRun <= Horizon)
  BY DEF StartRoutine, RoutineCalls
<1>3. RequestMove(q, label) /\ label \in Labels
  BY <1>1, <1>2 DEF StartRoutine, Read, Goto, LocalOK, RequestMove, RoutineCalls, Labels
<1>4. pc'[q] = label /\ item'[q] = r /\ seen'[q] = routine[r] /\ ask'[q] = ask[q]
      /\ routine[r].version > 0
  BY <1>1, <1>2 DEF StartRoutine, Read, Goto, LocalOK
<1>5. SawRoutine(r, routine[r])'
  BY <1>1, <1>4 DEF SawRoutine
<1>6. RequestOK(q)'
  BY <1>1, <1>2, <1>4, <1>5 DEF RequestOK, LocalOK, RoutineCalls, PaymentCalls, SawRoutine
<1> QED BY <1>3, <1>6, RequestMoves

LEMMA StartPaymentLocal ==
  ASSUME IInv, RowsOK', Grow, ForecastsOK', NEW q \in Requests, NEW p \in Payments,
         StartPayment(q, p)
  PROVE  LocalOK'
<1>1. LocalOK /\ RowsOK /\ q \in Actors /\ payment' = payment
      /\ payment[p] \in PaymentRows /\ payment[p].version \in Nat /\ payment[p].nextDue \in Dates
  BY DEF IInv, LocalOK, RowsOK, Actors, PaymentRows, StartPayment, rows
<1>2. PICK label \in PaymentCalls :
        /\ Read(q, p, payment[p], label)
        /\ \/ label # "editPayment" /\ UNCHANGED ask
           \/ \E redo \in BOOLEAN, o \in Offsets, on \in BOOLEAN, d \in Dates :
                /\ redo \/ (d = payment[p].nextDue /\ o = payment[p].offset)
                /\ ask' = [ask EXCEPT ![q] =
                             [redo |-> redo, due |-> d, offset |-> o, active |-> on]]
  <2>1. \A d \in {payment[p].nextDue} \union {t \in Moments : t > now} : d \in Dates
    BY <1>1, SchedulesAssumption DEF Moments, Dates
  <2> QED BY <2>1 DEF StartPayment, PaymentCalls
<1>3. RequestMove(q, label) /\ label \in Labels
  BY <1>1, <1>2 DEF StartPayment, Read, Goto, LocalOK, RequestMove, PaymentCalls, Labels
<1>4. pc'[q] = label /\ item'[q] = p /\ seen'[q] = payment[p] /\ payment[p].version > 0
  BY <1>1, <1>2 DEF StartPayment, Read, Goto, LocalOK
<1>5. SawPayment(p, payment[p])'
  BY <1>1, <1>4 DEF SawPayment
<1>6. /\ ask'[q] \in Asks \union {NoItem}
      /\ label = "editPayment" =>
           /\ ask'[q] \in Asks
           /\ ~ask'[q].redo => ask'[q].due = payment[p].nextDue
                               /\ ask'[q].offset = payment[p].offset
  BY <1>1, <1>2 DEF LocalOK, RequestOK, Asks
<1>7. RequestOK(q)'
  BY <1>1, <1>2, <1>4, <1>5, <1>6
  DEF RequestOK, RoutineCalls, PaymentCalls, SawPayment
<1> QED BY <1>3, <1>7, RequestMoves

\* Steps of the environment leave every worker and every request where it is.
LEMMA LocalStays ==
  ASSUME IInv, RowsOK', Grow, ForecastsOK', UNCHANGED local
  PROVE  LocalOK'
<1>1. RowsOK /\ LocalOK /\ UNCHANGED <<pc, at, found, item, seen, ask>>
  BY DEF IInv, local
<1>2. \A w \in Workers : WorkerOK(w)'
  BY <1>1, WorkerStays DEF LocalOK
<1>3. \A q \in Requests : RequestOK(q)'
  BY <1>1, RequestStays DEF LocalOK
<1> QED BY <1>1, <1>2, <1>3 DEF LocalOK

LEMMA LocalStep ==
  ASSUME IInv, [Next]_vars, RowsOK', Grow, ForecastsOK'
  PROVE  LocalOK'
<1>1. CASE \/ Advance \/ UNCHANGED vars
           \/ \E r \in Routines, d \in Moments, kept \in BOOLEAN : CreateRoutine(r, d, kept)
           \/ \E p \in Payments, d \in Moments, o \in Offsets, kept \in BOOLEAN :
                CreatePayment(p, d, o, kept)
  BY <1>1, LocalStays DEF Advance, CreateRoutine, CreatePayment, vars
<1>2. ASSUME NEW w \in Workers, SearchRoutines(w)  PROVE LocalOK'
  BY <1>2, SearchLocal DEF SearchRoutines, DueRoutines, Labels
<1>3. ASSUME NEW w \in Workers, SearchPayments(w)  PROVE LocalOK'
  BY <1>3, SearchLocal DEF SearchPayments, DuePayments, Labels
<1>4. ASSUME NEW w \in Workers, SearchReminders(w)  PROVE LocalOK'
  <2> DEFINE F == {[id |-> x[1], row |-> x[2]] : x \in
                     {y \in Payments \X ForecastsNow : Reminding(y[1], y[2])}}
  <2>1. \A c \in F : \E p \in Payments : \E f \in forecast[p] : c = [id |-> p, row |-> f]
    BY DEF Reminding
  <2>2. found' = [found EXCEPT ![w] = F]
    BY <1>4 DEF SearchReminders
  <2> HIDE DEF F
  <2> QED BY <1>4, <2>1, <2>2, SearchLocal DEF SearchReminders, Labels
<1>5. ASSUME NEW w \in Workers, GenerateTask(w) \/ Remind(w)  PROVE LocalOK'
  BY <1>5, DealtLocal DEF GenerateTask, Remind
<1>6. ASSUME NEW w \in Workers, GenerateForecast(w)  PROVE LocalOK'
  <2>1. \/ Rest(w) /\ UNCHANGED <<item, seen, ask>>
        \/ \E c \in found[w] : /\ found' = [found EXCEPT ![w] = @ \ {c}]
                               /\ UNCHANGED <<pc, at, item, seen, ask>>
    BY <1>6 DEF GenerateForecast
  <2> QED BY <2>1, RestLocal, DealtLocal
<1>7. ASSUME NEW w \in Workers, TickEnds(w) \/ TickDies(w)  PROVE LocalOK'
  BY <1>7, RestLocal DEF TickEnds, TickDies
<1>8. ASSUME NEW q \in Requests, Call(q)  PROVE LocalOK'
  <2>1. CASE Finish(q)
    BY <2>1, FinishLocal
  <2>2. CASE ~Finish(q)
    BY <1>8, <2>2, StartRoutineLocal, StartPaymentLocal
    DEF Call, EditRoutine, RestoreRoutine, GenerateByHand, EditPayment, ArchivePayment,
        RestorePayment
  <2> QED BY <2>1, <2>2
<1> QED BY <1>1, <1>2, <1>3, <1>4, <1>5, <1>6, <1>7, <1>8 DEF Next, Tick, RemindTick

-----------------------------------------------------------------------------
(***************************************************************************)
(* Forecasts, their reminders and the next dates of payments.              *)
(***************************************************************************)

LEMMA ForecastTyped ==
  ASSUME NEW v \in Nat, NEW d \in Dates, NEW o \in Offsets
  PROVE  /\ Forecast(v, d, o) \in ForecastRows
         /\ Forecast(v, d, o).id = v /\ Forecast(v, d, o).due = d
         /\ Forecast(v, d, o).at = d - o /\ ~Forecast(v, d, o).sent
<1>1. d - o \in Int
  BY SchedulesAssumption DEF Dates
<1> QED BY <1>1 DEF Forecast, ForecastRows

\* A forecast for a date that has none, named by the new version of its payment;
\* it is the one of the next date, and every forecast that was sent stays.
Inserts(p) ==
  \E S \in SUBSET forecast[p] : \E f \in ForecastRows :
    /\ Sent(p) \subseteq S
    /\ forecast' = [forecast EXCEPT ![p] = S \union {f}]
    /\ \A g \in S : g.due # f.due
    /\ f.id = payment[p].version + 1
    /\ f.id <= payment'[p].version
    /\ f.due = payment'[p].nextDue
    /\ f.at = f.due - payment'[p].offset
    /\ ~f.sent
    /\ \A x \in Payments : x # p => payment'[x] = payment[x]
    /\ reminded' = reminded

\* A reminder: one forecast that was not sent is sent.
Sends(p) ==
  \E f \in forecast[p] :
    /\ ~f.sent
    /\ forecast' = [forecast EXCEPT ![p] = (@ \ {f}) \union {[f EXCEPT !.sent = TRUE]}]
    /\ reminded' = [reminded EXCEPT ![p][f.due] = @ + 1]
    /\ payment' = payment

\* Forecasts stay; a payment may be archived or restored, or edited without a
\* change of its date and offset.
Keeps ==
  /\ UNCHANGED <<forecast, reminded>>
  /\ \A p \in Payments : /\ payment'[p].nextDue = payment[p].nextDue
                         /\ payment'[p].offset = payment[p].offset
                         /\ payment'[p].version > 0 => payment[p].version > 0

LEMMA GenerateForecastInserts ==
  ASSUME IInv, NEW w \in Workers, GenerateForecast(w)
  PROVE  Keeps \/ \E p \in Payments : Inserts(p)
<1>1. PICK c \in found[w] : LET next == NextAfter(c.row.nextDue, at[w]) IN
        \/ /\ Current(c)
           /\ ~Forecasted(c.id, next)
           /\ payment' = [payment EXCEPT ![c.id].nextDue = next, ![c.id].version = @ + 1]
           /\ forecast' = [forecast EXCEPT ![c.id] = @ \union
                   {Forecast(c.row.version + 1, next, c.row.offset)}]
        \/ UNCHANGED <<payment, forecast>>
  BY DEF GenerateForecast
<1> DEFINE next == NextAfter(c.row.nextDue, at[w])
           f == Forecast(c.row.version + 1, next, c.row.offset)
<1>2. /\ RowsOK /\ ForecastsOK /\ reminded' = reminded
      /\ c.id \in Payments /\ c.row \in PaymentRows /\ at[w] \in Moments
      /\ SawPayment(c.id, c.row) /\ c.row.nextDue <= at[w]
  BY DEF GenerateForecast, IInv, LocalOK, WorkerOK, history
<1>3. next \in Dates
  BY <1>2, NextAfterIsLater DEF PaymentRows
<1>4. /\ f \in ForecastRows /\ f.id = c.row.version + 1 /\ f.due = next
      /\ f.at = next - c.row.offset /\ ~f.sent
  BY <1>2, <1>3, ForecastTyped DEF PaymentRows
<1>5. CASE UNCHANGED <<payment, forecast>>
  BY <1>2, <1>5 DEF Keeps
<1>6. ASSUME Current(c), ~Forecasted(c.id, next),
             payment' = [payment EXCEPT ![c.id].nextDue = next, ![c.id].version = @ + 1],
             forecast' = [forecast EXCEPT ![c.id] = @ \union {f}]
      PROVE  Inserts(c.id)
  <2> HIDE DEF next, f
  <2>1. c.row = payment[c.id] /\ payment[c.id].version \in Nat
    BY <1>2, <1>6 DEF Current, SawPayment, PaymentRows
  <2>2. /\ payment'[c.id].version = payment[c.id].version + 1
        /\ payment'[c.id].nextDue = next
        /\ payment'[c.id].offset = payment[c.id].offset
        /\ \A x \in Payments : x # c.id => payment'[x] = payment[x]
    BY <1>2, <1>6 DEF RowsOK, PaymentRows
  <2>3. \A g \in forecast[c.id] : g.due # f.due
    BY <1>4, <1>6 DEF Forecasted
  <2>4. Sent(c.id) \subseteq forecast[c.id]
    BY DEF Sent
  <2>5. forecast' = [forecast EXCEPT ![c.id] = forecast[c.id] \union {f}]
    BY <1>6
  <2>6. f.id <= payment'[c.id].version
    BY <1>4, <2>1, <2>2
  <2> QED BY <1>2, <1>4, <2>1, <2>2, <2>3, <2>4, <2>5, <2>6 DEF Inserts
<1> QED BY <1>1, <1>2, <1>5, <1>6

LEMMA CreatePaymentInserts ==
  ASSUME IInv, NEW p \in Payments, NEW d \in Moments, NEW o \in Offsets, NEW kept \in BOOLEAN,
         CreatePayment(p, d, o, kept)
  PROVE  Inserts(p)
<1> DEFINE f == Forecast(1, d, o)
<1>1. RowsOK /\ ForecastsOK /\ d \in Dates
  BY SchedulesAssumption DEF IInv, Moments, Dates
<1>2. /\ payment[p].version = 0 /\ reminded' = reminded
      /\ payment' = [payment EXCEPT ![p] = [active |-> kept, archived |-> ~kept, nextDue |-> d,
                            offset |-> o, version |-> IF kept THEN 1 ELSE 2]]
      /\ forecast' = [forecast EXCEPT ![p] = {f}]
  BY DEF CreatePayment, history
<1>3. f \in ForecastRows /\ f.id = 1 /\ f.due = d /\ f.at = d - o /\ ~f.sent
  BY <1>1, ForecastTyped
<1> HIDE DEF f
<1>4. forecast[p] = {}
  BY <1>1, <1>2 DEF ForecastsOK
<1>5. /\ payment'[p].nextDue = d /\ payment'[p].offset = o /\ payment'[p].version >= 1
      /\ \A x \in Payments : x # p => payment'[x] = payment[x]
  BY <1>1, <1>2 DEF RowsOK
<1> DEFINE S == Sent(p)
<1>6. S \in SUBSET forecast[p] /\ S = {}
  BY <1>4 DEF Sent
<1>7. forecast' = [forecast EXCEPT ![p] = S \union {f}]
  BY <1>2, <1>6
<1>8. Sent(p) \subseteq S
  OBVIOUS
<1> HIDE DEF S
<1>9. f.id = payment[p].version + 1 /\ f.id <= payment'[p].version
  BY <1>2, <1>3, <1>5
<1> QED BY <1>2, <1>3, <1>5, <1>6, <1>7, <1>8, <1>9 DEF Inserts

LEMMA PaymentCallInserts ==
  ASSUME IInv, NEW q \in Requests, EditPayment(q) \/ ArchivePayment(q) \/ RestorePayment(q)
  PROVE  Keeps \/ \E p \in Payments : Inserts(p)
<1> DEFINE p == item[q]
<1>1. /\ RowsOK /\ ForecastsOK /\ p \in Payments /\ SawPayment(p, seen[q]) /\ reminded' = reminded
      /\ pc[q] = "editPayment" =>
           /\ ask[q] \in Asks
           /\ ~ask[q].redo => ask[q].due = seen[q].nextDue /\ ask[q].offset = seen[q].offset
  BY DEF IInv, LocalOK, RequestOK, PaymentCalls, EditPayment, ArchivePayment, RestorePayment,
         Finish
<1>2. CASE UNCHANGED <<payment, forecast>>
  BY <1>1, <1>2 DEF Keeps
<1>3. CASE ArchivePayment(q) \/ RestorePayment(q)
  <2>1. forecast' = forecast
    BY <1>3 DEF ArchivePayment, RestorePayment
  <2>2. PICK a \in BOOLEAN, b \in BOOLEAN :
          payment' \in {payment, [payment EXCEPT ![p].active = a, ![p].archived = b,
                                                 ![p].version = @ + 1]}
    BY <1>3 DEF ArchivePayment, RestorePayment
  <2>3. payment[p].version > 0
    BY <1>1 DEF SawPayment, RowsOK, PaymentRows
  <2>4. \A x \in Payments : /\ payment'[x].nextDue = payment[x].nextDue
                            /\ payment'[x].offset = payment[x].offset
                            /\ x # p => payment'[x].version = payment[x].version
    BY <1>1, <2>2 DEF RowsOK, PaymentRows
  <2> QED BY <1>1, <2>1, <2>3, <2>4 DEF Keeps
<1>4. CASE EditPayment(q) /\ ~UNCHANGED <<payment, forecast>>
  <2>1. /\ payment[p].version = seen[q].version /\ pc[q] = "editPayment"
        /\ ask[q].redo => \A f \in Sent(p) : f.due # ask[q].due
        /\ payment' = [payment EXCEPT ![p] =
                [active |-> ask[q].active, archived |-> FALSE, nextDue |-> ask[q].due,
                 offset |-> ask[q].offset, version |-> seen[q].version + 1]]
        /\ forecast' = IF ask[q].redo
                       THEN [forecast EXCEPT ![p] = Sent(p) \union
                               {Forecast(seen[q].version + 1, ask[q].due, ask[q].offset)}]
                       ELSE forecast
    BY <1>4 DEF EditPayment, Fits
  <2> HIDE DEF p
  <2>2. seen[q] = payment[p] /\ payment[p].version \in Nat /\ payment[p].version > 0
    BY <1>1, <2>1 DEF SawPayment, RowsOK, PaymentRows
  <2>3. /\ payment'[p].nextDue = ask[q].due /\ payment'[p].offset = ask[q].offset
        /\ payment'[p].version = payment[p].version + 1
        /\ \A x \in Payments : x # p => payment'[x] = payment[x]
    BY <1>1, <2>1, <2>2 DEF RowsOK
  <2>4. CASE ~ask[q].redo
    BY <1>1, <2>1, <2>2, <2>3, <2>4 DEF Keeps
  <2>5. CASE ask[q].redo
    <3> DEFINE f == Forecast(seen[q].version + 1, ask[q].due, ask[q].offset)
    <3>1. ask[q].due \in Dates /\ ask[q].offset \in Offsets /\ seen[q].version + 1 \in Nat
      BY <1>1, <2>1, <2>2 DEF Asks
    <3>2. /\ f \in ForecastRows /\ f.id = seen[q].version + 1 /\ f.due = ask[q].due
          /\ f.at = ask[q].due - ask[q].offset /\ ~f.sent
      BY <3>1, ForecastTyped
    <3>3. forecast' = [forecast EXCEPT ![p] = Sent(p) \union {f}]
      BY <2>1, <2>5
    <3> HIDE DEF f
    <3>4. \A g \in Sent(p) : g.due # f.due
      BY <2>1, <2>5, <3>2
    <3>5. f.id = payment[p].version + 1 /\ f.id <= payment'[p].version
      BY <2>2, <2>3, <3>2
    <3>6. f.due = payment'[p].nextDue /\ f.at = f.due - payment'[p].offset
      BY <2>3, <3>2
    <3>7. Sent(p) \in SUBSET forecast[p]
      BY DEF Sent
    <3>8. Inserts(p)
      BY <1>1, <2>3, <3>2, <3>3, <3>4, <3>5, <3>6, <3>7 DEF Inserts
    <3> QED BY <1>1, <3>8
  <2> QED BY <2>4, <2>5
<1> QED BY <1>2, <1>3, <1>4

LEMMA RemindSends ==
  ASSUME IInv, NEW w \in Workers, Remind(w)
  PROVE  Keeps \/ \E p \in Payments : Sends(p)
<1>1. PICK c \in found[w] :
        IF Claimable(c) # {}
        THEN /\ forecast' = [forecast EXCEPT ![c.id] =
                    (@ \ Claimable(c)) \union {[f EXCEPT !.sent = TRUE] : f \in Claimable(c)}]
             /\ reminded' = [reminded EXCEPT ![c.id][c.row.due] = @ + 1]
        ELSE UNCHANGED <<forecast, reminded>>
  BY DEF Remind
<1>2. /\ ForecastsOK /\ payment' = payment /\ c.id \in Payments /\ SawForecast(c.id, c.row)
  BY DEF Remind, IInv, LocalOK, WorkerOK
<1>3. CASE Claimable(c) = {}
  BY <1>1, <1>2, <1>3 DEF Keeps
<1>4. CASE Claimable(c) # {}
  <2>1. PICK f : f \in Claimable(c)
    BY <1>4
  <2>2. f \in forecast[c.id] /\ ~f.sent /\ f.id = c.row.id
    BY <2>1 DEF Claimable
  <2>3. f.due = c.row.due
    BY <1>2, <2>2 DEF SawForecast
  <2>4. \A g \in Claimable(c) : g = f
    <3>1. \A g \in Claimable(c) : g \in forecast[c.id] /\ g.id = f.id
      BY <2>2 DEF Claimable
    <3> QED BY <1>2, <2>2, <3>1 DEF ForecastsOK
  <2>5. Claimable(c) = {f}
    BY <2>1, <2>4
  <2>6. {[g EXCEPT !.sent = TRUE] : g \in {f}} = {[f EXCEPT !.sent = TRUE]}
    OBVIOUS
  <2>7. forecast' = [forecast EXCEPT ![c.id] = (@ \ {f}) \union {[f EXCEPT !.sent = TRUE]}]
    BY <1>1, <1>4, <2>5, <2>6
  <2>8. reminded' = [reminded EXCEPT ![c.id][f.due] = @ + 1]
    BY <1>1, <1>4, <2>3
  <2>9. Sends(c.id)
    BY <1>2, <2>2, <2>7, <2>8 DEF Sends
  <2> QED BY <1>2, <2>9
<1> QED BY <1>3, <1>4

\* Every step does one of the three.
LEMMA ForecastCases ==
  ASSUME IInv, [Next]_vars
  PROVE  Keeps \/ \E p \in Payments : Inserts(p) \/ Sends(p)
<1>1. CASE Quiet
  BY <1>1, QuietKeeps DEF Keeps
<1>2. CASE \E w \in Workers : GenerateTask(w)
  BY <1>2 DEF GenerateTask, Keeps
<1>3. CASE \E w \in Workers : GenerateForecast(w) \/ Remind(w)
  BY <1>3, GenerateForecastInserts, RemindSends
<1>4. CASE \E q \in Requests : EditRoutine(q) \/ RestoreRoutine(q) \/ GenerateByHand(q)
  BY <1>4 DEF EditRoutine, RestoreRoutine, GenerateByHand, Finish, Keeps
<1>5. CASE \E q \in Requests : EditPayment(q) \/ ArchivePayment(q) \/ RestorePayment(q)
  BY <1>5, PaymentCallInserts
<1>6. CASE \E r \in Routines, d \in Moments, kept \in BOOLEAN : CreateRoutine(r, d, kept)
  BY <1>6 DEF CreateRoutine, history, Keeps
<1>7. CASE \E p \in Payments, d \in Moments, o \in Offsets, kept \in BOOLEAN :
             CreatePayment(p, d, o, kept)
  BY <1>7, CreatePaymentInserts
<1> QED BY <1>1, <1>2, <1>3, <1>4, <1>5, <1>6, <1>7, NextSplits

LEMMA ForecastsStep ==
  ASSUME IInv, RowsOK', Grow, Keeps \/ \E p \in Payments : Inserts(p) \/ Sends(p)
  PROVE  ForecastsOK'
<1>1. /\ RowsOK /\ ForecastsOK
      /\ \A p \in Payments : /\ payment[p].version \in Nat /\ payment'[p].version \in Nat
                             /\ payment[p].version <= payment'[p].version
  BY DEF IInv, RowsOK, PaymentRows, Grow
<1>2. CASE Keeps
  <2>1. forecast' = forecast
    BY <1>2 DEF Keeps
  <2> QED BY <1>1, <2>1 DEF ForecastsOK
<1>3. ASSUME NEW p \in Payments, Inserts(p)  PROVE ForecastsOK'
  <2>1. PICK S \in SUBSET forecast[p] : \E f \in ForecastRows :
          /\ forecast' = [forecast EXCEPT ![p] = S \union {f}]
          /\ \A g \in S : g.due # f.due
          /\ f.id = payment[p].version + 1 /\ f.id <= payment'[p].version
    BY <1>3 DEF Inserts
  <2>2. PICK f \in ForecastRows :
          /\ forecast' = [forecast EXCEPT ![p] = S \union {f}]
          /\ \A g \in S : g.due # f.due
          /\ f.id = payment[p].version + 1 /\ f.id <= payment'[p].version
    BY <2>1
  <2>3. /\ forecast'[p] = S \union {f}
        /\ \A x \in Payments : x # p => forecast'[x] = forecast[x]
        /\ forecast' \in [Payments -> SUBSET ForecastRows]
    BY <1>1, <2>2 DEF ForecastsOK
  <2>4. \A g \in S : /\ g.id \in 1 .. payment[p].version /\ g.id # f.id
                     /\ \A h \in S : (g.due = h.due => g = h) /\ (g.id = h.id => g = h)
    BY <1>1, <2>2 DEF ForecastsOK
  <2>5. ASSUME NEW g \in forecast'[p], NEW h \in forecast'[p]
        PROVE  /\ g.id \in 1 .. payment'[p].version
               /\ g.due = h.due => g = h
               /\ g.id = h.id => g = h
    BY <1>1, <2>2, <2>3, <2>4
  <2>6. ASSUME NEW x \in Payments, x # p, NEW g \in forecast'[x], NEW h \in forecast'[x]
        PROVE  /\ g.id \in 1 .. payment'[x].version
               /\ g.due = h.due => g = h
               /\ g.id = h.id => g = h
    BY <1>1, <2>3, <2>6 DEF ForecastsOK
  <2> QED BY <2>3, <2>5, <2>6 DEF ForecastsOK
<1>4. ASSUME NEW p \in Payments, Sends(p)  PROVE ForecastsOK'
  <2>1. PICK f \in forecast[p] :
          forecast' = [forecast EXCEPT ![p] = (@ \ {f}) \union {[f EXCEPT !.sent = TRUE]}]
    BY <1>4 DEF Sends
  <2> DEFINE e == [f EXCEPT !.sent = TRUE]
  <2>2. f \in ForecastRows
    BY <1>1 DEF ForecastsOK
  <2>3. e \in ForecastRows /\ e.id = f.id /\ e.due = f.due
    BY <2>2 DEF ForecastRows
  <2>4. forecast' = [forecast EXCEPT ![p] = (forecast[p] \ {f}) \union {e}]
    BY <2>1
  <2> HIDE DEF e
  <2>5. /\ forecast'[p] = (forecast[p] \ {f}) \union {e}
        /\ \A x \in Payments : x # p => forecast'[x] = forecast[x]
        /\ forecast' \in [Payments -> SUBSET ForecastRows]
    BY <1>1, <2>3, <2>4 DEF ForecastsOK
  <2>6. ASSUME NEW g \in forecast'[p], NEW h \in forecast'[p]
        PROVE  /\ g.id \in 1 .. payment[p].version
               /\ g.due = h.due => g = h
               /\ g.id = h.id => g = h
    <3>1. \A a \in forecast[p], b \in forecast[p] : /\ a.id \in 1 .. payment[p].version
                                                    /\ a.due = b.due => a = b
                                                    /\ a.id = b.id => a = b
      BY <1>1 DEF ForecastsOK
    <3>2. \A a \in forecast[p] \ {f} : a.id # e.id /\ a.due # e.due
      BY <2>3, <3>1
    <3>3. e.id \in 1 .. payment[p].version
      BY <2>3, <3>1
    <3> QED BY <2>5, <3>1, <3>2, <3>3
  <2>7. payment' = payment
    BY <1>4 DEF Sends
  <2> QED BY <1>1, <2>5, <2>6, <2>7 DEF ForecastsOK
<1> QED BY <1>2, <1>3, <1>4

LEMMA RemindedStep ==
  ASSUME IInv, Keeps \/ \E p \in Payments : Inserts(p) \/ Sends(p)
  PROVE  RemindedOK'
<1>1. RowsOK /\ ForecastsOK /\ RemindedOK
  BY DEF IInv
<1>2. CASE Keeps
  BY <1>1, <1>2 DEF Keeps, RemindedOK
<1>3. ASSUME NEW p \in Payments, Inserts(p)  PROVE RemindedOK'
  <2>1. \A x \in Payments : \A f \in forecast[x] : f.sent => f \in forecast'[x]
    BY <1>1, <1>3 DEF Inserts, Sent, ForecastsOK
  <2>2. reminded' = reminded
    BY <1>3 DEF Inserts
  <2> QED BY <1>1, <2>1, <2>2 DEF RemindedOK
<1>4. ASSUME NEW p \in Payments, Sends(p)  PROVE RemindedOK'
  <2>1. PICK f \in forecast[p] :
          /\ ~f.sent
          /\ forecast' = [forecast EXCEPT ![p] = (@ \ {f}) \union {[f EXCEPT !.sent = TRUE]}]
          /\ reminded' = [reminded EXCEPT ![p][f.due] = @ + 1]
    BY <1>4 DEF Sends
  <2> DEFINE e == [f EXCEPT !.sent = TRUE]
  <2>2. /\ f \in ForecastRows /\ f.due \in Dates
        /\ e.due = f.due /\ e.sent
    BY <1>1 DEF ForecastsOK, ForecastRows
  <2>3. /\ forecast'[p] = (forecast[p] \ {f}) \union {e}
        /\ \A x \in Payments : x # p => forecast'[x] = forecast[x]
    BY <1>1, <2>1 DEF ForecastsOK
  <2> HIDE DEF e
  <2>4. reminded[p][f.due] = 0
    <3>1. reminded[p][f.due] \in Nat /\ reminded[p][f.due] <= 1
      BY <1>1, <2>2 DEF RemindedOK
    <3>2. ASSUME reminded[p][f.due] = 1  PROVE FALSE
      <4>1. PICK g \in forecast[p] : g.sent /\ g.due = f.due
        BY <1>1, <2>2, <3>2 DEF RemindedOK
      <4> QED BY <1>1, <2>1, <4>1 DEF ForecastsOK
    <3> QED BY <3>1, <3>2
  <2>5. /\ reminded' \in [Payments -> [Dates -> Nat]]
        /\ reminded'[p][f.due] = 1
        /\ \A d \in Dates : d # f.due => reminded'[p][d] = reminded[p][d]
        /\ \A x \in Payments : x # p => reminded'[x] = reminded[x]
    BY <1>1, <2>1, <2>2, <2>4 DEF RemindedOK
  <2>6. \A x \in Payments : \A g \in forecast[x] : g.sent => g \in forecast'[x]
    BY <2>1, <2>3
  <2>7. e \in forecast'[p]
    BY <2>3
  <2> QED BY <1>1, <2>2, <2>5, <2>6, <2>7 DEF RemindedOK
<1> QED BY <1>2, <1>3, <1>4

LEMMA NextStep ==
  ASSUME IInv, Keeps \/ \E p \in Payments : Inserts(p) \/ Sends(p)
  PROVE  NextOK'
<1>1. RowsOK /\ ForecastsOK /\ NextOK
  BY DEF IInv
<1>2. CASE Keeps
  BY <1>1, <1>2 DEF Keeps, NextOK
<1>3. ASSUME NEW p \in Payments, Inserts(p)  PROVE NextOK'
  <2>1. PICK S \in SUBSET forecast[p] : \E f \in ForecastRows :
          /\ forecast' = [forecast EXCEPT ![p] = S \union {f}]
          /\ f.due = payment'[p].nextDue /\ f.at = f.due - payment'[p].offset
    BY <1>3 DEF Inserts
  <2>2. PICK f \in ForecastRows :
          /\ forecast' = [forecast EXCEPT ![p] = S \union {f}]
          /\ f.due = payment'[p].nextDue /\ f.at = f.due - payment'[p].offset
    BY <2>1
  <2>3. f \in forecast'[p]
    BY <1>1, <2>2 DEF ForecastsOK
  <2>4. \A x \in Payments : x # p => payment'[x] = payment[x] /\ forecast'[x] = forecast[x]
    BY <1>1, <1>3, <2>2 DEF Inserts, ForecastsOK
  <2> QED BY <1>1, <2>2, <2>3, <2>4 DEF NextOK
<1>4. ASSUME NEW p \in Payments, Sends(p)  PROVE NextOK'
  <2>1. PICK f \in forecast[p] :
          forecast' = [forecast EXCEPT ![p] = (@ \ {f}) \union {[f EXCEPT !.sent = TRUE]}]
    BY <1>4 DEF Sends
  <2> DEFINE e == [f EXCEPT !.sent = TRUE]
  <2>2. e.due = f.due /\ e.sent
    BY <1>1 DEF ForecastsOK, ForecastRows
  <2>3. /\ forecast'[p] = (forecast[p] \ {f}) \union {e} /\ payment' = payment
        /\ \A x \in Payments : x # p => forecast'[x] = forecast[x]
    BY <1>1, <1>4, <2>1 DEF ForecastsOK, Sends
  <2> HIDE DEF e
  <2>4. ASSUME NEW x \in Payments, NEW g \in forecast[x], g.due = payment[x].nextDue,
               g.sent \/ g.at = g.due - payment[x].offset
        PROVE  \E h \in forecast'[x] : /\ h.due = payment[x].nextDue
                                       /\ h.sent \/ h.at = h.due - payment[x].offset
    <3>1. CASE x = p /\ g = f
      BY <2>2, <2>3, <2>4, <3>1
    <3>2. CASE ~(x = p /\ g = f)
      BY <2>3, <2>4, <3>2
    <3> QED BY <3>1, <3>2
  <2> QED BY <1>1, <2>3, <2>4 DEF NextOK
<1> QED BY <1>2, <1>3, <1>4

-----------------------------------------------------------------------------
(***************************************************************************)
(* Tasks made of occurrences.                                              *)
(***************************************************************************)

\* A task is made of the next occurrence and the date moves on.
Makes(r) ==
  /\ made' = [made EXCEPT ![r][routine[r].nextRun] = @ + 1]
  /\ routine'[r].nextRun > routine[r].nextRun
  /\ rewound' = rewound
  /\ \A x \in Routines : x # r => routine'[x] = routine[x]

\* A person sets a date.
Rewinds(r) ==
  /\ rewound' = [rewound EXCEPT ![r] = @ + 1]
  /\ made' = made
  /\ \A x \in Routines : x # r => routine'[x] = routine[x]

\* Dates stay, or a routine is created, of which no occurrence is made yet.
Rests ==
  /\ UNCHANGED <<made, rewound>>
  /\ \A r \in Routines : \/ routine'[r].nextRun = routine[r].nextRun
                         \/ routine[r].version = 0

LEMMA GenerateTaskMakes ==
  ASSUME IInv, NEW w \in Workers, GenerateTask(w)
  PROVE  Rests \/ \E r \in Routines : Makes(r)
<1>1. PICK c \in found[w] :
        IF Unchanged(c)
        THEN /\ routine' = [routine EXCEPT ![c.id].nextRun = NextAfter(c.row.nextRun, at[w]),
                                           ![c.id].version = @ + 1]
             /\ made' = [made EXCEPT ![c.id][c.row.nextRun] = @ + 1]
        ELSE UNCHANGED <<routine, made>>
  BY DEF GenerateTask
<1>2. /\ RowsOK /\ rewound' = rewound
      /\ c.id \in Routines /\ c.row \in RoutineRows /\ at[w] \in Moments
      /\ SawRoutine(c.id, c.row) /\ c.row.nextRun <= at[w]
  BY DEF GenerateTask, IInv, LocalOK, WorkerOK
<1>3. NextAfter(c.row.nextRun, at[w]) > c.row.nextRun
  BY <1>2, NextAfterIsLater DEF RoutineRows
<1> HIDE DEF NextAfter
<1>4. CASE ~Unchanged(c)
  BY <1>1, <1>2, <1>4 DEF Rests
<1>5. CASE Unchanged(c)
  <2>1. c.row = routine[c.id]
    BY <1>2, <1>5 DEF Unchanged, SawRoutine
  <2>2. /\ routine'[c.id].nextRun = NextAfter(c.row.nextRun, at[w])
        /\ \A x \in Routines : x # c.id => routine'[x] = routine[x]
    BY <1>1, <1>2, <1>5 DEF RowsOK, RoutineRows
  <2> QED BY <1>1, <1>2, <1>3, <1>5, <2>1, <2>2 DEF Makes
<1> QED BY <1>4, <1>5

LEMMA RoutineCallMakes ==
  ASSUME IInv, NEW q \in Requests, EditRoutine(q) \/ RestoreRoutine(q) \/ GenerateByHand(q)
  PROVE  Rests \/ \E r \in Routines : Makes(r) \/ Rewinds(r)
<1> DEFINE r == item[q]
<1>1. RowsOK /\ r \in Routines /\ SawRoutine(r, seen[q])
  BY DEF IInv, LocalOK, RequestOK, RoutineCalls, EditRoutine, RestoreRoutine, GenerateByHand
<1>2. CASE GenerateByHand(q)
  <2>1. CASE routine[r].active /\ routine[r].version = seen[q].version
    <3>1. /\ routine' = [routine EXCEPT ![r].nextRun = seen[q].nextRun + Period,
                                        ![r].version = @ + 1]
          /\ made' = [made EXCEPT ![r][seen[q].nextRun] = @ + 1]
          /\ rewound' = rewound
      BY <1>2, <2>1 DEF GenerateByHand
    <3>2. seen[q] = routine[r] /\ seen[q].nextRun \in Dates
      BY <1>1, <2>1 DEF SawRoutine, RoutineRows
    <3>3. seen[q].nextRun + Period > seen[q].nextRun
      BY <3>2, SchedulesAssumption DEF Dates
    <3> HIDE DEF r
    <3>4. /\ routine'[r].nextRun = seen[q].nextRun + Period
          /\ \A x \in Routines : x # r => routine'[x] = routine[x]
      BY <1>1, <3>1 DEF RowsOK, RoutineRows
    <3> QED BY <1>1, <3>1, <3>2, <3>3, <3>4 DEF Makes
  <2>2. CASE ~(routine[r].active /\ routine[r].version = seen[q].version)
    BY <1>2, <2>2 DEF GenerateByHand, Rests
  <2> QED BY <2>1, <2>2
<1>3. CASE RestoreRoutine(q)
  <2>1. UNCHANGED <<made, rewound>> /\ routine' \in
          {routine, [routine EXCEPT ![r].active = TRUE, ![r].version = @ + 1]}
    BY <1>3 DEF RestoreRoutine
  <2> HIDE DEF r
  <2> QED BY <1>1, <2>1 DEF RowsOK, RoutineRows, Rests
<1>4. CASE EditRoutine(q)
  <2>1. /\ made' = made
        /\ \/ /\ routine' \in {routine, [routine EXCEPT ![r].version = @ + 1],
                    [routine EXCEPT ![r].active = FALSE, ![r].version = @ + 1]}
              /\ rewound' = rewound
           \/ /\ \E d \in Moments : routine' = [routine EXCEPT ![r].nextRun = d,
                                                               ![r].version = @ + 1]
              /\ rewound' = [rewound EXCEPT ![r] = @ + 1]
    BY <1>4 DEF EditRoutine
  <2> HIDE DEF r
  <2>2. CASE rewound' = [rewound EXCEPT ![r] = @ + 1] /\ \E d \in Moments :
               routine' = [routine EXCEPT ![r].nextRun = d, ![r].version = @ + 1]
    BY <1>1, <2>1, <2>2 DEF RowsOK, RoutineRows, Rewinds
  <2>3. CASE /\ routine' \in {routine, [routine EXCEPT ![r].version = @ + 1],
                    [routine EXCEPT ![r].active = FALSE, ![r].version = @ + 1]}
             /\ rewound' = rewound
    BY <1>1, <2>1, <2>3 DEF RowsOK, RoutineRows, Rests
  <2> QED BY <2>1, <2>2, <2>3
<1> QED BY <1>2, <1>3, <1>4

LEMMA MadeCases ==
  ASSUME IInv, [Next]_vars
  PROVE  Rests \/ \E r \in Routines : Makes(r) \/ Rewinds(r)
<1>1. CASE Quiet
  BY <1>1, QuietKeeps DEF Rests
<1>2. CASE \E w \in Workers : GenerateTask(w)
  BY <1>2, GenerateTaskMakes
<1>3. CASE \E w \in Workers : GenerateForecast(w) \/ Remind(w)
  BY <1>3 DEF GenerateForecast, Remind, history, Rests
<1>4. CASE \E q \in Requests : EditRoutine(q) \/ RestoreRoutine(q) \/ GenerateByHand(q)
  BY <1>4, RoutineCallMakes
<1>5. CASE \E q \in Requests : EditPayment(q) \/ ArchivePayment(q) \/ RestorePayment(q)
  BY <1>5 DEF EditPayment, ArchivePayment, RestorePayment, Finish, Rests
<1>6. CASE \E r \in Routines, d \in Moments, kept \in BOOLEAN : CreateRoutine(r, d, kept)
  BY <1>6 DEF CreateRoutine, history, IInv, RowsOK, Rests
<1>7. CASE \E p \in Payments, d \in Moments, o \in Offsets, kept \in BOOLEAN :
             CreatePayment(p, d, o, kept)
  BY <1>7 DEF CreatePayment, history, Rests
<1> QED BY <1>1, <1>2, <1>3, <1>4, <1>5, <1>6, <1>7, NextSplits

LEMMA MadeStep ==
  ASSUME IInv, RowsOK', Rests \/ \E r \in Routines : Makes(r) \/ Rewinds(r)
  PROVE  MadeOK'
<1>1. /\ RowsOK /\ MadeOK
      /\ \A r \in Routines : routine[r].nextRun \in Dates /\ routine'[r].nextRun \in Dates
      /\ \A d \in Dates : d \in Nat
      /\ \A r \in Routines : rewound[r] \in Nat /\ \A d \in Dates : made[r][d] \in Nat
  <2>1. RowsOK /\ MadeOK
    BY DEF IInv
  <2>2. \A r \in Routines : routine[r].nextRun \in Dates /\ routine'[r].nextRun \in Dates
    BY <2>1 DEF RowsOK, RoutineRows
  <2>3. \A d \in Dates : d \in Nat
    BY SchedulesAssumption DEF Dates
  <2>4. \A r \in Routines : rewound[r] \in Nat /\ \A d \in Dates : made[r][d] \in Nat
    BY <2>1 DEF MadeOK
  <2> QED BY <2>1, <2>2, <2>3, <2>4
<1>2. CASE Rests
  <2>1. \A r \in Routines, d \in Dates : d >= routine'[r].nextRun => made[r][d] <= rewound[r]
    <3>1. ASSUME NEW r \in Routines, NEW d \in Dates, d >= routine'[r].nextRun
          PROVE  d >= routine[r].nextRun
      BY <1>1, <1>2, <3>1 DEF Rests, RowsOK
    <3> QED BY <1>1, <3>1 DEF MadeOK
  <2> QED BY <1>1, <1>2, <2>1 DEF Rests, MadeOK
<1>3. ASSUME NEW r \in Routines, Makes(r)  PROVE MadeOK'
  <2> DEFINE n == routine[r].nextRun
  <2>1. /\ made' \in [Routines -> [Dates -> Nat]]
        /\ made'[r][n] = made[r][n] + 1
        /\ \A d \in Dates : d # n => made'[r][d] = made[r][d]
        /\ \A x \in Routines : x # r => made'[x] = made[x]
    BY <1>1, <1>3 DEF Makes, MadeOK
  <2>2. /\ rewound' = rewound /\ routine'[r].nextRun > n
        /\ \A x \in Routines : x # r => routine'[x] = routine[x]
    BY <1>3 DEF Makes
  <2>3. made[r][n] <= rewound[r]
    BY <1>1 DEF MadeOK
  <2>4. ASSUME NEW d \in Dates
        PROVE  /\ made'[r][d] <= 1 + rewound[r]
               /\ d >= routine'[r].nextRun => made'[r][d] <= rewound[r]
    <3>1. n \in Nat /\ d \in Nat /\ routine'[r].nextRun \in Nat
      BY <1>1
    <3>2. made[r][d] <= 1 + rewound[r] /\ (d >= n => made[r][d] <= rewound[r])
      BY <1>1 DEF MadeOK
    <3>3. made[r][n] \in Nat /\ made[r][d] \in Nat /\ rewound[r] \in Nat
      BY <1>1
    <3> HIDE DEF n
    <3>4. CASE d = n
      BY <2>1, <2>2, <2>3, <3>1, <3>3, <3>4
    <3>5. CASE d # n
      BY <2>1, <2>2, <3>1, <3>2, <3>3, <3>5
    <3> QED BY <3>4, <3>5
  <2> QED BY <1>1, <2>1, <2>2, <2>4 DEF MadeOK
<1>4. ASSUME NEW r \in Routines, Rewinds(r)  PROVE MadeOK'
  <2>1. /\ rewound' \in [Routines -> Nat] /\ rewound'[r] = rewound[r] + 1
        /\ \A x \in Routines : x # r => rewound'[x] = rewound[x]
        /\ made' = made /\ \A x \in Routines : x # r => routine'[x] = routine[x]
    BY <1>1, <1>4 DEF Rewinds, MadeOK
  <2>2. \A d \in Dates : made[r][d] <= rewound'[r] /\ made[r][d] <= 1 + rewound'[r]
    BY <1>1, <2>1 DEF MadeOK
  <2> QED BY <1>1, <2>1, <2>2 DEF MadeOK
<1> QED BY <1>2, <1>3, <1>4

-----------------------------------------------------------------------------
(***************************************************************************)
(* The theorems.                                                           *)
(***************************************************************************)

LEMMA StepHolds == IInv /\ [Next]_vars => IInv'
<1> SUFFICES ASSUME IInv, [Next]_vars  PROVE IInv'
  OBVIOUS
<1>1. RowsOK' /\ Grow
  BY RowsStep
<1>2. Keeps \/ \E p \in Payments : Inserts(p) \/ Sends(p)
  BY ForecastCases
<1>3. ForecastsOK'
  BY <1>1, <1>2, ForecastsStep
<1>4. LocalOK'
  BY <1>1, <1>3, LocalStep
<1>5. MadeOK'
  BY <1>1, MadeCases, MadeStep
<1>6. RemindedOK' /\ NextOK'
  BY <1>2, RemindedStep, NextStep
<1> QED BY <1>1, <1>3, <1>4, <1>5, <1>6, FaultsStep DEF IInv

LEMMA SchedulesInductive == Spec => []IInv
BY InitHolds, StepHolds, PTL DEF Spec

LEMMA InductiveGivesType == IInv => TypeOK
<1> SUFFICES ASSUME IInv  PROVE TypeOK
  OBVIOUS
<1>1. \A w \in Workers : found[w] \in
        SUBSET ([id : Routines, row : RoutineRows]
                 \union [id : Payments, row : PaymentRows \union ForecastRows])
  BY DEF IInv, LocalOK, WorkerOK
<1>2. found \in [Workers -> SUBSET ([id : Routines, row : RoutineRows]
                 \union [id : Payments, row : PaymentRows \union ForecastRows])]
  BY <1>1 DEF IInv, LocalOK
<1>3. /\ item \in [Requests -> Routines \union Payments \union {NoItem}]
      /\ seen \in [Requests -> RoutineRows \union PaymentRows \union {NoItem}]
      /\ ask \in [Requests -> Asks \union {NoItem}]
  BY DEF IInv, LocalOK, RequestOK
<1> QED BY <1>2, <1>3
        DEF IInv, RowsOK, ForecastsOK, LocalOK, MadeOK, RemindedOK, FaultsOK, TypeOK

\* Rows, searches and calls keep their types, and the clock, the dates of the
\* series and the faults their bounds.
THEOREM SchedulesTypeCorrect == Spec => []TypeOK
BY SchedulesInductive, InductiveGivesType, PTL

\* Whoever moved the next date of a payment, a forecast of it stands, with the
\* reminder where the offset puts it unless it has been sent.
THEOREM NextHasForecast == Spec => []NextIsForecast
<1>1. IInv => NextIsForecast
  BY InductiveGivesType DEF IInv, NextOK, NextIsForecast
<1> QED BY <1>1, SchedulesInductive, PTL

\* However workers overlap and die, nobody is reminded twice of one date.
THEOREM NoSecondReminder == Spec => []RemindedOnce
<1>1. IInv => RemindedOnce
  BY DEF IInv, RemindedOK, RemindedOnce
<1> QED BY <1>1, SchedulesInductive, PTL

\* However workers and people who generate by hand overlap, an occurrence
\* becomes a second task only after somebody set the date anew.
THEOREM NoSecondTask == Spec => []OccurrenceOnce
<1>1. IInv => OccurrenceOnce
  BY DEF IInv, MadeOK, OccurrenceOnce
<1> QED BY <1>1, SchedulesInductive, PTL
=============================================================================
