----------------------------- MODULE Schedules ------------------------------
(***************************************************************************)
(* What is due by the calendar: task routines (modules/tasks), recurring   *)
(* payments with their forecasts (modules/finance), and the maintenance    *)
(* workers of several processes that generate tasks, forecasts and payment *)
(* reminders from them while people edit them.                             *)
(*                                                                         *)
(* Time is a small clock.  A tick of a worker keeps the time at which it   *)
(* searched, as the code does with its argument now.  Every write to a     *)
(* routine or a payment increments its version, so a transaction that      *)
(* reads a row and then writes it where the version is the one it read is  *)
(* the step of its write.                                                  *)
(***************************************************************************)
EXTENDS Integers, FiniteSets

CONSTANTS
  Workers,      \* timers of the maintenance workers, one run at a time each
  Requests,     \* calls of the API; each makes one change
  Routines, Payments,
  Horizon,      \* bound: the clock stops there
  Period,       \* frequency times interval, of routines and payments alike
  Offsets,      \* reminder offsets, in clock units
  MaxFaults,    \* bound: ticks that die half way
  MaxItems,     \* bound: routines and payments that are created
  NoItem

ASSUME SchedulesAssumption ==
  /\ Horizon \in Nat \ {0}
  /\ Period \in Nat \ {0}
  /\ Offsets \subseteq Nat
  /\ Offsets # {}
  /\ MaxFaults \in Nat
  /\ MaxItems \in Nat
  /\ NoItem \notin Routines \union Payments
  /\ Workers \intersect Requests = {}
  /\ Routines \intersect Payments = {}

Moments == 0 .. Horizon
Dates   == 0 .. Horizon + Period     \* the generators stop at the first date after now

\* A version of 0 means that the row is not there yet.  A forecast is named by
\* the version of its payment that it was inserted with.
RoutineRows  == [active : BOOLEAN, nextRun : Dates, version : Nat]
PaymentRows  == [active : BOOLEAN, archived : BOOLEAN, nextDue : Dates,
                 offset : Offsets, version : Nat]
ForecastRows == [id : Nat, due : Dates, at : Int, sent : BOOLEAN]
\* What a call asks of a payment, defaults filled in from what it has read.
Asks         == [redo : BOOLEAN, due : Dates, offset : Offsets, active : BOOLEAN]

VARIABLES
  now,       \* the clock
  routine,   \* the TaskRoutine rows
  payment,   \* the RecurringPayment rows
  forecast,  \* the RecurringPaymentForecast rows of each payment
  pc,        \* where each worker and request is
  at,        \* the time that a worker has passed to the searches of its tick
  found,     \* the rows that a worker has found and not yet dealt with
  item,      \* the routine or payment that a request is about
  seen,      \* the row that a request has read
  ask,       \* the change that a request wants to make to a payment
  made,      \* history: tasks made of each occurrence of a routine
  rewound,   \* history: how often a person has set the date of a routine
  reminded,  \* history: reminders sent for each due date of a payment
  faults     \* history: ticks that died

rows    == <<routine, payment, forecast>>
local   == <<pc, at, found, item, seen, ask>>
history == <<made, rewound, reminded, faults>>
vars    == <<now, rows, local, history>>

Actors == Workers \union Requests
Labels == {"idle", "routines", "payments", "remind", "new", "editRoutine",
           "restoreRoutine", "generate", "editPayment", "archivePayment",
           "restorePayment", "done"}

Init ==
  /\ now      = 0
  /\ routine  = [r \in Routines |-> [active |-> FALSE, nextRun |-> 0, version |-> 0]]
  /\ payment  = [p \in Payments |-> [active |-> FALSE, archived |-> FALSE, nextDue |-> 0,
                                     offset |-> CHOOSE o \in Offsets : TRUE, version |-> 0]]
  /\ forecast = [p \in Payments |-> {}]
  /\ pc       = [a \in Actors |-> IF a \in Workers THEN "idle" ELSE "new"]
  /\ at       = [w \in Workers |-> 0]
  /\ found    = [w \in Workers |-> {}]
  /\ item     = [q \in Requests |-> NoItem]
  /\ seen     = [q \in Requests |-> NoItem]
  /\ ask      = [q \in Requests |-> NoItem]
  /\ made     = [r \in Routines |-> [d \in Dates |-> 0]]
  /\ rewound  = [r \in Routines |-> 0]
  /\ reminded = [p \in Payments |-> [d \in Dates |-> 0]]
  /\ faults   = 0

\* A start later than 0 would only shorten what follows.
MayCreate == /\ now = 0
             /\ Cardinality({r \in Routines : routine[r].version > 0}
                             \union {p \in Payments : payment[p].version > 0}) < MaxItems

Goto(a, label) == pc' = [pc EXCEPT ![a] = label]

Advance ==
  /\ now < Horizon
  /\ now' = now + 1
  /\ UNCHANGED <<rows, local, history>>

\* nextRun and nextDueAt: the first date of the series that starts at d and
\* continues after d that lies after the moment t.
NextAfter(d, t) ==
  CHOOSE n \in Dates : /\ n > d
                       /\ (n - d) % Period = 0
                       /\ n > t
                       /\ \A m \in d + 1 .. n - 1 : (m - d) % Period = 0 => m <= t

(***************************************************************************)
(* The maintenance worker: one tick generates tasks and then forecasts.    *)
(***************************************************************************)

DueRoutines(t) == {r \in Routines : routine[r].active /\ routine[r].nextRun <= t}

\* Mutant: a payment is due the day after.
DuePayments_Late(t) == {p \in Payments : payment[p].active /\ payment[p].nextDue < t}

DuePayments(t) == {p \in Payments : payment[p].active /\ payment[p].nextDue <= t}

\* The tick is over; its search time means nothing any more.
Rest(w) == /\ Goto(w, "idle")
           /\ at' = [at EXCEPT ![w] = 0]
           /\ found' = [found EXCEPT ![w] = {}]

SearchRoutines(w) ==
  /\ pc[w] = "idle"
  /\ at' = [at EXCEPT ![w] = now]
  /\ found' = [found EXCEPT ![w] =
         {[id |-> r, row |-> routine[r]] : r \in DueRoutines(now)}]
  /\ Goto(w, "routines")
  /\ UNCHANGED <<now, rows, item, seen, ask, history>>

\* Mutant: the version is not compared.
Unchanged_ActiveOnly(c) == routine[c.id].active

\* The candidate is still as it was found.
Unchanged(c) == routine[c.id].version = c.row.version

\* One transaction for a candidate: claim it by its version, make the task.
\* Dates that were missed are skipped.
GenerateTask(w) ==
  /\ pc[w] = "routines"
  /\ \E c \in found[w] :
       /\ found' = [found EXCEPT ![w] = @ \ {c}]
       /\ IF Unchanged(c)
          THEN /\ routine' = [routine EXCEPT
                      ![c.id].nextRun = NextAfter(c.row.nextRun, at[w]),
                      ![c.id].version = @ + 1]
               /\ made' = [made EXCEPT ![c.id][c.row.nextRun] = @ + 1]
          ELSE UNCHANGED <<routine, made>>
  /\ UNCHANGED <<now, payment, forecast, pc, at, item, seen, ask, rewound, reminded, faults>>

SearchPayments(w) ==
  /\ pc[w] = "routines"
  /\ found[w] = {}
  /\ at' = [at EXCEPT ![w] = now]
  /\ found' = [found EXCEPT ![w] =
         {[id |-> p, row |-> payment[p]] : p \in DuePayments(now)}]
  /\ Goto(w, "payments")
  /\ UNCHANGED <<now, rows, item, seen, ask, history>>

\* Forecast rows are unique per payment and due date.
Forecasted(p, d) == \E f \in forecast[p] : f.due = d

Forecast(v, d, o) == [id |-> v, due |-> d, at |-> d - o, sent |-> FALSE]

\* Mutant: the version is not compared.
Current_DateOnly(c) == payment[c.id].active /\ payment[c.id].nextDue = c.row.nextDue

Current(c) ==
  /\ payment[c.id].active
  /\ ~payment[c.id].archived
  /\ payment[c.id].nextDue = c.row.nextDue
  /\ payment[c.id].version = c.row.version

\* One transaction for a payment: advance its date, add the forecast.  A
\* forecast that exists already violates the unique index; the error rolls
\* back and leaves the tick, with the payments behind it untouched.
GenerateForecast(w) ==
  /\ pc[w] = "payments"
  /\ \E c \in found[w] :
       LET next == NextAfter(c.row.nextDue, at[w]) IN
       \/ /\ Current(c)
          /\ ~Forecasted(c.id, next)
          /\ payment' = [payment EXCEPT ![c.id].nextDue = next, ![c.id].version = @ + 1]
          /\ forecast' = [forecast EXCEPT ![c.id] = @ \union
                  {Forecast(c.row.version + 1, next, c.row.offset)}]
          /\ found' = [found EXCEPT ![w] = @ \ {c}]
          /\ UNCHANGED <<pc, at>>
       \/ /\ Current(c)
          /\ Forecasted(c.id, next)
          /\ Rest(w)
          /\ UNCHANGED <<payment, forecast>>
       \/ /\ ~Current(c)
          /\ found' = [found EXCEPT ![w] = @ \ {c}]
          /\ UNCHANGED <<payment, forecast, pc, at>>
  /\ UNCHANGED <<now, routine, item, seen, ask, history>>

TickEnds(w) ==
  /\ pc[w] \in {"payments", "remind"}
  /\ found[w] = {}
  /\ Rest(w)
  /\ UNCHANGED <<now, rows, item, seen, ask, history>>

\* A notification after a commit fails, the database is away, the process dies.
TickDies(w) ==
  /\ pc[w] # "idle"
  /\ faults < MaxFaults
  /\ faults' = faults + 1
  /\ Rest(w)
  /\ UNCHANGED <<now, rows, item, seen, ask, made, rewound, reminded>>

(***************************************************************************)
(* deliverDueRecurringPaymentReminders, on a timer of its own.             *)
(***************************************************************************)

ForecastsNow == UNION {forecast[p] : p \in Payments}

Reminding(p, f) == /\ f \in forecast[p]
                   /\ payment[p].active
                   /\ ~f.sent
                   /\ f.at <= now

SearchReminders(w) ==
  /\ pc[w] = "idle"
  /\ at' = [at EXCEPT ![w] = now]
  /\ found' = [found EXCEPT ![w] =
         {[id |-> x[1], row |-> x[2]] : x \in
            {y \in Payments \X ForecastsNow : Reminding(y[1], y[2])}}]
  /\ Goto(w, "remind")
  /\ UNCHANGED <<now, rows, item, seen, ask, history>>

\* The forecast, if it has not been sent or deleted since.
Claimable(c) == {f \in forecast[c.id] : f.id = c.row.id /\ ~f.sent /\ payment[c.id].active}

\* The claim and the notifications are one transaction.
Remind(w) ==
  /\ pc[w] = "remind"
  /\ \E c \in found[w] :
       /\ found' = [found EXCEPT ![w] = @ \ {c}]
       /\ IF Claimable(c) # {}
          THEN /\ forecast' = [forecast EXCEPT ![c.id] =
                      (@ \ Claimable(c)) \union {[f EXCEPT !.sent = TRUE] : f \in Claimable(c)}]
               /\ reminded' = [reminded EXCEPT ![c.id][c.row.due] = @ + 1]
          ELSE UNCHANGED <<forecast, reminded>>
  /\ UNCHANGED <<now, routine, payment, pc, at, item, seen, ask, made, rewound, faults>>

(***************************************************************************)
(* What people do to routines.  A call that gives the version it expects   *)
(* gives the one it has read; an older one is refused in any case.         *)
(***************************************************************************)

\* Created, and perhaps archived as well, before the clock starts.
CreateRoutine(r, d, kept) ==
  /\ MayCreate
  /\ routine[r].version = 0
  /\ routine' = [routine EXCEPT ![r] = [active |-> kept, nextRun |-> d,
                                        version |-> IF kept THEN 1 ELSE 2]]
  /\ UNCHANGED <<now, payment, forecast, local, history>>

Read(q, i, row, label) ==
  /\ pc[q] = "new"
  /\ row.version > 0
  /\ item' = [item EXCEPT ![q] = i]
  /\ seen' = [seen EXCEPT ![q] = row]
  /\ Goto(q, label)

StartRoutine(q, r) ==
  /\ \/ routine[r].active /\ Read(q, r, routine[r], "editRoutine")
     \/ ~routine[r].active /\ Read(q, r, routine[r], "restoreRoutine")
     \* bound: nobody generates ahead of the clock's last moment
     \/ /\ routine[r].active
        /\ routine[r].nextRun <= Horizon
        /\ Read(q, r, routine[r], "generate")
  /\ UNCHANGED <<now, rows, at, found, ask, history>>

\* The end of a call, answered or refused.
Finish(q) ==
  /\ Goto(q, "done")
  /\ item' = [item EXCEPT ![q] = NoItem]
  /\ seen' = [seen EXCEPT ![q] = NoItem]
  /\ ask'  = [ask EXCEPT ![q] = NoItem]
  /\ UNCHANGED <<now, at, found, reminded, faults>>

\* Whether the call gave a version that no longer holds.
Expected(q, checked, version) == checked => version = seen[q].version

\* update and archive, with an expected version or without.
EditRoutine(q) ==
  LET r == item[q] IN
  /\ pc[q] = "editRoutine"
  /\ \E checked \in BOOLEAN :
       LET fits == routine[r].active /\ Expected(q, checked, routine[r].version) IN
       \/ /\ fits                                   \* title, assignee, frequency
          /\ routine' = [routine EXCEPT ![r].version = @ + 1]
          /\ UNCHANGED rewound
       \/ /\ fits
          /\ \E d \in Moments : routine' = [routine EXCEPT ![r].nextRun = d,
                                                           ![r].version = @ + 1]
          /\ rewound' = [rewound EXCEPT ![r] = @ + 1]
       \/ /\ fits
          /\ routine' = [routine EXCEPT ![r].active = FALSE, ![r].version = @ + 1]
          /\ UNCHANGED rewound
       \/ /\ ~fits
          /\ UNCHANGED <<routine, rewound>>
  /\ Finish(q)
  /\ UNCHANGED <<payment, forecast, made>>

RestoreRoutine(q) ==
  LET r == item[q] IN
  /\ pc[q] = "restoreRoutine"
  /\ \E checked \in BOOLEAN :
       IF ~routine[r].active /\ Expected(q, checked, routine[r].version)
       THEN routine' = [routine EXCEPT ![r].active = TRUE, ![r].version = @ + 1]
       ELSE UNCHANGED routine
  /\ Finish(q)
  /\ UNCHANGED <<payment, forecast, made, rewound>>

\* generate, by hand: the task is rolled back unless the version still holds.
GenerateByHand(q) ==
  LET r == item[q] IN
  /\ pc[q] = "generate"
  /\ IF routine[r].active /\ routine[r].version = seen[q].version
     THEN /\ routine' = [routine EXCEPT ![r].nextRun = seen[q].nextRun + Period,
                                        ![r].version = @ + 1]
          /\ made' = [made EXCEPT ![r][seen[q].nextRun] = @ + 1]
     ELSE UNCHANGED <<routine, made>>
  /\ Finish(q)
  /\ UNCHANGED <<payment, forecast, rewound>>

(***************************************************************************)
(* What people do to recurring payments.                                   *)
(***************************************************************************)

\* As with routines; archiving leaves the forecast that creation made.
CreatePayment(p, d, o, kept) ==
  /\ MayCreate
  /\ payment[p].version = 0
  /\ d > now
  /\ payment' = [payment EXCEPT ![p] = [active |-> kept, archived |-> ~kept, nextDue |-> d,
                                        offset |-> o, version |-> IF kept THEN 1 ELSE 2]]
  /\ forecast' = [forecast EXCEPT ![p] = {Forecast(1, d, o)}]
  /\ UNCHANGED <<now, routine, local, history>>

\* A new date has to lie in the future when the call arrives.
StartPayment(q, p) ==
  /\ \/ /\ ~payment[p].archived
        /\ Read(q, p, payment[p], "editPayment")
        /\ \E redo \in BOOLEAN, o \in Offsets, on \in BOOLEAN,
              d \in {payment[p].nextDue} \union {t \in Moments : t > now} :
             /\ redo \/ (d = payment[p].nextDue /\ o = payment[p].offset)
             /\ ask' = [ask EXCEPT ![q] = [redo |-> redo, due |-> d, offset |-> o, active |-> on]]
     \/ /\ ~payment[p].archived
        /\ Read(q, p, payment[p], "archivePayment")
        /\ UNCHANGED ask
     \/ /\ payment[p].archived
        /\ Read(q, p, payment[p], "restorePayment")
        /\ UNCHANGED ask
  /\ UNCHANGED <<now, rows, at, found, history>>

\* The version that the writes of a payment compare is always the one read.
Fits(q, archived) == /\ payment[item[q]].archived = archived
                     /\ payment[item[q]].version = seen[q].version

\* Mutant: forecasts that were sent are deleted as well.
Sent_Forgotten(p) == {}

Sent(p) == {f \in forecast[p] : f.sent}

\* update: a new date or offset replaces the forecasts that were not sent.  If
\* the one for this date was sent, the unique index refuses the whole call.
EditPayment(q) ==
  LET p == item[q] IN
  /\ pc[q] = "editPayment"
  /\ \/ /\ Fits(q, FALSE)
        /\ ask[q].redo => \A f \in Sent(p) : f.due # ask[q].due
        /\ payment' = [payment EXCEPT ![p] =
                [active |-> ask[q].active, archived |-> FALSE, nextDue |-> ask[q].due,
                 offset |-> ask[q].offset, version |-> seen[q].version + 1]]
        /\ forecast' = IF ask[q].redo
                       THEN [forecast EXCEPT ![p] = Sent(p) \union
                               {Forecast(seen[q].version + 1, ask[q].due, ask[q].offset)}]
                       ELSE forecast
     \/ /\ Fits(q, FALSE)
        /\ ask[q].redo /\ \E f \in Sent(p) : f.due = ask[q].due
        /\ UNCHANGED <<payment, forecast>>
     \/ /\ ~Fits(q, FALSE)
        /\ UNCHANGED <<payment, forecast>>
  /\ Finish(q)
  /\ UNCHANGED <<routine, made, rewound>>

ArchivePayment(q) ==
  /\ pc[q] = "archivePayment"
  /\ payment' = IF Fits(q, FALSE)
                THEN [payment EXCEPT ![item[q]].active = FALSE, ![item[q]].archived = TRUE,
                                     ![item[q]].version = @ + 1]
                ELSE payment
  /\ Finish(q)
  /\ UNCHANGED <<routine, forecast, made, rewound>>

RestorePayment(q) ==
  /\ pc[q] = "restorePayment"
  /\ payment' = IF Fits(q, TRUE)
                THEN [payment EXCEPT ![item[q]].active = TRUE, ![item[q]].archived = FALSE,
                                     ![item[q]].version = @ + 1]
                ELSE payment
  /\ Finish(q)
  /\ UNCHANGED <<routine, forecast, made, rewound>>

(***************************************************************************)
(* The specification.  Timers fire again and again and the awaits return;  *)
(* time passes.  People need not do anything.                              *)
(***************************************************************************)

Tick(w) == \/ SearchRoutines(w) \/ GenerateTask(w) \/ SearchPayments(w)
           \/ GenerateForecast(w) \/ TickEnds(w)
RemindTick(w) == SearchReminders(w) \/ Remind(w)

Call(q) == \/ \E r \in Routines : StartRoutine(q, r)
           \/ \E p \in Payments : StartPayment(q, p)
           \/ EditRoutine(q) \/ RestoreRoutine(q) \/ GenerateByHand(q)
           \/ EditPayment(q) \/ ArchivePayment(q) \/ RestorePayment(q)

Next ==
  \/ Advance
  \/ \E w \in Workers : Tick(w) \/ RemindTick(w) \/ TickDies(w)
  \/ \E q \in Requests : Call(q)
  \/ \E r \in Routines, d \in Moments, kept \in BOOLEAN : CreateRoutine(r, d, kept)
  \/ \E p \in Payments, d \in Moments, o \in Offsets, kept \in BOOLEAN :
       CreatePayment(p, d, o, kept)

Spec == Init /\ [][Next]_vars

FairSpec ==
  /\ Spec
  /\ WF_vars(Advance)
  /\ \A w \in Workers : /\ WF_vars(Tick(w))
                         /\ WF_vars(Remind(w))
                         /\ SF_vars(SearchRoutines(w))
                         /\ SF_vars(SearchReminders(w))

(***************************************************************************)
(* Properties.                                                             *)
(***************************************************************************)

TypeOK ==
  /\ now \in Moments
  /\ routine \in [Routines -> RoutineRows]
  /\ payment \in [Payments -> PaymentRows]
  /\ forecast \in [Payments -> SUBSET ForecastRows]
  /\ pc \in [Actors -> Labels]
  /\ at \in [Workers -> Moments]
  /\ found \in [Workers -> SUBSET ([id : Routines, row : RoutineRows]
                                  \union [id : Payments, row : PaymentRows \union ForecastRows])]
  /\ item \in [Requests -> Routines \union Payments \union {NoItem}]
  /\ seen \in [Requests -> RoutineRows \union PaymentRows \union {NoItem}]
  /\ ask \in [Requests -> Asks \union {NoItem}]
  /\ made \in [Routines -> [Dates -> Nat]]
  /\ rewound \in [Routines -> Nat]
  /\ reminded \in [Payments -> [Dates -> Nat]]
  /\ faults \in 0 .. MaxFaults

\* Whoever advanced or rescheduled a payment, its next date has a forecast, and
\* the reminder of it that is still to come follows the offset in force
\* (recurring-payments.service.ts: create, update and generateDueForecasts
\* write the date and the forecast together).
NextIsForecast ==
  /\ TypeOK
  /\ \A p \in Payments : payment[p].version > 0 =>
       \E f \in forecast[p] :
         /\ f.due = payment[p].nextDue
         /\ f.sent \/ f.at = f.due - payment[p].offset

\* Nobody is reminded twice of a payment on one date, however workers overlap,
\* ticks die and dates move away and back (maintenance.service.ts claims a
\* forecast once; update deletes only forecasts that were not sent).
RemindedOnce == \A p \in Payments, d \in Dates : reminded[p][d] <= 1

\* "compare-and-swap by version prevents duplicates of concurrent workers"
\* (docs/IMPLEMENTATION_STATUS.md:408), and of a person who generates by hand:
\* an occurrence becomes a second task only after somebody set the date anew.
OccurrenceOnce == \A r \in Routines, d \in Dates : made[r][d] <= 1 + rewound[r]

DuePayment(p) == payment[p].active /\ payment[p].nextDue <= now

\* A forecast that was sent early and stands where the generator has to go.
Obstructed(p) ==
  DuePayment(p) /\ \E f \in Sent(p) : f.due = NextAfter(payment[p].nextDue, now)

\* A due payment gets its next date, unless an obstructed one keeps the workers'
\* ticks from ending well.
DueIsAdvanced ==
  \A p \in Payments : DuePayment(p) ~> (~DuePayment(p) \/ \E q \in Payments : Obstructed(q))

=============================================================================
