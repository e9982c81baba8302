----------------------------- MODULE Agreements ------------------------------
(***************************************************************************)
(* What two partners settle between them: family events with their         *)
(* reminders (modules/family-events), wishes (modules/family-wishes),      *)
(* financial meetings and decisions (modules/finance) and the couple       *)
(* meetings of modules/wellbeing.                                          *)
(*                                                                         *)
(* Every call reads a row, decides by what it has read, and writes later,  *)
(* in another statement of a READ COMMITTED transaction or outside of one. *)
(* Some writes repeat the conditions or compare a version, some compare    *)
(* one only if the client sent it, some write by id.  The family keeps its *)
(* two partners here; how it loses one is in Family.                       *)
(***************************************************************************)
EXTENDS Naturals, FiniteSets

CONSTANTS
  Partners,
  Requests,     \* clients: each sends one call at a time
  Workers,      \* timers that deliver reminders
  Events, Wishes, Meetings, Couples,
  Nobody,
  Choices,      \* sets of partners that may be chosen to be reminded
  Horizon,      \* bound: the clock stops there
  Leads,        \* reminder offsets in clock units, 0 for no reminder
  MaxVersion,   \* bound: changes of one row
  MaxItems      \* bound: items that are created

ASSUME AgreementsAssumption ==
  /\ Cardinality(Partners) = 2
  /\ Nobody \notin Partners
  /\ Choices \subseteq SUBSET Partners
  /\ {} \in Choices
  /\ Horizon \in Nat
  /\ Leads \subseteq Nat
  /\ 0 \in Leads
  /\ MaxVersion \in Nat \ {0}
  /\ MaxItems \in Nat

Moments == 0 .. Horizon
Authors == Partners \union {Nobody}
Texts   == {1, 2}          \* title, time and sections of a couple meeting

\* A version of 0 means that the row is not there yet; events and wishes are
\* deleted softly.  An event's reminder is due at the moment stored in at.
EventRows   == [by : Authors, status : {"PROPOSED", "CONFIRMED", "REJECTED"},
                on : Moments, lead : Leads, at : Moments, to : Choices,
                sent : BOOLEAN, gone : BOOLEAN, version : 0 .. MaxVersion]
WishRows    == [by : Authors, approval : {"PENDING", "ACCEPTED", "REJECTED"},
                realized : BOOLEAN,
                confirmation : {"NOT_REQUESTED", "PENDING", "ACCEPTED", "REJECTED"},
                gone : BOOLEAN, version : 0 .. MaxVersion]
MeetingRows == [by : Authors, status : {"SCHEDULED", "COMPLETED", "CANCELLED"},
                version : 0 .. MaxVersion]
DecisionRows == [by : Authors, status : {"none", "PROPOSED", "AGREED", "REJECTED"}]
CoupleRows  == [by : Authors, there : BOOLEAN, answers : SUBSET Partners, text : Texts,
                published : BOOLEAN, decided : BOOLEAN]

VARIABLES
  now,       \* the clock
  event, wish, meeting, couple,    \* the rows
  decision,  \* the decision made at a meeting; bound: one
  call,      \* what each client has under way: the operation and what it has read
  due,       \* what a worker has found and not yet dealt with
  at,        \* the time it searched with
  blind,     \* history: items whose row was overwritten by a call that had not read it
  tardy,     \* history: events given a reminder time that had already come
  astray,    \* history: events whose reminder went to others than the chosen ones
  given,     \* history: who answered the questions of a couple meeting
  frozen     \* history: what a couple meeting was when it was published

rows    == <<event, wish, meeting, couple, decision>>
history == <<blind, tardy, astray, given, frozen>>
vars    == <<now, rows, call, due, at, history>>

Idle == [op |-> "idle"]

Init ==
  /\ now      = 0
  /\ event    = [e \in Events |-> [by |-> Nobody, status |-> "PROPOSED", on |-> 0, lead |-> 0,
                                   at |-> 0, to |-> {}, sent |-> FALSE, gone |-> FALSE,
                                   version |-> 0]]
  /\ wish     = [w \in Wishes |-> [by |-> Nobody, approval |-> "PENDING", realized |-> FALSE,
                                   confirmation |-> "NOT_REQUESTED", gone |-> FALSE,
                                   version |-> 0]]
  /\ meeting  = [m \in Meetings |-> [by |-> Nobody, status |-> "SCHEDULED", version |-> 0]]
  /\ couple   = [c \in Couples |-> [by |-> Nobody, there |-> FALSE, answers |-> {}, text |-> 1,
                                    published |-> FALSE, decided |-> FALSE]]
  /\ decision = [m \in Meetings |-> [by |-> Nobody, status |-> "none"]]
  /\ call     = [q \in Requests |-> Idle]
  /\ due      = [w \in Workers |-> {}]
  /\ at       = [w \in Workers |-> 0]
  /\ blind    = {}
  /\ tardy    = {}
  /\ astray   = {}
  /\ given    = [c \in Couples |-> {}]
  /\ frozen   = [c \in Couples |-> [answers |-> {}, text |-> 1]]

Created == {e \in Events : event[e].version > 0} \union {w \in Wishes : wish[w].version > 0}
           \union {m \in Meetings : meeting[m].version > 0} \union {c \in Couples : couple[c].there}
\* Later creations would only shorten what follows.
MayCreate == now = 0 /\ Cardinality(Created) < MaxItems

\* The row is there and the bound leaves room for another change of it.
Open(row) == row.version \in 1 .. MaxVersion - 1

\* A call of p about item i has read its row, or of a versioned row what it needs
\* to remember: the version.  It may send the version that it expects; an older
\* one than the row's is refused in any case.
Begin(q, op, p, i, seen, ask, checks) ==
  /\ call[q] = Idle
  /\ \E checked \in checks :
       call' = [call EXCEPT ![q] = [op |-> op, by |-> p, id |-> i, seen |-> seen,
                                    ask |-> ask, checked |-> checked]]

End(q) == call' = [call EXCEPT ![q] = Idle]

\* Mutant: the write is by id, whatever version was read.
Holds_Any(q, row) == TRUE

Holds(q, row) == call[q].checked => row.version = call[q].seen

\* The row changed since the call read it, and the write does not notice.
Overlooks(q, row) == row.version # call[q].seen

Advance ==
  /\ now < Horizon
  /\ \E e \in Events : event[e].version > 0      \* nothing else depends on time
  /\ now' = now + 1
  /\ UNCHANGED <<rows, call, due, at, history>>

(***************************************************************************)
(* Family events.                                                          *)
(***************************************************************************)

\* What update is asked for, defaults taken from the row it has read.
Changes == [redo : BOOLEAN, moved : BOOLEAN, on : Moments, lead : Leads, to : Choices]

\* resolveReminderSettings: the reminder lies in the future and has recipients.
Settled(a) == IF a.lead = 0 THEN a.to = {} ELSE a.on > now + a.lead /\ a.to # {}

RemindAt(a) == IF a.lead = 0 THEN 0 ELSE a.on - a.lead

CreateEvent(e, p) ==
  /\ MayCreate
  /\ event[e].version = 0
  /\ \E a \in Changes :
       /\ a.redo /\ a.moved
       /\ a.on > now
       /\ Settled(a)
       /\ event' = [event EXCEPT ![e] = [by |-> p, status |-> "PROPOSED", on |-> a.on,
                      lead |-> a.lead, at |-> RemindAt(a), to |-> a.to, sent |-> FALSE,
                      gone |-> FALSE, version |-> 1]]
  /\ UNCHANGED <<now, wish, meeting, couple, decision, call, due, at, history>>

ReadForUpdate(q, p, e) ==
  LET row == event[e] IN
  /\ Open(row) /\ ~row.gone /\ row.by = p
  /\ \E a \in Changes :
       /\ a.on > now
       /\ IF a.redo THEN Settled(a) ELSE ~a.moved /\ a.lead = row.lead /\ a.to = row.to
       /\ ~a.moved => a.on = row.on
       /\ Begin(q, "update", p, e, row.version, a, BOOLEAN)
  /\ UNCHANGED <<now, rows, due, at, history>>

\* A date is written only if one was given, the reminder settings all together.
Updated(row, a) ==
  LET r == [row EXCEPT !.status = "PROPOSED", !.version = @ + 1] IN
  IF a.redo THEN [r EXCEPT !.on = IF a.moved THEN a.on ELSE @, !.lead = a.lead,
                           !.at = RemindAt(a), !.to = a.to, !.sent = FALSE]
            ELSE r

UpdateEvent(q) ==
  LET c == call[q]  e == c.id  row == event[e] IN
  /\ c.op = "update"
  /\ row.version < MaxVersion
  /\ IF ~row.gone /\ Holds(q, row)
     THEN /\ event' = [event EXCEPT ![e] = Updated(row, c.ask)]
          /\ blind' = IF ~c.checked /\ Overlooks(q, row) THEN blind \union {e} ELSE blind
          /\ tardy' = IF c.ask.redo /\ RemindAt(c.ask) \in 1 .. now
                      THEN tardy \union {e} ELSE tardy
     ELSE UNCHANGED <<event, blind, tardy>>
  /\ End(q)
  /\ UNCHANGED <<now, wish, meeting, couple, decision, due, at, astray, given, frozen>>

\* confirm, with the date that was read, and reject.
ReadForResponse(q, p, e) ==
  LET row == event[e] IN
  /\ Open(row) /\ ~row.gone /\ row.by # p
  /\ row.status = "PROPOSED"
  /\ \/ row.on > now /\ Begin(q, "respond", p, e, row.version, "CONFIRMED", {FALSE})
     \/ Begin(q, "respond", p, e, row.version, "REJECTED", {FALSE})
  /\ UNCHANGED <<now, rows, due, at, history>>

\* The write repeats the conditions, except the one on the date.
Respond(q) ==
  LET c == call[q]  row == event[c.id] IN
  /\ c.op = "respond"
  /\ row.version < MaxVersion
  /\ event' = IF row.status = "PROPOSED" /\ ~row.gone
              THEN [event EXCEPT ![c.id].status = c.ask, ![c.id].version = @ + 1]
              ELSE event
  /\ End(q)
  /\ UNCHANGED <<now, wish, meeting, couple, decision, due, at, history>>

RemoveEvent(e) ==
  /\ Open(event[e]) /\ ~event[e].gone
  /\ event' = [event EXCEPT ![e].gone = TRUE, ![e].version = @ + 1]
  /\ UNCHANGED <<now, wish, meeting, couple, decision, call, due, at, history>>

\* Mutant: the claim asks only for status and sentAt.
Remindable_Once(e, t) == ~event[e].gone /\ event[e].status = "CONFIRMED" /\ ~event[e].sent

\* What deliverDueFamilyEventReminders looks for with the time t, and asks for
\* again when it claims.
Remindable(e, t) ==
  LET row == event[e] IN
  /\ ~row.gone /\ row.status = "CONFIRMED"
  /\ row.on > t
  /\ row.at \in 1 .. t
  /\ ~row.sent

Found(w) == /\ at' = [at EXCEPT ![w] = now]
            /\ due' = [due EXCEPT ![w] = {[id |-> e, to |-> event[e].to] :
                                             e \in {x \in Events : Remindable(x, now)}}]

SearchReminders(w) ==
  /\ due[w] = {}
  /\ Found(w)
  /\ UNCHANGED <<now, rows, call, history>>

\* One transaction: claim, and notify the recipients that the search has read.
Remind(w) ==
  /\ \E f \in due[w] :
       /\ due' = [due EXCEPT ![w] = @ \ {f}]
       /\ IF Remindable(f.id, at[w])
          THEN /\ event' = [event EXCEPT ![f.id].sent = TRUE]
               /\ astray' = IF f.to = event[f.id].to THEN astray ELSE astray \union {f.id}
          ELSE UNCHANGED <<event, astray>>
  /\ UNCHANGED <<now, wish, meeting, couple, decision, call, at, blind, tardy, given, frozen>>

(***************************************************************************)
(* Wishes.                                                                 *)
(***************************************************************************)

CreateWish(w, p) ==
  /\ MayCreate
  /\ wish[w].version = 0
  /\ wish' = [wish EXCEPT ![w].by = p, ![w].version = 1]
  /\ UNCHANGED <<now, event, meeting, couple, decision, call, due, at, history>>

\* The decisions of respondToWish, markRealized and respondToRealization.
MayMove(p, row, move) ==
  CASE move \in {"accept", "reject"}   -> p # row.by /\ row.approval = "PENDING"
    [] move = "realize"                -> row.approval = "ACCEPTED" /\ ~row.realized
    [] move \in {"confirm", "refuse"}  -> p # row.by /\ row.confirmation = "PENDING"

Moved(row, move) ==
  CASE move = "accept"  -> [row EXCEPT !.approval = "ACCEPTED", !.realized = FALSE]
    [] move = "reject"  -> [row EXCEPT !.approval = "REJECTED"]
    [] move = "realize" -> [row EXCEPT !.realized = TRUE, !.confirmation = "PENDING"]
    [] move = "confirm" -> [row EXCEPT !.confirmation = "ACCEPTED"]
    [] move = "refuse"  -> [row EXCEPT !.realized = FALSE, !.confirmation = "REJECTED"]

ReadForMove(q, p, w) ==
  /\ Open(wish[w]) /\ ~wish[w].gone
  /\ \E move \in {"accept", "reject", "realize", "confirm", "refuse"} :
       /\ MayMove(p, wish[w], move)
       /\ Begin(q, "move", p, w, wish[w].version, move, BOOLEAN)
  /\ UNCHANGED <<now, rows, due, at, history>>

\* The write does not repeat the conditions on the status.
MoveWish(q) ==
  LET c == call[q]  row == wish[c.id] IN
  /\ c.op = "move"
  /\ row.version < MaxVersion
  /\ IF ~row.gone /\ Holds(q, row)
     THEN /\ wish' = [wish EXCEPT ![c.id] = [Moved(row, c.ask) EXCEPT !.version = @ + 1]]
          /\ blind' = IF Overlooks(q, row) THEN blind \union {c.id} ELSE blind
     ELSE UNCHANGED <<wish, blind>>
  /\ End(q)
  /\ UNCHANGED <<now, event, meeting, couple, decision, due, at, tardy, astray, given, frozen>>

\* update, by its creator: a new title; and remove.
EditWish(w) ==
  /\ Open(wish[w]) /\ ~wish[w].gone
  /\ \/ wish' = [wish EXCEPT ![w].version = @ + 1]
     \/ wish' = [wish EXCEPT ![w].gone = TRUE, ![w].version = @ + 1]
  /\ UNCHANGED <<now, event, meeting, couple, decision, call, due, at, history>>

(***************************************************************************)
(* Financial meetings.  The version compared is the one sent, or else the  *)
(* one read: never an unread one.                                          *)
(***************************************************************************)

CreateMeeting(m, p) ==
  /\ MayCreate
  /\ meeting[m].version = 0
  /\ meeting' = [meeting EXCEPT ![m].by = p, ![m].version = 1]
  /\ UNCHANGED <<now, event, wish, couple, decision, call, due, at, history>>

\* update keeps the status; update and cancel are the creator's.
ReadMeeting(q, p, m) ==
  /\ Open(meeting[m])
  /\ meeting[m].status = "SCHEDULED"
  /\ \E s \in {"SCHEDULED", "COMPLETED", "CANCELLED"} :
       /\ s # "COMPLETED" => meeting[m].by = p
       /\ Begin(q, "meeting", p, m, meeting[m].version, s, {TRUE})
  /\ UNCHANGED <<now, rows, due, at, history>>

Scheduled(q, row) == row.status = "SCHEDULED" /\ Holds(q, row)

ChangeMeeting(q) ==
  LET c == call[q]  row == meeting[c.id] IN
  /\ c.op = "meeting"
  /\ row.version < MaxVersion
  /\ meeting' = IF Scheduled(q, row)
                THEN [meeting EXCEPT ![c.id].status = c.ask, ![c.id].version = @ + 1]
                ELSE meeting
  /\ End(q)
  /\ UNCHANGED <<now, event, wish, couple, decision, due, at, history>>

\* createDecision inserts whatever has become of the meeting since it was read.
ReadForDecision(q, p, m) ==
  /\ meeting[m].version > 0
  /\ meeting[m].status # "CANCELLED"
  /\ decision[m].status = "none"
  /\ Begin(q, "decide", p, m, meeting[m].version, "PROPOSED", {FALSE})
  /\ UNCHANGED <<now, rows, due, at, history>>

\* bound: a second decision on a meeting is left out
Decide(q) ==
  LET c == call[q] IN
  /\ c.op = "decide"
  /\ decision' = IF decision[c.id].status = "none"
                 THEN [decision EXCEPT ![c.id] = [by |-> c.by, status |-> "PROPOSED"]]
                 ELSE decision
  /\ End(q)
  /\ UNCHANGED <<now, event, wish, meeting, couple, due, at, history>>

ReadForAnswer(q, p, m) ==
  /\ decision[m].status = "PROPOSED"
  /\ decision[m].by # p
  /\ \E s \in {"AGREED", "REJECTED"} : Begin(q, "answer", p, m, 1, s, {FALSE})
  /\ UNCHANGED <<now, rows, due, at, history>>

\* A decision changes once, so its version says no more than its status.
Answer(q) ==
  LET c == call[q] IN
  /\ c.op = "answer"
  /\ decision' = IF decision[c.id].status = "PROPOSED"
                 THEN [decision EXCEPT ![c.id].status = c.ask] ELSE decision
  /\ End(q)
  /\ UNCHANGED <<now, event, wish, meeting, couple, due, at, history>>

(***************************************************************************)
(* Couple meetings: no version, every write is by id.                      *)
(***************************************************************************)

CreateCouple(c, p) ==
  /\ MayCreate
  /\ ~couple[c].there
  /\ couple' = [couple EXCEPT ![c].by = p, ![c].there = TRUE]
  /\ UNCHANGED <<now, event, wish, meeting, decision, call, due, at, history>>

CoupleOps == {"edit", "reply", "publish", "conclude"}

Unpublished(op, row) == row.published = (op = "conclude")

ReadCouple(q, p, c) ==
  /\ couple[c].there
  /\ \E op \in CoupleOps, t \in Texts :
       /\ Unpublished(op, couple[c])
       /\ op \in {"edit", "publish"} => couple[c].by = p
       /\ op # "edit" => t = couple[c].text
       /\ Begin(q, op, p, c, couple[c], t, {FALSE})
  /\ UNCHANGED <<now, rows, due, at, history>>

\* A reply writes back all the answers it has read with its own among them.
WriteCouple(q) ==
  LET c == call[q]  row == couple[c.id] IN
  /\ c.op \in CoupleOps
  /\ couple' = [couple EXCEPT ![c.id] =
       CASE c.op = "edit"     -> [row EXCEPT !.text = c.ask]
         [] c.op = "reply"    -> [row EXCEPT !.answers = c.seen.answers \union {c.by}]
         [] c.op = "publish"  -> [row EXCEPT !.published = TRUE]
         [] c.op = "conclude" -> [row EXCEPT !.decided = TRUE]]
  /\ blind' = IF row = c.seen THEN blind ELSE blind \union {c.id}
  /\ given' = IF c.op = "reply" THEN [given EXCEPT ![c.id] = @ \union {c.by}] ELSE given
  /\ frozen' = IF c.op = "publish"
               THEN [frozen EXCEPT ![c.id] = [answers |-> row.answers, text |-> row.text]]
               ELSE frozen
  /\ End(q)
  /\ UNCHANGED <<now, event, wish, meeting, decision, due, at, tardy, astray>>

-----------------------------------------------------------------------------
Create(p) == \/ \E e \in Events : CreateEvent(e, p)
             \/ \E w \in Wishes : CreateWish(w, p)
             \/ \E m \in Meetings : CreateMeeting(m, p)
             \/ \E c \in Couples : CreateCouple(c, p)

Start(q, p) == \/ \E e \in Events : ReadForUpdate(q, p, e) \/ ReadForResponse(q, p, e)
               \/ \E w \in Wishes : ReadForMove(q, p, w)
               \/ \E m \in Meetings : \/ ReadMeeting(q, p, m) \/ ReadForDecision(q, p, m)
                                      \/ ReadForAnswer(q, p, m)
               \/ \E c \in Couples : ReadCouple(q, p, c)

Finish(q) == \/ UpdateEvent(q) \/ Respond(q) \/ MoveWish(q) \/ ChangeMeeting(q)
             \/ Decide(q) \/ Answer(q) \/ WriteCouple(q)

Next ==
  \/ Advance
  \/ \E p \in Partners : Create(p) \/ \E q \in Requests : Start(q, p)
  \/ \E q \in Requests : Finish(q)
  \/ \E e \in Events : RemoveEvent(e)
  \/ \E w \in Wishes : EditWish(w)
  \/ \E w \in Workers : SearchReminders(w) \/ Remind(w)

Spec == Init /\ [][Next]_vars

(***************************************************************************)
(* Properties.                                                             *)
(***************************************************************************)

TypeOK ==
  /\ now \in Moments
  /\ event \in [Events -> EventRows]
  /\ wish \in [Wishes -> WishRows]
  /\ meeting \in [Meetings -> MeetingRows]
  /\ couple \in [Couples -> CoupleRows]
  /\ decision \in [Meetings -> DecisionRows]
  /\ \A q \in Requests : call[q] # Idle => /\ call[q].by \in Partners
                                          /\ IF call[q].op \in CoupleOps THEN call[q].seen \in CoupleRows
                                             ELSE call[q].seen \in 1 .. MaxVersion
                                          /\ call[q].checked \in BOOLEAN
  /\ due \in [Workers -> SUBSET [id : Events, to : Choices]]
  /\ at \in [Workers -> Moments]
  /\ blind \subseteq Events \union Wishes \union Couples
  /\ tardy \subseteq Events
  /\ astray \subseteq Events
  /\ given \in [Couples -> SUBSET Partners]
  /\ frozen \in [Couples -> [answers : SUBSET Partners, text : Texts]]

\* The reminder of an event follows its date.
ReminderFits(e) == LET row == event[e] IN
  row.version > 0 => row.at = IF row.lead = 0 THEN 0 ELSE row.on - row.lead

\* A wish is realized only if it was accepted, and its confirmation is the
\* answer to that realization.
WishFits(w) == LET row == wish[w] IN
  /\ row.realized => row.approval = "ACCEPTED"
  /\ row.realized = (row.confirmation \in {"PENDING", "ACCEPTED"})

\* Every answer that was taken is there, and publication ends all changes.
CoupleFits(c) == LET row == couple[c] IN
  /\ row.answers = given[c]
  /\ row.published => frozen[c] = [answers |-> row.answers, text |-> row.text]

\* Rows whose fields depend on one another agree, however calls interleave, as
\* long as nobody who sent no version wrote over a change he had not read: that
\* is what expectedVersion is for in family-events and family-wishes, and what
\* the couple meetings of wellbeing do without.
RowsAgree ==
  /\ TypeOK
  /\ \A e \in Events \ blind : ReminderFits(e)
  /\ \A w \in Wishes \ blind : WishFits(w)
  /\ \A c \in Couples \ blind : CoupleFits(c)

\* "every chosen recipient gets the reminder" (docs/IMPLEMENTATION_STATUS.md:507):
\* the worker notifies the recipients that its search has read, yet they are the
\* chosen ones when it claims, because new settings need a reminder time that is
\* still to come.  Only an update that was slower than that time escapes.
ReminderReachesChosen == astray \subseteq tardy

\* A meeting is completed or cancelled once and a decision answered once.
MeetingsSettleOnce ==
  [][\A m \in Meetings :
       /\ meeting[m].status # "SCHEDULED" => meeting'[m] = meeting[m]
       /\ decision[m].status \in {"AGREED", "REJECTED"} => decision'[m] = decision[m]]_vars
=============================================================================
