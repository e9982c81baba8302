------------------------------ MODULE Wellbeing ------------------------------
(***************************************************************************)
(* Private check-ins, and the consents by which partners show them to each *)
(* other (modules/wellbeing).                                              *)
(*                                                                         *)
(* sharedWithMe takes the reader's family, then the grants made to him in  *)
(* it, then the check-ins of every owner, each with another query; grants  *)
(* are given, narrowed, revoked and deleted, partners move and accounts    *)
(* are deactivated in between.                                             *)
(*                                                                         *)
(* Gratitudes, support requests, rituals and assessments are left out:     *)
(* each is one row, written by one statement; the couple meetings are in   *)
(* Agreements.                                                             *)
(***************************************************************************)
EXTENDS Naturals

CONSTANTS
  People, Devices, Families,
  Scopes,       \* the fields of a check-in that can be shown: all but its note
  CheckIns,
  Nowhere,
  MaxDay,       \* bound: the clock stops there
  MaxSteps      \* bound: calls, moves and deactivations

ASSUME WellbeingAssumption ==
  /\ Nowhere \notin People \union Families
  /\ MaxDay \in Nat
  /\ MaxSteps \in Nat

Days  == 0 .. MaxDay        \* as the end of a consent, 0 is none
Homes == Families \union {Nowhere}

\* No scopes: there is no row.
GrantRows   == [family : Homes, scopes : SUBSET Scopes, until : Days, revoked : BOOLEAN]
CheckInRows == [by : People \union {Nowhere}, family : Homes, there : BOOLEAN]
Shares      == [owner : People, scopes : SUBSET Scopes]

NoGrant == [family |-> Nowhere, scopes |-> {}, until |-> 0, revoked |-> FALSE]
NoCall  == [op |-> "none"]
Calls   == {NoCall}
           \union [op : {"checkIn"}, by : People, family : Families]
           \union [op : {"grant"}, by : People, family : Families, to : People,
                   scopes : SUBSET Scopes, until : Days]
           \union [op : {"share"}, by : People, family : Families]
           \union [op : {"rows"}, by : People, family : Families, todo : SUBSET Shares]

VARIABLES
  day,
  home,       \* the active family each is a member of, or Nowhere; see Family
  inactive,   \* users whose account waits for its deletion; see Account
  grant,      \* wellbeing_consent_grants, by owner and recipient
  checkIn,
  request,    \* what each client has under way and what it has read
  steps,
  consent,    \* history: what each owner was last told that the other may see
  since,      \* history: what each reader was allowed to see since he asked
  shown       \* what a call of sharedWithMe has collected for its answer

wvars == <<day, home, inactive, grant, checkIn, request, steps, consent, since, shown>>

WInit ==
  /\ day      = 0
  /\ home     \in [People -> Homes]
  /\ inactive = {}
  /\ grant    = [o \in People |-> [v \in People |-> NoGrant]]
  /\ checkIn  = [c \in CheckIns |-> [by |-> Nowhere, family |-> Nowhere, there |-> FALSE]]
  /\ request  = [q \in Devices |-> NoCall]
  /\ steps    = 0
  /\ consent  = [o \in People |-> [v \in People |-> NoGrant]]
  /\ since    = [q \in Devices |-> {}]
  /\ shown    = [q \in Devices |-> {}]

\* Not expired, and its owner an active member of the family it was given in.
InForce(g, o, f) ==
  /\ g.family = f
  /\ home[o] = f
  /\ o \notin inactive
  /\ g.until = 0 \/ g.until > day

\* What v, who asks as a member of f, may see: scopes of owners.
Allowed(v, f) == {x \in People \X Scopes : /\ InForce(consent[x[1]][v], x[1], f)
                                            /\ x[2] \in consent[x[1]][v].scopes}

\* Every step adds what a client that has asked, and not yet found the grants,
\* is allowed when the step is taken: the last is the one that finds them.
Watch ==
  since' = [q \in Devices |->
    IF request[q].op = "share" THEN since[q] \union Allowed(request[q].by, request[q].family)
    ELSE IF request[q].op = "rows" THEN since[q] ELSE {}]

Count           == steps < MaxSteps /\ steps' = steps + 1
StartCall(q, c) == request[q] = NoCall /\ Count /\ request' = [request EXCEPT ![q] = c]
EndCall(q)      == request' = [request EXCEPT ![q] = NoCall] /\ UNCHANGED steps

Tick == /\ day < MaxDay /\ day' = day + 1
        /\ UNCHANGED <<home, inactive, grant, checkIn, request, steps, consent, shown>>

Move(p) == /\ Count
           /\ \E f \in Homes \ {home[p]} : home' = [home EXCEPT ![p] = f]
           /\ UNCHANGED <<day, inactive, grant, checkIn, request, consent, shown>>

Deactivate(p) == /\ Count /\ p \notin inactive
                 /\ inactive' = inactive \union {p}
                 /\ UNCHANGED <<day, home, grant, checkIn, request, consent, shown>>

Reactivate(p) == /\ Count /\ p \in inactive
                 /\ inactive' = inactive \ {p}
                 /\ UNCHANGED <<day, home, grant, checkIn, request, consent, shown>>

(***************************************************************************)
(* The owner.                                                              *)
(***************************************************************************)

StartCheckIn(q, p) ==
  /\ home[p] # Nowhere
  /\ StartCall(q, [op |-> "checkIn", by |-> p, family |-> home[p]])
  /\ UNCHANGED <<day, home, inactive, grant, checkIn, consent, shown>>

AddCheckIn(q, c) ==
  /\ request[q].op = "checkIn"
  /\ checkIn[c].by = Nowhere
  /\ checkIn' = [checkIn EXCEPT ![c] = [by |-> request[q].by, family |-> request[q].family,
                                        there |-> TRUE]]
  /\ EndCall(q)
  /\ UNCHANGED <<day, home, inactive, grant, consent, shown>>

RemoveCheckIn(c) ==
  /\ checkIn[c].there
  /\ Count
  /\ checkIn' = [checkIn EXCEPT ![c].there = FALSE]
  /\ UNCHANGED <<day, home, inactive, grant, request, consent, shown>>

\* grantConsent reads the family of its caller and refuses an end in the past.
StartGrant(q, p, v, S, until) ==
  /\ home[p] # Nowhere
  /\ v # p /\ S # {}
  /\ until = 0 \/ until > day
  /\ StartCall(q, [op |-> "grant", by |-> p, family |-> home[p], to |-> v, scopes |-> S,
               until |-> until])
  /\ UNCHANGED <<day, home, inactive, grant, checkIn, consent, shown>>

\* The recipient is looked up in that family, and the row of the pair is written
\* as a whole.
Grant(q) ==
  LET c == request[q]
      g == [family |-> c.family, scopes |-> c.scopes, until |-> c.until, revoked |-> FALSE]
  IN
  /\ c.op = "grant"
  /\ IF home[c.to] = c.family
     THEN /\ grant' = [grant EXCEPT ![c.by][c.to] = g]
          /\ consent' = [consent EXCEPT ![c.by][c.to] = g]
     ELSE UNCHANGED <<grant, consent>>
  /\ EndCall(q)
  /\ UNCHANGED <<day, home, inactive, checkIn, shown>>

Revoke(o, v) ==
  /\ grant[o][v].scopes # {} /\ ~grant[o][v].revoked
  /\ Count
  /\ grant' = [grant EXCEPT ![o][v].revoked = TRUE]
  /\ consent' = [consent EXCEPT ![o][v] = NoGrant]
  /\ UNCHANGED <<day, home, inactive, checkIn, request, shown>>

Without(gs, p) == [o \in People |-> [v \in People |->
                     IF p \in {o, v} THEN NoGrant ELSE gs[o][v]]]

\* One transaction; the check-ins go as well.
DeleteAll(p) ==
  /\ home[p] # Nowhere
  /\ Count
  /\ grant' = Without(grant, p)
  /\ consent' = Without(consent, p)
  /\ checkIn' = [c \in CheckIns |->
                   IF checkIn[c].by = p THEN [checkIn[c] EXCEPT !.there = FALSE] ELSE checkIn[c]]
  /\ UNCHANGED <<day, home, inactive, request, shown>>

\* The retention worker anonymises an account: its grants are deleted.
Anonymize(p) ==
  /\ p \in inactive
  /\ Count
  /\ grant' = Without(grant, p)
  /\ consent' = Without(consent, p)
  /\ UNCHANGED <<day, home, inactive, checkIn, request, shown>>

(***************************************************************************)
(* sharedWithMe.                                                           *)
(***************************************************************************)

Ask(q, p) ==
  /\ home[p] # Nowhere
  /\ StartCall(q, [op |-> "share", by |-> p, family |-> home[p]])
  /\ UNCHANGED <<day, home, inactive, grant, checkIn, consent, shown>>

\* Mutant: revoked grants are found as well.
GrantsTo_Revoked(v, f) == {o \in People : grant[o][v].scopes # {} /\ InForce(grant[o][v], o, f)}

GrantsTo(v, f) == {o \in People : /\ grant[o][v].scopes # {}
                                  /\ ~grant[o][v].revoked
                                  /\ InForce(grant[o][v], o, f)}

FindGrants(q) ==
  LET c == request[q] IN
  /\ c.op = "share"
  /\ request' = [request EXCEPT ![q] =
       [op |-> "rows", by |-> c.by, family |-> c.family,
        todo |-> {[owner |-> o, scopes |-> grant[o][c.by].scopes] : o \in GrantsTo(c.by, c.family)}]]
  /\ UNCHANGED <<day, home, inactive, grant, checkIn, steps, consent, shown>>

RowsOf(o, f) == {c \in CheckIns : checkIn[c].by = o /\ checkIn[c].family = f /\ checkIn[c].there}

FindRows(q) ==
  LET c == request[q] IN
  /\ c.op = "rows"
  /\ \E t \in c.todo :
       /\ request' = [request EXCEPT ![q].todo = @ \ {t}]
       /\ shown' = [shown EXCEPT ![q] = @ \union (RowsOf(t.owner, c.family) \X t.scopes)]
  /\ UNCHANGED <<day, home, inactive, grant, checkIn, steps, consent>>

AnswerReader(q) ==
  /\ request[q].op = "rows" /\ request[q].todo = {}
  /\ EndCall(q)
  /\ shown' = [shown EXCEPT ![q] = {}]
  /\ UNCHANGED <<day, home, inactive, grant, checkIn, consent>>

-----------------------------------------------------------------------------
Step ==
  \/ Tick
  \/ \E p \in People : \/ Move(p) \/ Deactivate(p) \/ Reactivate(p)
                       \/ DeleteAll(p) \/ Anonymize(p)
  \/ \E c \in CheckIns : RemoveCheckIn(c)
  \/ \E o \in People, v \in People : Revoke(o, v)
  \/ \E q \in Devices, p \in People :
       \/ StartCheckIn(q, p) \/ Ask(q, p)
       \/ \E v \in People, S \in SUBSET Scopes, until \in Days : StartGrant(q, p, v, S, until)
  \/ \E q \in Devices : \/ \E c \in CheckIns : AddCheckIn(q, c)
                         \/ Grant(q) \/ FindGrants(q) \/ FindRows(q) \/ AnswerReader(q)

WNext == Step /\ Watch

WSpec == WInit /\ [][WNext]_wvars

(***************************************************************************)
(* Properties.                                                             *)
(***************************************************************************)

WTypeOK ==
  /\ day \in Days
  /\ home \in [People -> Homes]
  /\ inactive \subseteq People
  /\ grant \in [People -> [People -> GrantRows]]
  /\ checkIn \in [CheckIns -> CheckInRows]
  /\ request \in [Devices -> Calls]
  /\ steps \in 0 .. MaxSteps
  /\ consent \in [People -> [People -> GrantRows]]
  /\ since \in [Devices -> SUBSET (People \X Scopes)]
  /\ shown \in [Devices -> SUBSET (CheckIns \X Scopes)]

\* Whatever a partner is shown of a check-in, its owner had consented to at some
\* moment since he asked: given it for longer, not narrowed, revoked or deleted
\* it, and been an active member of the family he asked from.  The check-in
\* itself may be younger: the rows are read after the grants.
SharedIsGranted ==
  /\ WTypeOK
  /\ \A q \in Devices : \A x \in shown[q] : <<checkIn[x[1]].by, x[2]>> \in since[q]
=============================================================================
