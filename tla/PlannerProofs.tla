---------------------------- MODULE PlannerProofs ----------------------------
(***************************************************************************)
(* What the parts of the planner guarantee for any number of partners,     *)
(* clients, families, rows and writes: whatever a partner is shown, its    *)
(* owner had consented to since he asked; recipes have the ingredients of  *)
(* one write, and nobody changes under a version what it did not show; the *)
(* rows two partners settle between them agree, however their calls        *)
(* interleave, unless one writes over a change he has not read; and a      *)
(* notice is handed over where and when its recipient wants it.            *)
(***************************************************************************)
EXTENDS Agreements, Household, Wellbeing, Notices, TLAPS

-----------------------------------------------------------------------------
(***************************************************************************)
(* Shared check-ins.  The invariant links the three stages of              *)
(* sharedWithMe: a grant that can be found is the owner's last consent,    *)
(* the grants found give no more than was allowed, and the rows shown give *)
(* no more than those grants.                                              *)
(***************************************************************************)

\* A grant that is neither revoked nor deleted is what its owner was last told.
GrantIsConsent ==
  \A o, v \in People : (grant[o][v].scopes # {} /\ ~grant[o][v].revoked)
                         => consent[o][v] = grant[o][v]

\* The grants a reader has found are among what he was allowed.
FoundIsAllowed ==
  \A q \in Devices : request[q].op = "rows" =>
    \A t \in request[q].todo : \A s \in t.scopes : <<t.owner, s>> \in since[q]

\* What is collected belongs to a call that has found its grants.
ShownIsAllowed ==
  \A q \in Devices : \A x \in shown[q] :
    request[q].op = "rows" /\ <<checkIn[x[1]].by, x[2]>> \in since[q]

Inv == WTypeOK /\ GrantIsConsent /\ FoundIsAllowed /\ ShownIsAllowed

-----------------------------------------------------------------------------
\* A call under way has the fields of its operation.
LEMMA CallShape ==
  ASSUME NEW c \in Calls
  PROVE  /\ c.op \in {"none", "checkIn", "grant", "share", "rows"}
         /\ c.op # "none" => c.by \in People /\ c.family \in Families
         /\ c.op = "grant" => /\ c.to \in People /\ c.scopes \in SUBSET Scopes
                              /\ c.until \in Days
         /\ c.op = "rows" => c \in [op : {"rows"}, by : People, family : Families,
                                    todo : SUBSET Shares]
  BY DEF Calls, NoCall

\* A row without a grant is one of the table.
LEMMA NoGrantIsRow == NoGrant \in GrantRows
  BY WellbeingAssumption DEF NoGrant, GrantRows, Homes, Days

\* What is deleted keeps the tables' shape.
LEMMA WithoutShape ==
  ASSUME NEW gs \in [People -> [People -> GrantRows]], NEW p
  PROVE  Without(gs, p) \in [People -> [People -> GrantRows]]
  BY NoGrantIsRow DEF Without

\* Writing the row of a pair keeps it too.
LEMMA PairShape ==
  ASSUME NEW gs \in [People -> [People -> GrantRows]], NEW a \in People, NEW b \in People,
         NEW g \in GrantRows
  PROVE  [gs EXCEPT ![a][b] = g] \in [People -> [People -> GrantRows]]
<1>1. [gs[a] EXCEPT ![b] = g] \in [People -> GrantRows]
  OBVIOUS
<1> QED BY <1>1

\* Only scopes of owners are allowed to anybody.
LEMMA AllowedShape == \A v, f : Allowed(v, f) \in SUBSET (People \X Scopes)
  BY DEF Allowed

\* The initial states have the shape of the rows.
LEMMA InitTypeOK == WInit => WTypeOK
  BY NoGrantIsRow, WellbeingAssumption
  DEF WInit, WTypeOK, CheckInRows, Homes, Days, Calls

\* What the readers were allowed keeps its shape.
LEMMA WatchTyped ==
  ASSUME WTypeOK, Watch
  PROVE  since' \in [Devices -> SUBSET (People \X Scopes)]
  BY AllowedShape DEF WTypeOK, Watch

-----------------------------------------------------------------------------
\* Moves, accounts and the clock.
LEMMA TypeOfSurroundings ==
  ASSUME WTypeOK, Watch, Tick \/ \E p \in People : Move(p) \/ Deactivate(p) \/ Reactivate(p)
  PROVE  WTypeOK'
<1>1. CASE Tick
  BY <1>1, WatchTyped, WellbeingAssumption DEF WTypeOK, Tick, Days
<1>2. ASSUME NEW p \in People, Move(p) PROVE WTypeOK'
  BY <1>2, WatchTyped, WellbeingAssumption DEF WTypeOK, Move, Count, Homes
<1>3. ASSUME NEW p \in People, Deactivate(p) PROVE WTypeOK'
  BY <1>3, WatchTyped, WellbeingAssumption DEF WTypeOK, Deactivate, Count
<1>4. ASSUME NEW p \in People, Reactivate(p) PROVE WTypeOK'
  BY <1>4, WatchTyped, WellbeingAssumption DEF WTypeOK, Reactivate, Count
<1> QED BY <1>1, <1>2, <1>3, <1>4

\* What an owner does.
LEMMA TypeOfOwner ==
  ASSUME WTypeOK, Watch, NEW p \in People,
         DeleteAll(p) \/ Anonymize(p) \/ \E v \in People : Revoke(p, v)
  PROVE  WTypeOK'
<1>1. CASE DeleteAll(p)
  <2>1. grant' \in [People -> [People -> GrantRows]] /\ consent' \in [People -> [People -> GrantRows]]
    BY <1>1, WithoutShape DEF DeleteAll, WTypeOK
  <2>2. checkIn' \in [CheckIns -> CheckInRows]
    <3>1. checkIn' = [c \in CheckIns |->
                        IF checkIn[c].by = p THEN [checkIn[c] EXCEPT !.there = FALSE] ELSE checkIn[c]]
      BY <1>1 DEF DeleteAll
    <3>2. ASSUME NEW c \in CheckIns
          PROVE  checkIn[c] \in CheckInRows /\ [checkIn[c] EXCEPT !.there = FALSE] \in CheckInRows
      <4>1. checkIn[c] \in CheckInRows
        BY DEF WTypeOK
      <4> QED BY <4>1 DEF CheckInRows
    <3> QED BY <3>1, <3>2
  <2> QED BY <1>1, <2>1, <2>2, WatchTyped, WellbeingAssumption DEF DeleteAll, Count, WTypeOK
<1>2. CASE Anonymize(p)
  <2>1. grant' \in [People -> [People -> GrantRows]] /\ consent' \in [People -> [People -> GrantRows]]
    BY <1>2, WithoutShape DEF Anonymize, WTypeOK
  <2> QED BY <1>2, <2>1, WatchTyped, WellbeingAssumption DEF Anonymize, Count, WTypeOK
<1>3. ASSUME NEW v \in People, Revoke(p, v) PROVE WTypeOK'
  <2> DEFINE r == [grant[p][v] EXCEPT !.revoked = TRUE]
  <2>1. grant' \in [People -> [People -> GrantRows]]
    <3>1. grant[p][v] \in GrantRows
      BY DEF WTypeOK
    <3>2. r \in GrantRows
      BY <3>1 DEF GrantRows
    <3>3. grant' = [grant EXCEPT ![p][v] = r]
      BY <1>3 DEF Revoke
    <3> HIDE DEF r
    <3> QED BY <3>2, <3>3, PairShape DEF WTypeOK
  <2>2. consent' \in [People -> [People -> GrantRows]]
    BY <1>3, NoGrantIsRow DEF Revoke, WTypeOK
  <2> QED BY <1>3, <2>1, <2>2, WatchTyped, WellbeingAssumption DEF Revoke, Count, WTypeOK
<1> QED BY <1>1, <1>2, <1>3

\* The beginning of a call.
LEMMA TypeOfStart ==
  ASSUME WTypeOK, Watch, NEW q \in Devices, NEW p \in People,
         \/ StartCheckIn(q, p) \/ Ask(q, p)
         \/ \E v \in People, S \in SUBSET Scopes, until \in Days : StartGrant(q, p, v, S, until)
  PROVE  WTypeOK'
<1>1. home[p] # Nowhere => home[p] \in Families
  BY DEF WTypeOK, Homes
<1>2. CASE StartCheckIn(q, p)
  <2>1. [op |-> "checkIn", by |-> p, family |-> home[p]] \in Calls
    BY <1>1, <1>2 DEF StartCheckIn, Calls
  <2> QED BY <1>2, <2>1, WatchTyped, WellbeingAssumption
          DEF StartCheckIn, StartCall, Count, WTypeOK
<1>3. CASE Ask(q, p)
  <2>1. [op |-> "share", by |-> p, family |-> home[p]] \in Calls
    BY <1>1, <1>3 DEF Ask, Calls
  <2> QED BY <1>3, <2>1, WatchTyped, WellbeingAssumption DEF Ask, StartCall, Count, WTypeOK
<1>4. ASSUME NEW v \in People, NEW S \in SUBSET Scopes, NEW until \in Days,
             StartGrant(q, p, v, S, until)
      PROVE  WTypeOK'
  <2>1. [op |-> "grant", by |-> p, family |-> home[p], to |-> v, scopes |-> S, until |-> until]
          \in Calls
    BY <1>1, <1>4 DEF StartGrant, Calls
  <2> QED BY <1>4, <2>1, WatchTyped, WellbeingAssumption DEF StartGrant, StartCall, Count, WTypeOK
<1> QED BY <1>2, <1>3, <1>4

\* What a call goes on to do.
LEMMA TypeOfCall ==
  ASSUME WTypeOK, Watch, NEW q \in Devices,
         \/ Grant(q) \/ FindGrants(q) \/ FindRows(q) \/ AnswerReader(q)
         \/ \E c \in CheckIns : AddCheckIn(q, c)
  PROVE  WTypeOK'
<1>1. request[q] \in Calls
  BY DEF WTypeOK
<1>2. NoCall \in Calls
  BY DEF Calls
<1>3. CASE Grant(q)
  <2> DEFINE g == [family |-> request[q].family, scopes |-> request[q].scopes,
                   until |-> request[q].until, revoked |-> FALSE]
  <2>1. g \in GrantRows /\ request[q].by \in People /\ request[q].to \in People
    BY <1>1, <1>3, CallShape DEF Grant, GrantRows, Homes
  <2>2. \/ UNCHANGED <<grant, consent>>
        \/ /\ grant' = [grant EXCEPT ![request[q].by][request[q].to] = g]
           /\ consent' = [consent EXCEPT ![request[q].by][request[q].to] = g]
    BY <1>3 DEF Grant
  <2>3. grant' \in [People -> [People -> GrantRows]] /\ consent' \in [People -> [People -> GrantRows]]
    <3> HIDE DEF g
    <3>1. CASE UNCHANGED <<grant, consent>>
      BY <3>1 DEF WTypeOK
    <3>2. CASE /\ grant' = [grant EXCEPT ![request[q].by][request[q].to] = g]
               /\ consent' = [consent EXCEPT ![request[q].by][request[q].to] = g]
      BY <2>1, <3>2, PairShape DEF WTypeOK
    <3> QED BY <2>2, <3>1, <3>2
  <2> QED BY <1>2, <1>3, <2>3, WatchTyped DEF Grant, EndCall, WTypeOK
<1>4. CASE FindGrants(q)
  <2> DEFINE found == {[owner |-> o, scopes |-> grant[o][request[q].by].scopes] :
                         o \in GrantsTo(request[q].by, request[q].family)}
             next == [op |-> "rows", by |-> request[q].by, family |-> request[q].family,
                      todo |-> found]
  <2>1. request[q].by \in People /\ request[q].family \in Families
    BY <1>1, <1>4, CallShape DEF FindGrants
  <2>2. found \in SUBSET Shares
    BY <2>1 DEF WTypeOK, GrantsTo, GrantRows, Shares
  <2>3. next \in Calls
    BY <2>1, <2>2 DEF Calls
  <2>4. request' = [request EXCEPT ![q] = next]
    BY <1>4 DEF FindGrants
  <2>5. request' \in [Devices -> Calls]
    <3> HIDE DEF next
    <3> QED BY <2>3, <2>4 DEF WTypeOK
  <2> QED BY <1>4, <2>5, WatchTyped DEF FindGrants, WTypeOK
<1>5. CASE FindRows(q)
  <2>1. PICK t \in request[q].todo :
          /\ request' = [request EXCEPT ![q].todo = @ \ {t}]
          /\ shown' = [shown EXCEPT ![q] = @ \union (RowsOf(t.owner, request[q].family) \X t.scopes)]
    BY <1>5 DEF FindRows
  <2>2. request[q] \in [op : {"rows"}, by : People, family : Families, todo : SUBSET Shares]
    BY <1>1, <1>5, CallShape DEF FindRows
  <2>3. [request[q] EXCEPT !.todo = @ \ {t}]
           \in [op : {"rows"}, by : People, family : Families, todo : SUBSET Shares]
    BY <2>2
  <2>4. request' \in [Devices -> Calls]
    BY <2>1, <2>3 DEF WTypeOK, Calls
  <2>5. t.scopes \in SUBSET Scopes
    BY <2>2 DEF Shares
  <2>6. shown' \in [Devices -> SUBSET (CheckIns \X Scopes)]
    BY <2>1, <2>5 DEF WTypeOK, RowsOf
  <2> QED BY <1>5, <2>4, <2>6, WatchTyped DEF FindRows, WTypeOK
<1>6. CASE AnswerReader(q)
  BY <1>2, <1>6, WatchTyped DEF AnswerReader, EndCall, WTypeOK
<1>7. ASSUME NEW c \in CheckIns, AddCheckIn(q, c) PROVE WTypeOK'
  <2>1. [by |-> request[q].by, family |-> request[q].family, there |-> TRUE] \in CheckInRows
    BY <1>1, <1>7, CallShape DEF AddCheckIn, CheckInRows, Homes
  <2> QED BY <1>2, <1>7, <2>1, WatchTyped DEF AddCheckIn, EndCall, WTypeOK
<1> QED BY <1>3, <1>4, <1>5, <1>6, <1>7

\* Every step keeps the shape of the rows.
LEMMA TypeKept == WTypeOK /\ [WNext]_wvars => WTypeOK'
<1> SUFFICES ASSUME WTypeOK, [WNext]_wvars PROVE WTypeOK'
  OBVIOUS
<1>1. CASE UNCHANGED wvars
  BY <1>1 DEF wvars, WTypeOK
<1>2. CASE WNext
  <2>1. Watch /\ Step
    BY <1>2 DEF WNext
  <2>2. CASE Tick \/ \E p \in People : Move(p) \/ Deactivate(p) \/ Reactivate(p)
    BY <2>1, <2>2, TypeOfSurroundings
  <2>3. CASE \E p \in People : \/ DeleteAll(p) \/ Anonymize(p)
                               \/ \E v \in People : Revoke(p, v)
    BY <2>1, <2>3, TypeOfOwner
  <2>4. ASSUME NEW c \in CheckIns, RemoveCheckIn(c) PROVE WTypeOK'
    <3>1. checkIn' \in [CheckIns -> CheckInRows]
      BY <2>4 DEF RemoveCheckIn, WTypeOK, CheckInRows
    <3> QED BY <2>1, <2>4, <3>1, WatchTyped, WellbeingAssumption DEF RemoveCheckIn, Count, WTypeOK
  <2>5. CASE \E q \in Devices, p \in People :
               \/ StartCheckIn(q, p) \/ Ask(q, p)
               \/ \E v \in People, S \in SUBSET Scopes, until \in Days : StartGrant(q, p, v, S, until)
    BY <2>1, <2>5, TypeOfStart
  <2>6. CASE \E q \in Devices : \/ \E c \in CheckIns : AddCheckIn(q, c)
                                \/ Grant(q) \/ FindGrants(q) \/ FindRows(q) \/ AnswerReader(q)
    BY <2>1, <2>6, TypeOfCall
  <2> QED BY <2>1, <2>2, <2>3, <2>4, <2>5, <2>6 DEF Step
<1> QED BY <1>1, <1>2

\* The rows, the calls and the histories keep their shape.
THEOREM WellbeingTypeCorrect == WSpec => []WTypeOK
<1>1. WInit => WTypeOK
  BY InitTypeOK
<1>2. WTypeOK /\ [WNext]_wvars => WTypeOK'
  BY TypeKept
<1> QED BY <1>1, <1>2, PTL DEF WSpec

-----------------------------------------------------------------------------
\* Grants and consents change together: one pair, or all of a person's.
LEMMA GrantsChange ==
  ASSUME Step
  PROVE  \/ UNCHANGED <<grant, consent>>
         \/ \E q \in Devices : Grant(q)
         \/ \E o \in People, v \in People : Revoke(o, v)
         \/ \E p \in People : grant' = Without(grant, p) /\ consent' = Without(consent, p)
<1>1. CASE Tick
  BY <1>1 DEF Tick
<1>2. ASSUME NEW p \in People, Move(p) \/ Deactivate(p) \/ Reactivate(p)
      PROVE  UNCHANGED <<grant, consent>>
  BY <1>2 DEF Move, Deactivate, Reactivate
<1>3. ASSUME NEW p \in People, DeleteAll(p) \/ Anonymize(p)
      PROVE  grant' = Without(grant, p) /\ consent' = Without(consent, p)
  BY <1>3 DEF DeleteAll, Anonymize
<1>4. ASSUME NEW c \in CheckIns, RemoveCheckIn(c) PROVE UNCHANGED <<grant, consent>>
  BY <1>4 DEF RemoveCheckIn
<1>5. ASSUME NEW q \in Devices, NEW p \in People,
             \/ StartCheckIn(q, p) \/ Ask(q, p)
             \/ \E v \in People, S \in SUBSET Scopes, until \in Days : StartGrant(q, p, v, S, until)
      PROVE  UNCHANGED <<grant, consent>>
  BY <1>5 DEF StartCheckIn, Ask, StartGrant
<1>6. ASSUME NEW q \in Devices,
             \/ \E c \in CheckIns : AddCheckIn(q, c)
             \/ FindGrants(q) \/ FindRows(q) \/ AnswerReader(q)
      PROVE  UNCHANGED <<grant, consent>>
  BY <1>6 DEF AddCheckIn, FindGrants, FindRows, AnswerReader
<1> QED BY <1>1, <1>2, <1>3, <1>4, <1>5, <1>6 DEF Step

\* A call gets its grants from FindGrants and loses them to FindRows and to
\* AnswerReader only.
LEMMA RequestChange ==
  ASSUME WTypeOK, Step, NEW q \in Devices
  PROVE  \/ request'[q] = request[q] /\ shown'[q] = shown[q]
         \/ request[q].op # "rows" /\ request'[q].op # "rows" /\ shown'[q] = shown[q]
         \/ FindGrants(q) \/ FindRows(q) \/ AnswerReader(q)
<1>1. CASE Tick
  BY <1>1 DEF Tick
<1>2. ASSUME NEW p \in People, \/ Move(p) \/ Deactivate(p) \/ Reactivate(p)
                               \/ DeleteAll(p) \/ Anonymize(p)
      PROVE  request' = request /\ shown' = shown
  BY <1>2 DEF Move, Deactivate, Reactivate, DeleteAll, Anonymize
<1>3. ASSUME NEW c \in CheckIns, RemoveCheckIn(c) PROVE request' = request /\ shown' = shown
  BY <1>3 DEF RemoveCheckIn
<1>4. ASSUME NEW o \in People, NEW v \in People, Revoke(o, v)
      PROVE  request' = request /\ shown' = shown
  BY <1>4 DEF Revoke
<1>5. ASSUME NEW d \in Devices, NEW p \in People,
             \/ StartCheckIn(d, p) \/ Ask(d, p)
             \/ \E v \in People, S \in SUBSET Scopes, until \in Days : StartGrant(d, p, v, S, until)
      PROVE  /\ shown' = shown
             /\ \/ request'[q] = request[q]
                \/ request[q].op # "rows" /\ request'[q].op # "rows"
  BY <1>5 DEF WTypeOK, StartCheckIn, Ask, StartGrant, StartCall, NoCall
<1>6. ASSUME NEW d \in Devices, Grant(d) \/ \E c \in CheckIns : AddCheckIn(d, c)
      PROVE  /\ shown' = shown
             /\ \/ request'[q] = request[q]
                \/ request[q].op # "rows" /\ request'[q].op # "rows"
  BY <1>6 DEF WTypeOK, Grant, AddCheckIn, EndCall, NoCall
<1>7. ASSUME NEW d \in Devices, FindGrants(d) \/ FindRows(d) \/ AnswerReader(d)
      PROVE  d = q \/ (request'[q] = request[q] /\ shown'[q] = shown[q])
  <2>1. CASE FindGrants(d)
    BY <2>1 DEF WTypeOK, FindGrants
  <2>2. CASE FindRows(d)
    <3>1. PICK t \in request[d].todo :
            /\ request' = [request EXCEPT ![d].todo = @ \ {t}]
            /\ shown' = [shown EXCEPT ![d] = @ \union (RowsOf(t.owner, request[d].family) \X t.scopes)]
      BY <2>2 DEF FindRows
    <3> QED BY <3>1 DEF WTypeOK
  <2>3. CASE AnswerReader(d)
    BY <2>3 DEF WTypeOK, AnswerReader, EndCall
  <2> QED BY <1>7, <2>1, <2>2, <2>3
<1> QED BY <1>1, <1>2, <1>3, <1>4, <1>5, <1>6, <1>7 DEF Step

\* Whose a check-in is never changes.
LEMMA OwnerKept ==
  ASSUME WTypeOK, Step, NEW c \in CheckIns, checkIn[c].by # Nowhere
  PROVE  checkIn'[c].by = checkIn[c].by
<1>1. CASE Tick
  BY <1>1 DEF Tick
<1>2. ASSUME NEW p \in People, Move(p) \/ Deactivate(p) \/ Reactivate(p) \/ Anonymize(p)
      PROVE  checkIn' = checkIn
  BY <1>2 DEF Move, Deactivate, Reactivate, Anonymize
<1>3. ASSUME NEW p \in People, DeleteAll(p) PROVE checkIn'[c].by = checkIn[c].by
  BY <1>3 DEF DeleteAll, WTypeOK, CheckInRows
<1>4. ASSUME NEW d \in CheckIns, RemoveCheckIn(d) PROVE checkIn'[c].by = checkIn[c].by
  BY <1>4 DEF RemoveCheckIn, WTypeOK, CheckInRows
<1>5. ASSUME NEW o \in People, NEW v \in People, Revoke(o, v) PROVE checkIn' = checkIn
  BY <1>5 DEF Revoke
<1>6. ASSUME NEW q \in Devices, NEW p \in People,
             \/ StartCheckIn(q, p) \/ Ask(q, p)
             \/ \E v \in People, S \in SUBSET Scopes, until \in Days : StartGrant(q, p, v, S, until)
      PROVE  checkIn' = checkIn
  BY <1>6 DEF StartCheckIn, Ask, StartGrant
<1>7. ASSUME NEW q \in Devices, NEW d \in CheckIns, AddCheckIn(q, d)
      PROVE  checkIn'[c] = checkIn[c]
  BY <1>7 DEF AddCheckIn, WTypeOK
<1>8. ASSUME NEW q \in Devices, Grant(q) \/ FindGrants(q) \/ FindRows(q) \/ AnswerReader(q)
      PROVE  checkIn' = checkIn
  BY <1>8 DEF Grant, FindGrants, FindRows, AnswerReader
<1> QED BY <1>1, <1>2, <1>3, <1>4, <1>5, <1>6, <1>7, <1>8 DEF Step

-----------------------------------------------------------------------------
\* A grant that is not revoked stays what its owner consented to.
LEMMA GrantsKept ==
  ASSUME WTypeOK, GrantIsConsent, Step
  PROVE  GrantIsConsent'
<1>1. CASE UNCHANGED <<grant, consent>>
  BY <1>1 DEF GrantIsConsent
<1>2. ASSUME NEW q \in Devices, Grant(q) PROVE GrantIsConsent'
  <2> DEFINE g == [family |-> request[q].family, scopes |-> request[q].scopes,
                   until |-> request[q].until, revoked |-> FALSE]
  <2>1. \/ UNCHANGED <<grant, consent>>
        \/ /\ grant' = [grant EXCEPT ![request[q].by][request[q].to] = g]
           /\ consent' = [consent EXCEPT ![request[q].by][request[q].to] = g]
    BY <1>2 DEF Grant
  <2>2. request[q].by \in People /\ request[q].to \in People
    BY <1>2, CallShape DEF Grant, WTypeOK
  <2> HIDE DEF g
  <2>3. CASE /\ grant' = [grant EXCEPT ![request[q].by][request[q].to] = g]
             /\ consent' = [consent EXCEPT ![request[q].by][request[q].to] = g]
    <3> SUFFICES ASSUME NEW a \in People, NEW b \in People
                 PROVE  \/ grant'[a][b] = grant[a][b] /\ consent'[a][b] = consent[a][b]
                        \/ grant'[a][b] = g /\ consent'[a][b] = g
      BY DEF GrantIsConsent
    <3> QED BY <2>2, <2>3 DEF WTypeOK
  <2> QED BY <1>1, <2>1, <2>3
<1>3. ASSUME NEW o \in People, NEW v \in People, Revoke(o, v) PROVE GrantIsConsent'
  <2> SUFFICES ASSUME NEW a \in People, NEW b \in People,
                      grant'[a][b].scopes # {}, ~grant'[a][b].revoked
               PROVE  consent'[a][b] = grant'[a][b]
    BY DEF GrantIsConsent
  <2>1. grant' = [grant EXCEPT ![o][v] = [grant[o][v] EXCEPT !.revoked = TRUE]]
    BY <1>3 DEF Revoke
  <2>2. grant'[o][v].revoked
    <3>1. [grant[o][v] EXCEPT !.revoked = TRUE].revoked
      BY DEF WTypeOK, GrantRows
    <3> QED BY <2>1, <3>1 DEF WTypeOK
  <2>3. <<a, b>> # <<o, v>>
    BY <2>2
  <2>4. grant'[a][b] = grant[a][b] /\ consent'[a][b] = consent[a][b]
    BY <1>3, <2>1, <2>3 DEF Revoke, WTypeOK
  <2> QED BY <2>4 DEF GrantIsConsent
<1>4. ASSUME NEW p \in People, grant' = Without(grant, p), consent' = Without(consent, p)
      PROVE  GrantIsConsent'
  BY <1>4 DEF GrantIsConsent, Without
<1> QED BY <1>1, <1>2, <1>3, <1>4, GrantsChange

\* FindGrants finds what the reader is allowed at that moment.
LEMMA FoundAreConsents ==
  ASSUME WTypeOK, GrantIsConsent, NEW v \in People, NEW f, NEW o \in GrantsTo(v, f),
         NEW s \in grant[o][v].scopes
  PROVE  <<o, s>> \in Allowed(v, f)
<1>1. o \in People /\ consent[o][v] = grant[o][v] /\ InForce(grant[o][v], o, f)
  BY DEF GrantsTo, GrantIsConsent
<1>2. s \in Scopes
  BY <1>1 DEF WTypeOK, GrantRows
<1> QED BY <1>1, <1>2 DEF Allowed

\* The grants of a call stay among what its reader was allowed.
LEMMA FoundKept ==
  ASSUME WTypeOK, GrantIsConsent, FoundIsAllowed, Step, Watch
  PROVE  FoundIsAllowed'
<1> SUFFICES ASSUME NEW q \in Devices, request'[q].op = "rows",
                    NEW t \in request'[q].todo, NEW s \in t.scopes
             PROVE  <<t.owner, s>> \in since'[q]
  BY DEF FoundIsAllowed
<1>1. CASE request[q].op = "rows" /\ t \in request[q].todo
  BY <1>1 DEF FoundIsAllowed, Watch
<1>2. CASE FindGrants(q)
  <2>1. PICK o \in GrantsTo(request[q].by, request[q].family) :
          t = [owner |-> o, scopes |-> grant[o][request[q].by].scopes]
    BY <1>2 DEF FindGrants, WTypeOK
  <2>2. request[q].op = "share" /\ request[q].by \in People
    BY <1>2, CallShape DEF FindGrants, WTypeOK
  <2>3. <<t.owner, s>> \in Allowed(request[q].by, request[q].family)
    BY <2>1, <2>2, FoundAreConsents
  <2> QED BY <2>2, <2>3 DEF Watch
<1>3. CASE FindRows(q)
  BY <1>1, <1>3 DEF FindRows, WTypeOK
<1>4. CASE AnswerReader(q)
  BY <1>4 DEF AnswerReader, EndCall, NoCall, WTypeOK
<1> QED BY <1>1, <1>2, <1>3, <1>4, RequestChange

\* What is shown stays among it.
LEMMA ShownKept ==
  ASSUME WTypeOK, FoundIsAllowed, ShownIsAllowed, Step, Watch
  PROVE  ShownIsAllowed'
<1> SUFFICES ASSUME NEW q \in Devices, NEW x \in shown'[q]
             PROVE  request'[q].op = "rows" /\ <<checkIn'[x[1]].by, x[2]>> \in since'[q]
  BY DEF ShownIsAllowed
<1>1. ASSUME x \in shown[q]
      PROVE  request[q].op = "rows" /\ <<checkIn'[x[1]].by, x[2]>> \in since'[q]
  <2>1. request[q].op = "rows" /\ <<checkIn[x[1]].by, x[2]>> \in since[q]
    BY <1>1 DEF ShownIsAllowed
  <2>2. x[1] \in CheckIns /\ checkIn[x[1]].by \in People
    BY <1>1, <2>1 DEF WTypeOK
  <2>3. checkIn'[x[1]].by = checkIn[x[1]].by
    BY <2>2, OwnerKept, WellbeingAssumption
  <2> QED BY <2>1, <2>3 DEF Watch
<1>2. CASE FindGrants(q)
  BY <1>1, <1>2 DEF FindGrants
<1>3. CASE FindRows(q)
  <2>1. PICK t \in request[q].todo :
          /\ request' = [request EXCEPT ![q].todo = @ \ {t}]
          /\ shown' = [shown EXCEPT ![q] = @ \union (RowsOf(t.owner, request[q].family) \X t.scopes)]
    BY <1>3 DEF FindRows
  <2>2. request[q].op = "rows"
    BY <1>3 DEF FindRows
  <2>3. request[q] \in [op : {"rows"}, by : People, family : Families, todo : SUBSET Shares]
    BY <2>2, CallShape DEF WTypeOK
  <2>4. request'[q].op = "rows"
    BY <2>1, <2>3 DEF WTypeOK
  <2>5. CASE x \in RowsOf(t.owner, request[q].family) \X t.scopes
    <3>1. checkIn'[x[1]].by = t.owner /\ x[2] \in t.scopes
      BY <1>3, <2>5 DEF FindRows, RowsOf
    <3>2. <<t.owner, x[2]>> \in since[q]
      BY <2>2, <3>1 DEF FoundIsAllowed
    <3> QED BY <2>2, <2>4, <3>1, <3>2 DEF Watch
  <2>6. x \in shown[q] \/ x \in RowsOf(t.owner, request[q].family) \X t.scopes
    BY <2>1 DEF WTypeOK
  <2> QED BY <1>1, <2>4, <2>5, <2>6
<1>4. CASE AnswerReader(q)
  BY <1>4 DEF AnswerReader, WTypeOK
<1> QED BY <1>1, <1>2, <1>3, <1>4, RequestChange

\* The invariant holds at first and is kept.
LEMMA InvKept == Inv /\ [WNext]_wvars => Inv'
<1> SUFFICES ASSUME Inv, [WNext]_wvars PROVE Inv'
  OBVIOUS
<1>1. WTypeOK'
  BY TypeKept DEF Inv
<1>2. CASE UNCHANGED wvars
  BY <1>1, <1>2 DEF wvars, Inv, GrantIsConsent, FoundIsAllowed, ShownIsAllowed
<1>3. CASE WNext
  BY <1>1, <1>3, GrantsKept, FoundKept, ShownKept DEF WNext, Inv
<1> QED BY <1>2, <1>3

\* A partner is shown a field of a check-in only by a consent of its owner that
\* was in force at some moment since the partner asked (SharedIsGranted).
THEOREM SharedOnlyByConsent == WSpec => []SharedIsGranted
<1>1. WInit => Inv
  BY InitTypeOK DEF WInit, Inv, GrantIsConsent, FoundIsAllowed, ShownIsAllowed, NoGrant, NoCall
<1>2. Inv /\ [WNext]_wvars => Inv'
  BY InvKept
<1>3. Inv => SharedIsGranted
  BY DEF Inv, ShownIsAllowed, SharedIsGranted
<1> QED BY <1>1, <1>2, <1>3, PTL DEF WSpec
-----------------------------------------------------------------------------
(***************************************************************************)
(* Rows under a version.  What a client keeps of a row is what the row     *)
(* still shows while it has the version he has seen; only a transaction    *)
(* that has locked a recipe's row changes the ingredients of a recipe that *)
(* is there, so that it deletes all of them.                               *)
(***************************************************************************)
Kinds == {"none", "looked", "rewrite", "plan", "replan", "generate", "add", "check"}

\* What a client has under way has the fields of its operation.
CallFits(k) ==
  /\ k = [op |-> k.op, row |-> k.row, expected |-> k.expected, knew |-> k.knew, with |-> k.with]
  /\ k.op \in Kinds /\ k.expected \in Nat
  /\ k.op = "none" => k = Rest
  /\ k.op \in {"plan", "generate", "add"} => k.expected = 0
  /\ k.op = "rewrite" => k.row \in Recipes /\ k.with.created \subseteq Names
  /\ k.op \in {"plan", "replan"} => k.with \in Recipes \X Slots
  /\ k.op = "replan" => k.row \in Plans
  /\ k.op \in {"generate", "add"} => k.row \in Lists
  /\ k.op = "generate" => k.with \subseteq Plans \X Ingredients
  /\ k.op = "check" => k.row \in Items

\* Under the version a client has seen, the row shows what he was shown; an item
\* may have moved to another list.
StillShown(k) == k.expected # 0 =>
  /\ k.row \in Rows /\ k.expected <= version[k.row]
  /\ k.expected = version[k.row] =>
       /\ k.row \notin Items => k.knew = Content(k.row)
       /\ k.row \in Items => \E l \in Lists \union {Unset} : k.knew = <<FALSE, <<l, by[k.row]>>>>
  /\ k.op = "check" => k.knew[2][1] = k.with[1]

\* A rewriting of a recipe will delete all that the recipe has.
DeletesAll(k) == k.op = "rewrite" => version[k.row] > 0 /\ k.with.deleted = ingredients[k.row]

ClientsFit ==
  /\ client = [c \in Clients |-> client[c]]
  /\ \A c \in Clients : CallFits(client[c])
  /\ \A c \in Clients : StillShown(client[c])
  /\ \A c \in Clients : DeletesAll(client[c])
  /\ \A c \in Clients, d \in Clients :
       client[c].op = "rewrite" /\ client[d].op = "rewrite" /\ client[c].row = client[d].row
         => c = d

RowsFit ==
  /\ HTypeOK
  /\ asked \in Seq(SUBSET Names) /\ Len(asked) <= MaxWrites /\ ops \in Nat
  /\ \A p \in Plans : version[p] > 0 => menu[p] \in Recipes \X Slots
  /\ \A x \in archived : version[x] > 0
  /\ \A r \in Recipes : version[r] > 0 =>
       \E w \in DOMAIN asked : ingredients[r] = {w} \X asked[w]

HInv == RowsFit /\ ClientsFit /\ unseen = {}

-----------------------------------------------------------------------------
\* The tables share no row.
LEMMA RowKinds ==
  /\ \A r \in Recipes : r \in Rows /\ r \notin Plans \union Lists \union Items \union Tasks
  /\ \A p \in Plans : p \in Rows /\ p \notin Recipes \union Lists \union Items \union Tasks
  /\ \A l \in Lists : l \in Rows /\ l \notin Recipes \union Plans \union Items \union Tasks
  /\ \A i \in Items : i \in Rows /\ i \notin Recipes \union Plans \union Lists \union Tasks
  /\ \A k \in Tasks : k \in Rows /\ k \notin Recipes \union Plans \union Lists \union Items
  BY HouseholdAssumption DEF Rows

\* What a row of each table shows.
LEMMA Contents ==
  /\ \A r \in Recipes : Content(r) = <<r \in archived, <<text[r], ingredients[r]>>>>
  /\ \A k \in Tasks : Content(k) = <<k \in archived, <<text[k], by[k]>>>>
  /\ \A i \in Items : Content(i) = <<i \in archived, <<place[i], by[i]>>>>
  /\ \A p \in Plans : Content(p) = <<p \in archived, menu[p]>>
  /\ \A l \in Lists : Content(l) = <<l \in archived, <<>>>>
  BY RowKinds DEF Content

\* A step of c leaves what a row shows alone, or changes its version; and it
\* changes the ingredients of a recipe that is there only by a rewriting.
Versioned(c) ==
  /\ version' \in [Rows -> Nat]
  /\ \A x \in Rows : version[x] <= version'[x]
  /\ \A x \in Rows : version[x] = version'[x] =>
       /\ x \in archived' <=> x \in archived
       /\ x \in Recipes \union Tasks => text'[x] = text[x]
       /\ x \in Recipes => ingredients'[x] = ingredients[x]
       /\ x \in Plans => menu'[x] = menu[x]
       /\ x \in Items \union Tasks => by'[x] = by[x]
  /\ \A r \in Recipes : version[r] > 0 /\ ingredients'[r] # ingredients[r] =>
       client[c].op = "rewrite" /\ client[c].row = r

\* Under an unchanged version, the content is unchanged, but for an item's list.
LEMMA VersionedContent ==
  ASSUME NEW c \in Clients, Versioned(c), NEW x \in Rows, x \notin Items, version[x] = version'[x]
  PROVE  Content(x)' = Content(x)
<1>1. CASE x \in Recipes
  <2>1. Content(x)' = <<x \in archived', <<text'[x], ingredients'[x]>>>>
    BY <1>1, RowKinds DEF Content
  <2> QED BY <1>1, <2>1, Contents DEF Versioned
<1>2. CASE x \in Tasks
  <2>1. Content(x)' = <<x \in archived', <<text'[x], by'[x]>>>>
    BY <1>2, RowKinds DEF Content
  <2> QED BY <1>2, <2>1, Contents DEF Versioned
<1>3. CASE x \in Plans
  <2>1. Content(x)' = <<x \in archived', menu'[x]>>
    BY <1>3, RowKinds DEF Content
  <2> QED BY <1>3, <2>1, Contents DEF Versioned
<1>4. CASE x \in Lists
  <2>1. Content(x)' = <<x \in archived', <<>>>>
    BY <1>4, RowKinds DEF Content
  <2> QED BY <1>4, <2>1, Contents DEF Versioned
<1> QED BY <1>1, <1>2, <1>3, <1>4 DEF Rows

\* What a client keeps of a row survives such a step.
LEMMA StillShownKept ==
  ASSUME NEW c \in Clients, Versioned(c), version \in [Rows -> Nat], NEW k,
         k.expected \in Nat, StillShown(k)
  PROVE  StillShown(k)'
<1> SUFFICES ASSUME k.expected # 0 PROVE StillShown(k)'
  BY DEF StillShown
<1> DEFINE x == k.row
<1>1. x \in Rows /\ k.expected <= version[x]
  BY DEF StillShown
<1>2. version[x] \in Nat /\ version'[x] \in Nat /\ version[x] <= version'[x]
  BY <1>1 DEF Versioned
<1>3. k.expected <= version'[x]
  BY <1>1, <1>2
<1>4. CASE k.expected # version'[x]
  BY <1>1, <1>3, <1>4 DEF StillShown
<1>5. CASE k.expected = version'[x]
  <2>1. version[x] = version'[x] /\ k.expected = version[x]
    BY <1>1, <1>2, <1>5
  <2>2. x \notin Items => Content(x)' = Content(x)
    BY <1>1, <2>1, VersionedContent
  <2>3. x \in Items => by'[x] = by[x]
    BY <1>1, <2>1 DEF Versioned
  <2> QED BY <1>1, <1>3, <2>1, <2>2, <2>3 DEF StillShown
<1> QED BY <1>4, <1>5

\* A client's own record is all that changes of the clients.
LEMMA OneClient ==
  ASSUME client = [d \in Clients |-> client[d]], NEW c \in Clients, NEW k,
         client' = [client EXCEPT ![c] = k]
  PROVE  /\ client' = [d \in Clients |-> client'[d]]
         /\ client'[c] = k
         /\ \A d \in Clients \ {c} : client'[d] = client[d]
  OBVIOUS

\* A step that only reads keeps the invariant, if what the client goes away with
\* fits the rows.
LEMMA ReadKeeps ==
  ASSUME HInv, NEW c \in Clients, NEW k, client' = [client EXCEPT ![c] = k],
         UNCHANGED <<tables, asked, ops, unseen>>,
         CallFits(k), StillShown(k), DeletesAll(k),
         k.op = "rewrite" => \A d \in Clients \ {c} : client[d].op = "rewrite" => client[d].row # k.row
  PROVE  HInv'
<1>1. RowsFit' /\ unseen' = {}
  BY DEF HInv, RowsFit, HTypeOK, tables
<1>2. /\ client' = [d \in Clients |-> client'[d]]
      /\ client'[c] = k
      /\ \A d \in Clients \ {c} : client'[d] = client[d]
  BY OneClient DEF HInv, ClientsFit
<1>3. \A d \in Clients : CallFits(client'[d])
  BY <1>2 DEF HInv, ClientsFit
<1>4. ASSUME NEW d \in Clients PROVE StillShown(client[d])' /\ DeletesAll(client[d])'
  <2>1. PICK m : m = client'[d]
    OBVIOUS
  <2>2. StillShown(m) /\ DeletesAll(m)
    <3>1. CASE d = c
      BY <1>2, <2>1, <3>1
    <3>2. CASE d # c
      <4>1. m = client[d]
        BY <1>2, <2>1, <3>2
      <4> QED BY <4>1 DEF HInv, ClientsFit
    <3> QED BY <3>1, <3>2
  <2>3. StillShown(m)' /\ DeletesAll(m)'
    BY <2>2 DEF StillShown, DeletesAll, Content, tables
  <2> QED BY <2>1, <2>3 DEF StillShown, DeletesAll
<1>6. \A a \in Clients, d \in Clients :
        client'[a].op = "rewrite" /\ client'[d].op = "rewrite" /\ client'[a].row = client'[d].row
          => a = d
  BY <1>2 DEF HInv, ClientsFit
<1> QED BY <1>1, <1>2, <1>3, <1>4, <1>6 DEF HInv, ClientsFit, CallFits

\* A step that writes under versions and ends the client's call keeps what is
\* said of the clients.
LEMMA WriteKeeps ==
  ASSUME HInv, NEW c \in Clients, client' = [client EXCEPT ![c] = Rest], Versioned(c)
  PROVE  ClientsFit'
<1>1. /\ client' = [d \in Clients |-> client'[d]]
      /\ client'[c] = Rest
      /\ \A d \in Clients \ {c} : client'[d] = client[d]
  BY OneClient DEF HInv, ClientsFit
<1>2. ASSUME NEW d \in Clients
      PROVE  CallFits(client'[d]) /\ StillShown(client[d])' /\ DeletesAll(client[d])'
  <2>1. CASE d = c
    BY <1>1, <2>1 DEF CallFits, StillShown, DeletesAll, Rest, Kinds
  <2>2. CASE d # c
    <3>1. client'[d] = client[d] /\ CallFits(client[d]) /\ StillShown(client[d])
      BY <1>1, <2>2 DEF HInv, ClientsFit
    <3>2. StillShown(client[d])'
      <4>1. PICK k : k = client[d]
        OBVIOUS
      <4>2. k.expected \in Nat
        BY <3>1, <4>1 DEF CallFits
      <4>3. StillShown(k) /\ version \in [Rows -> Nat]
        BY <3>1, <4>1 DEF HInv, RowsFit, HTypeOK
      <4>4. StillShown(k)'
        BY <4>2, <4>3, StillShownKept
      <4> QED BY <3>1, <4>1, <4>4 DEF StillShown
    <3>3. ASSUME client[d].op = "rewrite"
          PROVE  version'[client[d].row] > 0
                 /\ client[d].with.deleted = ingredients'[client[d].row]
      <4> DEFINE r == client[d].row
      <4>1. r \in Recipes /\ r \in Rows
        BY <3>1, <3>3, RowKinds DEF CallFits
      <4>2. version[r] > 0 /\ client[d].with.deleted = ingredients[r]
        BY <3>3 DEF HInv, ClientsFit, DeletesAll
      <4>3. version[r] \in Nat /\ version'[r] \in Nat /\ version[r] <= version'[r]
        BY <4>1 DEF Versioned, HInv, RowsFit, HTypeOK
      <4>4. ingredients'[r] = ingredients[r]
        BY <2>2, <3>3, <4>1, <4>2 DEF Versioned, HInv, ClientsFit
      <4> QED BY <4>2, <4>3, <4>4
    <3> QED BY <3>1, <3>2, <3>3 DEF DeletesAll
  <2> QED BY <2>1, <2>2
<1>3. \A a \in Clients, d \in Clients :
        client'[a].op = "rewrite" /\ client'[d].op = "rewrite" /\ client'[a].row = client'[d].row
          => a = d
  BY <1>1 DEF HInv, ClientsFit, Rest
<1> QED BY <1>1, <1>2, <1>3 DEF ClientsFit, CallFits

-----------------------------------------------------------------------------
\* What an item shows: it is never archived.
LEMMA ItemContent ==
  ASSUME HTypeOK, NEW i \in Items
  PROVE  Content(i) = <<FALSE, <<place[i], by[i]>>>> /\ place[i] \in Lists \union {Unset}
<1>1. i \notin archived
  BY RowKinds DEF HTypeOK
<1>2. (i \in archived) = FALSE
  BY <1>1
<1>3. Content(i) = <<i \in archived, <<place[i], by[i]>>>>
  BY Contents
<1> QED BY <1>2, <1>3 DEF HTypeOK

\* Shown its content, a client knows the row.
LEMMA ContentShown ==
  ASSUME HTypeOK, NEW x \in Rows, NEW k, k.row = x, k.expected = version[x], k.knew = Content(x),
         k.op = "check" => k.knew[2][1] = k.with[1]
  PROVE  StillShown(k)
<1>0. version[x] <= version[x]
  BY DEF HTypeOK
<1>1. CASE x \in Items
  <2>1. k.knew = <<FALSE, <<place[x], by[x]>>>> /\ place[x] \in Lists \union {Unset}
    BY <1>1, ItemContent
  <2> QED BY <1>0, <1>1, <2>1 DEF StillShown
<1>2. CASE x \notin Items
  BY <1>0, <1>2 DEF StillShown
<1> QED BY <1>1, <1>2

LEMMA LookKept ==
  ASSUME HInv, NEW c \in Clients, NEW x \in Rows, Look(c, x)
  PROVE  HInv'
<1>1. PICK k : k = [op |-> "looked", row |-> x, expected |-> version[x],
                    knew |-> Content(x), with |-> <<>>]
  OBVIOUS
<1>2. version[x] \in Nat /\ HTypeOK
  BY DEF HInv, RowsFit, HTypeOK
<1>3. k.op = "looked" /\ k.row = x /\ k.expected = version[x] /\ k.knew = Content(x)
  BY <1>1
<1>4. CallFits(k)
  BY <1>1, <1>2 DEF CallFits, Kinds
<1>5. StillShown(k)
  BY <1>2, <1>3, ContentShown
<1>6. DeletesAll(k)
  BY <1>3 DEF DeletesAll
<1>7. client' = [client EXCEPT ![c] = k] /\ UNCHANGED <<tables, asked, ops, unseen>>
  BY <1>1 DEF Look
<1> QED BY <1>3, <1>4, <1>5, <1>6, <1>7, ReadKeeps

LEMMA GiveUpKept ==
  ASSUME HInv, NEW c \in Clients, GiveUp(c)
  PROVE  HInv'
<1>1. PICK k : k = Rest
  OBVIOUS
<1>2. CallFits(k) /\ StillShown(k) /\ DeletesAll(k) /\ k.op # "rewrite"
  BY <1>1 DEF CallFits, StillShown, DeletesAll, Rest, Kinds
<1>3. client' = [client EXCEPT ![c] = k] /\ UNCHANGED <<tables, asked, ops, unseen>>
  BY <1>1 DEF GiveUp
<1> QED BY <1>2, <1>3, ReadKeeps

\* A client that is ready holds nothing of another row.
LEMMA ReadyHas ==
  ASSUME HInv, NEW c \in Clients, NEW x, Ready(c, x)
  PROVE  /\ client[c].expected \in Nat
         /\ client[c].op = "none" => client[c] = Rest
         /\ client[c].expected # 0 => client[c].op = "looked" /\ client[c].row = x
  BY DEF HInv, ClientsFit, CallFits, Ready, Rest

\* A client that awaits the next query of an operation keeps what it had seen.
LEMMA AwaitKept ==
  ASSUME HInv, NEW c \in Clients, NEW x \in Rows, NEW op \in Kinds, NEW with,
         Ready(c, x), Await(c, op, x, with),
         op \notin {"none", "looked", "check"},
         op \in {"plan", "generate", "add"} => client[c].expected = 0,
         op = "rewrite" => /\ x \in Recipes /\ with.created \subseteq Names
                           /\ version[x] > 0 /\ with.deleted = ingredients[x] /\ ~Locked(x),
         op \in {"plan", "replan"} => with \in Recipes \X Slots,
         op = "replan" => x \in Plans,
         op \in {"generate", "add"} => x \in Lists,
         op = "generate" => with \subseteq Plans \X Ingredients
  PROVE  HInv'
<1>1. PICK k : k = [client[c] EXCEPT !.op = op, !.row = x, !.with = with]
  OBVIOUS
<1>2. PICK old : old = client[c]
  OBVIOUS
<1>3. /\ old = [op |-> old.op, row |-> old.row, expected |-> old.expected, knew |-> old.knew,
                with |-> old.with]
      /\ StillShown(old)
  BY <1>2 DEF HInv, ClientsFit, CallFits
<1>4. k = [op |-> op, row |-> x, expected |-> old.expected, knew |-> old.knew, with |-> with]
  BY <1>1, <1>2, <1>3
<1>5. /\ k.op = op /\ k.row = x /\ k.with = with
      /\ k.expected = old.expected /\ k.knew = old.knew
  BY <1>4
<1>6. old.expected \in Nat /\ (old.expected # 0 => old.row = x)
  BY <1>2, ReadyHas
<1>7. CallFits(k)
  <2>1. k = [op |-> k.op, row |-> k.row, expected |-> k.expected, knew |-> k.knew, with |-> k.with]
    BY <1>4, <1>5
  <2> QED BY <1>2, <1>5, <1>6, <2>1 DEF CallFits
<1>8. StillShown(k)
  BY <1>3, <1>5, <1>6 DEF StillShown
<1>9. DeletesAll(k)
  BY <1>5 DEF DeletesAll
<1>10. client' = [client EXCEPT ![c] = k] /\ UNCHANGED <<tables, asked, ops, unseen>>
  BY <1>1 DEF Await
<1>11. k.op = "rewrite" => \A d \in Clients \ {c} : client[d].op = "rewrite" => client[d].row # k.row
  BY <1>5 DEF Locked
<1> QED BY <1>7, <1>8, <1>9, <1>10, <1>11, ReadKeeps

\* The operations that read and await.
LEMMA AwaitsKept ==
  ASSUME HInv, NEW c \in Clients,
         \/ \E r \in Recipes, S \in SUBSET Names : RewriteRecipe(c, r, S)
         \/ \E r \in Recipes, s \in Slots : FindRecipe(c, r, s)
         \/ \E p \in Plans, r \in Recipes, s \in Slots : FindPlan(c, p, r, s)
         \/ \E p \in Plans, l \in Lists : FindIngredients(c, p, l)
         \/ \E l \in Lists : FindList(c, l)
  PROVE  HInv'
<1>0. client[c].op = "none" => client[c].expected = 0
  BY DEF HInv, ClientsFit, CallFits, Rest
<1>1. ASSUME NEW r \in Recipes, NEW S \in SUBSET Names, RewriteRecipe(c, r, S) PROVE HInv'
  <2> DEFINE w == [deleted |-> ingredients[r], created |-> S]
  <2>1. w.created \subseteq Names /\ w.deleted = ingredients[r]
    OBVIOUS
  <2>2. Await(c, "rewrite", r, w) /\ Ready(c, r) /\ version[r] > 0 /\ ~Locked(r)
    BY <1>1 DEF RewriteRecipe, Live
  <2>3. r \in Rows /\ "rewrite" \in Kinds
    BY RowKinds DEF Kinds
  <2> HIDE DEF w
  <2> QED BY <2>1, <2>2, <2>3, AwaitKept
<1>2. ASSUME NEW r \in Recipes, NEW s \in Slots, FindRecipe(c, r, s) PROVE HInv'
  <2>1. Await(c, "plan", r, <<r, s>>) /\ Ready(c, r) /\ client[c].expected = 0
    BY <1>0, <1>2 DEF FindRecipe, Ready
  <2>2. r \in Rows /\ "plan" \in Kinds /\ <<r, s>> \in Recipes \X Slots
    BY RowKinds DEF Kinds
  <2> QED BY <2>1, <2>2, AwaitKept
<1>3. ASSUME NEW p \in Plans, NEW r \in Recipes, NEW s \in Slots, FindPlan(c, p, r, s) PROVE HInv'
  <2>1. Await(c, "replan", p, <<r, s>>) /\ Ready(c, p)
    BY <1>3 DEF FindPlan
  <2>2. p \in Rows /\ "replan" \in Kinds /\ <<r, s>> \in Recipes \X Slots
    BY RowKinds DEF Kinds
  <2> QED BY <2>1, <2>2, AwaitKept
<1>4. ASSUME NEW p \in Plans, NEW l \in Lists, FindIngredients(c, p, l) PROVE HInv'
  <2> DEFINE w == {p} \X ingredients[menu[p][1]]
  <2>1. Await(c, "generate", l, w) /\ Ready(c, l) /\ client[c].expected = 0 /\ version[p] > 0
    BY <1>0, <1>4 DEF FindIngredients, Ready, Live
  <2>2. menu[p] \in Recipes \X Slots
    BY <2>1 DEF HInv, RowsFit
  <2>3. menu[p][1] \in Recipes
    BY <2>2
  <2>4. ingredients[menu[p][1]] \subseteq Ingredients
    BY <2>3 DEF HInv, RowsFit, HTypeOK
  <2>5. w \subseteq Plans \X Ingredients
    BY <2>4
  <2>6. l \in Rows /\ "generate" \in Kinds
    BY RowKinds DEF Kinds
  <2> HIDE DEF w
  <2> QED BY <2>1, <2>5, <2>6, AwaitKept
<1>5. ASSUME NEW l \in Lists, FindList(c, l) PROVE HInv'
  <2>1. Await(c, "add", l, <<>>) /\ Ready(c, l) /\ client[c].expected = 0
    BY <1>0, <1>5 DEF FindList, Ready
  <2>2. l \in Rows /\ "add" \in Kinds
    BY RowKinds DEF Kinds
  <2> QED BY <2>1, <2>2, AwaitKept
<1> QED BY <1>1, <1>2, <1>3, <1>4, <1>5

\* The check of an item goes on with the list it was seen in.
LEMMA FindItemKept ==
  ASSUME HInv, NEW c \in Clients, NEW i \in Items, NEW checked \in BOOLEAN,
         FindItem(c, i, checked)
  PROVE  HInv'
<1>1. PICK old : old = client[c]
  OBVIOUS
<1>2. PICK k : k = [op |-> "check", row |-> i, with |-> <<place[i], checked>>,
                    expected |-> IF old.op = "none" THEN version[i] ELSE old.expected,
                    knew     |-> IF old.op = "none" THEN Content(i) ELSE old.knew]
  OBVIOUS
<1>3. client' = [client EXCEPT ![c] = k] /\ UNCHANGED <<tables, asked, ops, unseen>>
  BY <1>1, <1>2 DEF FindItem
<1>4. /\ k.op = "check" /\ k.row = i /\ k.with = <<place[i], checked>>
      /\ old.op = "none" => k.expected = version[i] /\ k.knew = Content(i)
      /\ old.op # "none" => k.expected = old.expected /\ k.knew = old.knew
  BY <1>2
<1>5. k = [op |-> k.op, row |-> k.row, expected |-> k.expected, knew |-> k.knew, with |-> k.with]
  BY <1>2
<1>6. i \in Rows /\ version[i] \in Nat /\ old.expected \in Nat /\ StillShown(old) /\ HTypeOK
  BY <1>1, RowKinds DEF HInv, RowsFit, HTypeOK, ClientsFit, CallFits
<1>7. old.op # "none" => old.op = "looked" /\ old.row = i /\ old.knew[2][1] = place[i]
  BY <1>1 DEF FindItem, Ready
<1>8. CallFits(k)
  BY <1>4, <1>5, <1>6 DEF CallFits, Kinds
<1>9. Content(i) = <<FALSE, <<place[i], by[i]>>>> /\ place[i] \in Lists \union {Unset}
  BY <1>6, ItemContent
<1>10. Content(i)[2][1] = place[i]
  BY <1>9
<1>11. k.knew[2][1] = k.with[1]
  BY <1>4, <1>7, <1>10
<1>12. StillShown(k)
  <2>1. CASE old.op = "none"
    BY <1>4, <1>6, <1>11, <2>1, ContentShown
  <2>2. CASE old.op # "none"
    BY <1>4, <1>6, <1>7, <1>11, <2>2 DEF StillShown
  <2> QED BY <2>1, <2>2
<1>13. DeletesAll(k)
  BY <1>4 DEF DeletesAll
<1> QED BY <1>3, <1>4, <1>8, <1>12, <1>13, ReadKeeps

-----------------------------------------------------------------------------
\* An update counts the row's version up, and nobody who sends a version writes
\* what that version did not show.
LEMMA UpdateEffect ==
  ASSUME HInv, NEW c \in Clients, NEW x \in Rows, Update(c, x)
  PROVE  /\ version' \in [Rows -> Nat] /\ ops' \in Nat
         /\ version'[x] = version[x] + 1
         /\ \A y \in Rows \ {x} : version'[y] = version[y]
         /\ \A y \in Rows : version[y] <= version'[y]
         /\ client' = [client EXCEPT ![c] = Rest]
<1>1. version \in [Rows -> Nat] /\ ops \in Nat
  BY DEF HInv, RowsFit, HTypeOK
<1>2. version' = [version EXCEPT ![x] = @ + 1]
  BY DEF Update
<1> QED BY <1>1, <1>2 DEF Update

LEMMA UpdateSeen ==
  ASSUME HInv, NEW c \in Clients, NEW x \in Rows, Update(c, x),
         client[c].expected # 0 => client[c].row = x /\ (x \in Items => client[c].knew = Content(x))
  PROVE  unseen' = {}
<1>1. client[c].expected # 0 => client[c].expected = version[x]
  BY DEF Update, Granted
<1>2. client[c].expected # 0 => client[c].knew = Content(x)
  BY <1>1 DEF HInv, ClientsFit, StillShown
<1> QED BY <1>2 DEF Update, HInv

\* An insert gives rows that were not there their first version.
LEMMA InsertEffect ==
  ASSUME HInv, NEW c \in Clients, NEW X \in SUBSET Rows, Insert(c, X)
  PROVE  /\ version' \in [Rows -> Nat] /\ ops' \in Nat
         /\ \A y \in Rows : y \notin X \/ version[y] # 0 => version'[y] = version[y]
         /\ \A y \in X : version[y] = 0 => version'[y] = 1
         /\ \A y \in Rows : version[y] <= version'[y]
         /\ client' = [client EXCEPT ![c] = Rest]
         /\ unseen' = {}
<1>1. version \in [Rows -> Nat] /\ ops \in Nat
  BY DEF HInv, RowsFit, HTypeOK
<1>2. version' = [y \in Rows |-> IF y \in X /\ version[y] = 0 THEN 1 ELSE version[y]]
  BY DEF Insert
<1> QED BY <1>1, <1>2 DEF Insert, HInv

\* A write that leaves recipes, their ingredients and the plans alone, except for
\* what is said of them, keeps what is said of the rows.
LEMMA RowsKept ==
  ASSUME HInv, version' \in [Rows -> Nat], ops' \in Nat,
         UNCHANGED <<ingredients, menu, asked>>,
         archived' \subseteq Recipes \union Plans \union Lists \union Tasks,
         text' \in [Recipes \union Tasks -> Titles],
         place' \in [Items -> Lists \union {Unset}],
         by' \in [Items \union Tasks -> Clients \union {Unset}],
         \A x \in archived' : version'[x] > 0,
         \A x \in Recipes \union Plans : version'[x] > 0 => version[x] > 0
  PROVE  RowsFit'
<1>1. HTypeOK'
  BY DEF HInv, RowsFit, HTypeOK
<1>2. asked' \in Seq(SUBSET Names) /\ Len(asked') <= MaxWrites
  BY DEF HInv, RowsFit
<1>3. \A p \in Plans : version'[p] > 0 => menu'[p] \in Recipes \X Slots
  BY DEF HInv, RowsFit
<1>4. \A r \in Recipes : version'[r] > 0 =>
        \E w \in DOMAIN asked' : ingredients'[r] = {w} \X asked'[w]
  BY DEF HInv, RowsFit
<1> QED BY <1>1, <1>2, <1>3, <1>4 DEF RowsFit

\* A row that is updated and was there.
LEMMA UpdatedRows ==
  ASSUME HInv, NEW c \in Clients, NEW x \in Rows, Update(c, x), version[x] > 0
  PROVE  /\ \A y \in Rows : version'[y] > 0 <=> version[y] > 0
         /\ \A y \in archived : version'[y] > 0
         /\ version'[x] > 0
<1>1. version \in [Rows -> Nat] /\ archived \subseteq Rows /\ \A y \in archived : version[y] > 0
  BY DEF HInv, RowsFit, HTypeOK, Rows
<1> QED BY <1>1, UpdateEffect

\* Names, the archive, tasks: updates of one row.
LEMMA PlainUpdateKept ==
  ASSUME HInv, NEW c \in Clients, NEW x \in Rows, x \notin Items, version[x] > 0,
         Ready(c, x), Update(c, x),
         UNCHANGED <<ingredients, menu, place, asked>>,
         archived' \in {archived, archived \union {x}, archived \ {x}},
         text' = text \/ (x \in Recipes \union Tasks /\ \E t \in Titles : text' = [text EXCEPT ![x] = t]),
         by' = by \/ (x \in Tasks /\ \E d \in Clients \union {Unset} : by' = [by EXCEPT ![x] = d])
  PROVE  HInv'
<1>1. HTypeOK
  BY DEF HInv, RowsFit
<1>2. unseen' = {}
  BY ReadyHas, UpdateSeen
<1>3. RowsFit'
  <2>1. archived' \subseteq Recipes \union Plans \union Lists \union Tasks
    BY <1>1 DEF HTypeOK, Rows
  <2>2. text' \in [Recipes \union Tasks -> Titles]
    BY <1>1 DEF HTypeOK
  <2>3. by' \in [Items \union Tasks -> Clients \union {Unset}]
    BY <1>1 DEF HTypeOK
  <2>4. \A y \in archived' : version'[y] > 0
    BY UpdatedRows
  <2>5. \A y \in Recipes \union Plans : version'[y] > 0 => version[y] > 0
    BY UpdatedRows DEF Rows
  <2> QED BY <1>1, <2>1, <2>2, <2>3, <2>4, <2>5, UpdateEffect, RowsKept DEF HTypeOK
<1>4. Versioned(c)
  <2>1. ASSUME NEW y \in Rows, version[y] = version'[y]
        PROVE  /\ y \in archived' <=> y \in archived
               /\ y \in Recipes \union Tasks => text'[y] = text[y]
               /\ y \in Items \union Tasks => by'[y] = by[y]
    <3>1. y # x
      BY <1>1, <2>1, UpdateEffect DEF HTypeOK
    <3> QED BY <1>1, <3>1 DEF HTypeOK
  <2> QED BY <2>1, UpdateEffect DEF Versioned
<1>5. ClientsFit'
  BY <1>4, UpdateEffect, WriteKeeps
<1> QED BY <1>2, <1>3, <1>5 DEF HInv

LEMMA PlainUpdatesKept ==
  ASSUME HInv, NEW c \in Clients,
         \/ \E r \in Recipes, t \in Titles : RenameRecipe(c, r, t)
         \/ \E x \in Recipes \union Lists : Archive(c, x) \/ Restore(c, x)
         \/ \E p \in Plans : DeletePlan(c, p)
         \/ \E k \in Tasks : SetCompleted(c, k) \/ ArchiveTask(c, k) \/ \E t \in Titles : UpdateTask(c, k, t)
  PROVE  HInv'
<1>0. HTypeOK /\ \A x \in archived : version[x] > 0
  BY DEF HInv, RowsFit
<1>1. ASSUME NEW r \in Recipes, NEW t \in Titles, RenameRecipe(c, r, t) PROVE HInv'
  BY <1>1, RowKinds, PlainUpdateKept DEF RenameRecipe, Live
<1>2. ASSUME NEW x \in Recipes \union Lists, Archive(c, x) PROVE HInv'
  BY <1>2, RowKinds, PlainUpdateKept DEF Archive, Live
<1>3. ASSUME NEW x \in Recipes \union Lists, Restore(c, x) PROVE HInv'
  BY <1>0, <1>3, RowKinds, PlainUpdateKept DEF Restore
<1>4. ASSUME NEW p \in Plans, DeletePlan(c, p) PROVE HInv'
  BY <1>4, RowKinds, PlainUpdateKept DEF DeletePlan, Live, Ready
<1>5. ASSUME NEW k \in Tasks, SetCompleted(c, k) PROVE HInv'
  <2> DEFINE d == IF by[k] = Unset THEN c ELSE Unset
  <2>1. d \in Clients \union {Unset}
    OBVIOUS
  <2>2. by' = [by EXCEPT ![k] = d]
    BY <1>5 DEF SetCompleted
  <2> HIDE DEF d
  <2> QED BY <1>5, <2>1, <2>2, RowKinds, PlainUpdateKept DEF SetCompleted, Live
<1>6. ASSUME NEW k \in Tasks, ArchiveTask(c, k) PROVE HInv'
  BY <1>6, RowKinds, PlainUpdateKept DEF ArchiveTask, Live, Ready
<1>7. ASSUME NEW k \in Tasks, NEW t \in Titles, UpdateTask(c, k, t) PROVE HInv'
  BY <1>7, RowKinds, PlainUpdateKept DEF UpdateTask, Live
<1> QED BY <1>1, <1>2, <1>3, <1>4, <1>5, <1>6, <1>7

-----------------------------------------------------------------------------
\* A checked item: by a client who gives its version, it is in the list and in
\* the state he saw it in.
LEMMA CheckItemKept ==
  ASSUME HInv, NEW c \in Clients, NEW i \in Items, CheckItem(c, i)
  PROVE  HInv'
<1>0. HTypeOK /\ i \in Rows
  BY RowKinds DEF HInv, RowsFit
<1>1. Update(c, i) /\ client[c].op = "check" /\ client[c].row = i /\ place[i] = client[c].with[1]
  BY DEF CheckItem
<1>2. UNCHANGED <<archived, text, ingredients, menu, place, asked>>
  BY DEF CheckItem
<1>3. PICK d \in Clients \union {Unset} : by' = [by EXCEPT ![i] = d]
  <2> DEFINE e == IF by[i] = Unset THEN c ELSE Unset
  <2>1. e \in Clients \union {Unset} /\ by' = [by EXCEPT ![i] = e]
    BY DEF CheckItem
  <2> HIDE DEF e
  <2> QED BY <2>1
<1>4. client[c].expected # 0 => client[c].knew = Content(i)
  <2> SUFFICES ASSUME client[c].expected # 0 PROVE client[c].knew = Content(i)
    OBVIOUS
  <2>1. StillShown(client[c])
    BY DEF HInv, ClientsFit
  <2>2. client[c].expected = version[i]
    BY <1>1 DEF Update, Granted
  <2>3. PICK l \in Lists \union {Unset} : client[c].knew = <<FALSE, <<l, by[i]>>>>
    BY <1>1, <2>1, <2>2 DEF StillShown
  <2>4. client[c].knew[2][1] = place[i]
    BY <1>1, <2>1 DEF StillShown
  <2>5. l = place[i]
    BY <2>3, <2>4
  <2> QED BY <1>0, <2>3, <2>5, ItemContent
<1>5. unseen' = {}
  BY <1>0, <1>1, <1>4, UpdateSeen
<1>6. \A y \in Recipes \union Plans : version'[y] > 0 => version[y] > 0
  BY <1>0, <1>1, RowKinds, UpdateEffect
<1>7. \A y \in archived' : version'[y] > 0
  <2>1. \A y \in archived : y \in Rows /\ y # i /\ version[y] > 0
    BY RowKinds DEF HInv, RowsFit, HTypeOK
  <2> QED BY <1>0, <1>1, <1>2, <2>1, UpdateEffect
<1>8. RowsFit'
  BY <1>0, <1>1, <1>2, <1>3, <1>6, <1>7, UpdateEffect, RowsKept DEF HTypeOK
<1>9. Versioned(c)
  <2>1. ASSUME NEW y \in Rows, version[y] = version'[y], y \in Items \union Tasks
        PROVE  by'[y] = by[y]
    <3>1. y # i
      BY <1>0, <1>1, <2>1, UpdateEffect DEF HTypeOK
    <3> QED BY <1>0, <1>3, <2>1, <3>1 DEF HTypeOK
  <2> QED BY <1>0, <1>1, <1>2, <2>1, UpdateEffect DEF Versioned
<1>10. ClientsFit'
  BY <1>0, <1>1, <1>9, UpdateEffect, WriteKeeps
<1> QED BY <1>5, <1>8, <1>10 DEF HInv

\* Rows that are inserted alone, and items.
LEMMA InsertsKept ==
  ASSUME HInv, NEW c \in Clients,
         \/ GenerateItems(c)
         \/ \E x \in Lists \union Tasks : CreateRow(c, x)
         \/ \E i \in Manual : AddItem(c, i)
  PROVE  HInv'
<1>0. HTypeOK /\ CallFits(client[c])
  BY DEF HInv, RowsFit, ClientsFit
<1>1. ASSUME NEW X \in SUBSET (Lists \union Items \union Tasks), Insert(c, X),
             UNCHANGED <<archived, text, ingredients, menu, by, asked>>,
             place' \in [Items -> Lists \union {Unset}]
      PROVE  HInv'
  <2>1. X \subseteq Rows /\ X \intersect (Recipes \union Plans) = {}
    BY <1>1, RowKinds
  <2>2. \A y \in Recipes \union Plans : version'[y] > 0 => version[y] > 0
    BY <1>1, <2>1, RowKinds, InsertEffect
  <2>3. \A y \in archived' : version'[y] > 0
    <3>1. \A y \in archived : y \in Rows /\ version[y] > 0
      BY RowKinds DEF HInv, RowsFit, HTypeOK
    <3> QED BY <1>1, <2>1, <3>1, InsertEffect
  <2>4. RowsFit'
    BY <1>0, <1>1, <2>1, <2>2, <2>3, InsertEffect, RowsKept DEF HTypeOK
  <2>5. Versioned(c)
    BY <1>1, <2>1, InsertEffect DEF Versioned
  <2>6. ClientsFit' /\ unseen' = {}
    BY <1>1, <2>1, <2>5, InsertEffect, WriteKeeps
  <2> QED BY <2>4, <2>6 DEF HInv
<1>2. CASE GenerateItems(c)
  <2>1. client[c].op = "generate"
    BY <1>2 DEF GenerateItems
  <2>2. client[c].with \subseteq Items /\ client[c].row \in Lists
    BY <1>0, <2>1 DEF CallFits, Items
  <2>3. place' \in [Items -> Lists \union {Unset}]
    BY <1>0, <1>2, <2>2 DEF GenerateItems, HTypeOK
  <2> QED BY <1>1, <1>2, <2>2, <2>3 DEF GenerateItems
<1>3. ASSUME NEW x \in Lists \union Tasks, CreateRow(c, x) PROVE HInv'
  BY <1>0, <1>1, <1>3 DEF CreateRow, HTypeOK
<1>4. ASSUME NEW i \in Manual, AddItem(c, i) PROVE HInv'
  <2>1. client[c].row \in Lists /\ i \in Items
    BY <1>0, <1>4 DEF AddItem, CallFits, Items
  <2>2. place' \in [Items -> Lists \union {Unset}]
    BY <1>0, <1>4, <2>1 DEF AddItem, HTypeOK
  <2> QED BY <1>1, <1>4, <2>1, <2>2 DEF AddItem
<1> QED BY <1>2, <1>3, <1>4

-----------------------------------------------------------------------------
\* A plan gets the recipe and the slot the handler has checked.
LEMMA PlansKept ==
  ASSUME HInv, NEW c \in Clients, NEW p \in Plans, CreatePlan(c, p) \/ UpdatePlan(c, p)
  PROVE  HInv'
<1>0. HTypeOK /\ p \in Rows /\ \A r \in Recipes : r \in Rows /\ r # p
  BY RowKinds DEF HInv, RowsFit
<1>1. UNCHANGED <<archived, text, ingredients, place, by, asked>>
  BY DEF CreatePlan, UpdatePlan
<1>2. PICK m \in Recipes \X Slots : menu' = [menu EXCEPT ![p] = m]
  <2>1. client[c].op \in {"plan", "replan"}
    BY DEF CreatePlan, UpdatePlan
  <2>2. client[c].with \in Recipes \X Slots
    BY <2>1 DEF HInv, ClientsFit, CallFits
  <2> QED BY <2>2 DEF CreatePlan, UpdatePlan
<1>3. /\ version' \in [Rows -> Nat] /\ ops' \in Nat
      /\ version'[p] # version[p]
      /\ \A y \in Rows \ {p} : version'[y] = version[y]
      /\ \A y \in Rows : version[y] <= version'[y]
      /\ client' = [client EXCEPT ![c] = Rest]
      /\ unseen' = {}
  <2>1. CASE CreatePlan(c, p)
    <3>1. Insert(c, {p}) /\ version[p] = 0 /\ {p} \in SUBSET Rows
      BY <1>0, <2>1 DEF CreatePlan
    <3> QED BY <1>0, <3>1, InsertEffect
  <2>2. CASE UpdatePlan(c, p)
    <3>1. Update(c, p) /\ client[c].row = p /\ p \notin Items
      BY <2>2, RowKinds DEF UpdatePlan
    <3>2. version[p] \in Nat
      BY <1>0 DEF HTypeOK
    <3> QED BY <1>0, <3>1, <3>2, UpdateEffect, UpdateSeen
  <2> QED BY <2>1, <2>2
<1>4. HTypeOK'
  BY <1>0, <1>1, <1>2, <1>3 DEF HTypeOK
<1>5. \A q \in Plans : version'[q] > 0 => menu'[q] \in Recipes \X Slots
  <2> TAKE q \in Plans
  <2>1. CASE q = p
    BY <1>0, <1>2, <2>1 DEF HTypeOK
  <2>2. CASE q # p
    BY <1>0, <1>2, <1>3, <2>2, RowKinds DEF HInv, RowsFit, HTypeOK
  <2> QED BY <2>1, <2>2
<1>6. \A x \in archived' : version'[x] > 0
  <2>1. \A x \in archived : x \in Rows /\ version[x] \in Nat /\ version'[x] \in Nat /\ version[x] > 0
    BY <1>3, RowKinds DEF HInv, RowsFit, HTypeOK
  <2> QED BY <1>1, <1>3, <2>1
<1>7. \A r \in Recipes : version'[r] > 0 =>
        \E w \in DOMAIN asked' : ingredients'[r] = {w} \X asked'[w]
  BY <1>0, <1>1, <1>3 DEF HInv, RowsFit
<1>8. RowsFit'
  BY <1>1, <1>3, <1>4, <1>5, <1>6, <1>7 DEF HInv, RowsFit
<1>9. Versioned(c)
  <2>1. ASSUME NEW y \in Rows, version[y] = version'[y], y \in Plans PROVE menu'[y] = menu[y]
    BY <1>0, <1>2, <1>3, <2>1 DEF HTypeOK
  <2> QED BY <1>1, <1>3, <2>1 DEF Versioned
<1>10. ClientsFit'
  BY <1>3, <1>9, WriteKeeps
<1> QED BY <1>3, <1>8, <1>10 DEF HInv

\* A written recipe has what the write asked for: a new one had nothing, and of
\* an old one all that it had is deleted.
LEMMA WrittenKept ==
  ASSUME HInv, NEW c \in Clients, NEW r \in Recipes, NEW S \in SUBSET Names,
         Write(S), ingredients' = [ingredients EXCEPT ![r] = {Len(asked) + 1} \X S],
         UNCHANGED <<archived, text, menu, place, by>>,
         version' \in [Rows -> Nat], ops' \in Nat,
         version'[r] # version[r],
         version[r] > 0 => client[c].op = "rewrite" /\ client[c].row = r,
         \A y \in Rows \ {r} : version'[y] = version[y],
         \A y \in Rows : version[y] <= version'[y],
         client' = [client EXCEPT ![c] = Rest],
         unseen' = {}
  PROVE  HInv'
<1>0. HTypeOK /\ r \in Rows /\ \A p \in Plans : p \in Rows /\ p # r
  BY RowKinds DEF HInv, RowsFit
<1>1. asked \in Seq(SUBSET Names) /\ Len(asked) \in Nat /\ MaxWrites \in Nat
  BY HouseholdAssumption DEF HInv, RowsFit
<1>2. /\ asked' \in Seq(SUBSET Names) /\ Len(asked') = Len(asked) + 1 /\ Len(asked') <= MaxWrites
      /\ DOMAIN asked' = 1 .. Len(asked) + 1 /\ DOMAIN asked = 1 .. Len(asked)
      /\ asked'[Len(asked) + 1] = S
      /\ \A w \in 1 .. Len(asked) : asked'[w] = asked[w]
  <2>1. asked' = Append(asked, S) /\ Len(asked) < MaxWrites
    BY DEF Write
  <2> QED BY <1>1, <2>1
<1>3. {Len(asked) + 1} \X S \subseteq Ingredients
  BY <1>1, <1>2 DEF Ingredients, Writes
<1>4. HTypeOK'
  BY <1>0, <1>3 DEF HTypeOK
<1>5. \A q \in Recipes : version'[q] > 0 =>
        \E w \in DOMAIN asked' : ingredients'[q] = {w} \X asked'[w]
  <2> TAKE q \in Recipes
  <2>1. CASE q = r
    <3>1. ingredients'[q] = {Len(asked) + 1} \X asked'[Len(asked) + 1]
      BY <1>0, <1>2, <2>1 DEF HTypeOK
    <3>2. Len(asked) + 1 \in DOMAIN asked'
      BY <1>1, <1>2
    <3> QED BY <3>1, <3>2
  <2>2. CASE q # r
    <3>1. version'[q] = version[q] /\ ingredients'[q] = ingredients[q]
      BY <1>0, <2>2, RowKinds DEF HTypeOK
    <3>2. version[q] > 0 => \E w \in DOMAIN asked : ingredients[q] = {w} \X asked[w]
      BY DEF HInv, RowsFit
    <3>3. \A w \in DOMAIN asked : w \in DOMAIN asked' /\ asked'[w] = asked[w]
      BY <1>1, <1>2
    <3> QED BY <3>1, <3>2, <3>3
  <2> QED BY <2>1, <2>2
<1>6. \A x \in archived' : version'[x] > 0
  <2>1. \A x \in archived : x \in Rows /\ version[x] \in Nat /\ version'[x] \in Nat /\ version[x] > 0
    BY RowKinds DEF HInv, RowsFit, HTypeOK
  <2> QED BY <2>1
<1>7. \A p \in Plans : version'[p] > 0 => menu'[p] \in Recipes \X Slots
  BY <1>0 DEF HInv, RowsFit
<1>8. RowsFit'
  BY <1>2, <1>4, <1>5, <1>6, <1>7 DEF RowsFit
<1>9. Versioned(c)
  <2>1. ASSUME NEW y \in Recipes, y # r PROVE ingredients'[y] = ingredients[y]
    BY <1>0, <2>1 DEF HTypeOK
  <2> QED BY <2>1 DEF Versioned
<1>10. ClientsFit'
  BY <1>9, WriteKeeps
<1> QED BY <1>8, <1>10 DEF HInv

LEMMA RecipesKept ==
  ASSUME HInv, NEW c \in Clients,
         CommitRewrite(c) \/ \E r \in Recipes, S \in SUBSET Names : CreateRecipe(c, r, S)
  PROVE  HInv'
<1>1. ASSUME NEW r \in Recipes, NEW S \in SUBSET Names, CreateRecipe(c, r, S) PROVE HInv'
  <2>1. Insert(c, {r}) /\ version[r] = 0 /\ {r} \in SUBSET Rows
    BY <1>1, RowKinds DEF CreateRecipe
  <2>2. /\ version' \in [Rows -> Nat] /\ ops' \in Nat
        /\ version'[r] = 1
        /\ \A y \in Rows \ {r} : version'[y] = version[y]
        /\ \A y \in Rows : version[y] <= version'[y]
        /\ client' = [client EXCEPT ![c] = Rest]
        /\ unseen' = {}
    BY <2>1, InsertEffect
  <2>3. ingredients' = [ingredients EXCEPT ![r] = {Len(asked) + 1} \X S]
    BY <1>1 DEF CreateRecipe, NewIngredients
  <2>4. Write(S) /\ UNCHANGED <<archived, text, menu, place, by>>
    BY <1>1 DEF CreateRecipe
  <2>5. version'[r] # version[r] /\ ~(version[r] > 0)
    BY <2>1, <2>2
  <2> QED BY <2>2, <2>3, <2>4, <2>5, WrittenKept
<1>2. CASE CommitRewrite(c)
  <2>0. client[c].op = "rewrite" /\ CallFits(client[c])
    BY <1>2 DEF CommitRewrite, HInv, ClientsFit
  <2>a. PICK r \in Recipes : r = client[c].row
    BY <2>0 DEF CallFits
  <2>b. PICK S \in SUBSET Names : S = client[c].with.created
    BY <2>0 DEF CallFits
  <2>1. client[c].op = "rewrite" /\ client[c].row = r /\ Update(c, r) /\ Write(S)
    BY <1>2, <2>a, <2>b DEF CommitRewrite
  <2>2. r \in Rows /\ r \notin Items
    BY RowKinds
  <2>3. client[c].with.deleted = ingredients[r]
    BY <2>1 DEF HInv, ClientsFit, DeletesAll
  <2>4. ingredients' = [ingredients EXCEPT ![r] = {Len(asked) + 1} \X S]
    <3>1. ingredients' = [ingredients EXCEPT ![r] =
                           (ingredients[r] \ client[c].with.deleted) \union NewIngredients(S)]
      BY <1>2, <2>a, <2>b DEF CommitRewrite
    <3>2. (ingredients[r] \ client[c].with.deleted) \union NewIngredients(S) = {Len(asked) + 1} \X S
      BY <2>3 DEF NewIngredients
    <3> QED BY <3>1, <3>2
  <2>5. UNCHANGED <<archived, text, menu, place, by>>
    BY <1>2 DEF CommitRewrite
  <2>6. /\ version' \in [Rows -> Nat] /\ ops' \in Nat
        /\ version'[r] # version[r]
        /\ \A y \in Rows \ {r} : version'[y] = version[y]
        /\ \A y \in Rows : version[y] <= version'[y]
        /\ client' = [client EXCEPT ![c] = Rest]
    <3>1. version[r] \in Nat
      BY <2>2 DEF HInv, RowsFit, HTypeOK
    <3> QED BY <2>1, <2>2, <3>1, UpdateEffect
  <2>7. unseen' = {}
    BY <2>1, <2>2, UpdateSeen
  <2> QED BY <2>1, <2>2, <2>4, <2>5, <2>6, <2>7, WrittenKept
<1> QED BY <1>1, <1>2

-----------------------------------------------------------------------------
\* The invariant holds at first and is kept.
LEMMA HInvInit == HInit => HInv
<1> SUFFICES ASSUME HInit PROVE HInv
  OBVIOUS
<1>1. HTypeOK
  BY HouseholdAssumption, RowKinds DEF HInit, HTypeOK, Titles
<1>2. \A r \in Recipes \union Plans : version[r] = 0
  BY HouseholdAssumption, RowKinds DEF HInit
<1>3. asked \in Seq(SUBSET Names) /\ Len(asked) <= MaxWrites /\ ops \in Nat
  BY HouseholdAssumption DEF HInit
<1>4. archived = {} /\ ~(0 > 0)
  BY DEF HInit
<1>5. RowsFit
  BY <1>1, <1>2, <1>3, <1>4 DEF RowsFit
<1>6. ClientsFit
  BY DEF HInit, ClientsFit, CallFits, StillShown, DeletesAll, Rest, Kinds
<1> QED BY <1>5, <1>6 DEF HInv, HInit

LEMMA HInvKept == HInv /\ [HNext]_hvars => HInv'
<1> SUFFICES ASSUME HInv, [HNext]_hvars PROVE HInv'
  OBVIOUS
<1>1. CASE UNCHANGED hvars
  <2>1. RowsFit' /\ unseen' = {}
    BY <1>1 DEF hvars, tables, HInv, RowsFit, HTypeOK
  <2>2. /\ UNCHANGED <<version, archived, text, ingredients, menu, place, by>>
        /\ client' = client
    BY <1>1 DEF hvars, tables
  <2>3. ClientsFit
    BY DEF HInv
  <2>4. \A x : Content(x)' = Content(x)
    BY <2>2 DEF Content
  <2>5. \A c \in Clients : CallFits(client[c])'
    BY <2>2, <2>3 DEF ClientsFit, CallFits
  <2>6. ASSUME NEW c \in Clients PROVE StillShown(client[c])'
    <3>1. StillShown(client[c])
      BY <2>3 DEF ClientsFit
    <3> QED BY <2>2, <2>4, <3>1 DEF StillShown
  <2>7. ASSUME NEW c \in Clients PROVE DeletesAll(client[c])'
    <3>1. DeletesAll(client[c])
      BY <2>3 DEF ClientsFit
    <3> QED BY <2>2, <3>1 DEF DeletesAll
  <2>8. ClientsFit'
    BY <2>2, <2>3, <2>5, <2>6, <2>7 DEF ClientsFit
  <2> QED BY <2>1, <2>8 DEF HInv
<1>2. ASSUME NEW c \in Clients, ClientNext(c) PROVE HInv'
  <2>1. CASE \E x \in Rows : Look(c, x)
    BY <2>1, LookKept
  <2>2. CASE GiveUp(c)
    BY <2>2, GiveUpKept
  <2>3. CASE \E i \in Items : CheckItem(c, i) \/ \E checked \in BOOLEAN : FindItem(c, i, checked)
    BY <2>3, CheckItemKept, FindItemKept
  <2>4. CASE \E p \in Plans : CreatePlan(c, p) \/ UpdatePlan(c, p) \/ DeletePlan(c, p)
    BY <2>4, PlansKept, PlainUpdatesKept
  <2>5. CASE \E r \in Recipes, S \in SUBSET Names : CreateRecipe(c, r, S) \/ RewriteRecipe(c, r, S)
    BY <2>5, RecipesKept, AwaitsKept
  <2> QED BY <1>2, <2>1, <2>2, <2>3, <2>4, <2>5, AwaitsKept,
             PlainUpdatesKept, InsertsKept, RecipesKept DEF ClientNext
<1> QED BY <1>1, <1>2 DEF HNext

\* Recipes, plans, lists, items and tasks keep their shape (HTypeOK).
THEOREM HouseholdTypeCorrect == HSpec => []HTypeOK
<1>1. HInv => HTypeOK
  BY DEF HInv, RowsFit
<1> QED BY <1>1, HInvInit, HInvKept, PTL DEF HSpec

\* However updates of a recipe interleave, it has all the ingredients that one of
\* them asked for and no other (RecipesWhole).
THEOREM RecipesAlwaysWhole == HSpec => []RecipesWhole
<1>1. HInv => RecipesWhole
  BY DEF HInv, RowsFit, RecipesWhole
<1> QED BY <1>1, HInvInit, HInvKept, PTL DEF HSpec

\* Nobody changes under a version what that version did not show him
\* (IfMatchHolds).
THEOREM VersionsGuard == HSpec => []IfMatchHolds
<1>1. HInv => IfMatchHolds
  BY DEF HInv, IfMatchHolds
<1> QED BY <1>1, HInvInit, HInvKept, PTL DEF HSpec
-----------------------------------------------------------------------------
(***************************************************************************)
(* Agreements.  A call remembers of the row it has read what its write     *)
(* relies on, and that still holds while the row has the version it has    *)
(* seen; and what a worker has found holds for the recipients it will      *)
(* notify until the event gets another reminder time, which lies in the    *)
(* future unless the update that brings it was slow.                       *)
(***************************************************************************)

Moves        == {"accept", "reject", "realize", "confirm", "refuse"}
UpdateCalls  == [op : {"update"}, by : Partners, id : Events, seen : 1 .. MaxVersion,
                 ask : Changes, checked : BOOLEAN]
RespondCalls == [op : {"respond"}, by : Partners, id : Events, seen : 1 .. MaxVersion,
                 ask : {"CONFIRMED", "REJECTED"}, checked : BOOLEAN]
MoveCalls    == [op : {"move"}, by : Partners, id : Wishes, seen : 1 .. MaxVersion,
                 ask : Moves, checked : BOOLEAN]
MeetingCalls == [op : {"meeting"}, by : Partners, id : Meetings, seen : 1 .. MaxVersion,
                 ask : {"SCHEDULED", "COMPLETED", "CANCELLED"}, checked : BOOLEAN]
DecideCalls  == [op : {"decide"}, by : Partners, id : Meetings, seen : 1 .. MaxVersion,
                 ask : {"PROPOSED"}, checked : BOOLEAN]
AnswerCalls  == [op : {"answer"}, by : Partners, id : Meetings, seen : 1 .. MaxVersion,
                 ask : {"AGREED", "REJECTED"}, checked : BOOLEAN]
CoupleCalls  == [op : CoupleOps, by : Partners, id : Couples, seen : CoupleRows,
                 ask : Texts, checked : BOOLEAN]
AllCalls     == {Idle} \union UpdateCalls \union RespondCalls \union MoveCalls
                \union MeetingCalls \union DecideCalls \union AnswerCalls \union CoupleCalls

\* What a call has read still holds under the version it has seen.
Remembers(k) ==
  /\ k.op \in {"update", "respond"} => k.seen <= event[k.id].version
  /\ k.op = "update" =>
       /\ k.ask.redo /\ k.ask.lead # 0 => k.ask.lead < k.ask.on
       /\ event[k.id].version = k.seen /\ ~k.ask.moved => k.ask.on = event[k.id].on
  /\ k.op = "move" =>
       /\ k.seen <= wish[k.id].version
       /\ wish[k.id].version = k.seen => MayMove(k.by, wish[k.id], k.ask)
  /\ k.op \in CoupleOps => Unpublished(k.op, k.seen)

CallsRemember ==
  /\ call \in [Requests -> AllCalls]
  /\ \A q \in Requests : Remembers(call[q])

\* What a worker has found is for the recipients of the event, as long as the
\* reminder it found is the event's.
FoundIsChosen == \A w \in Workers :
  /\ at[w] <= now
  /\ \A f \in due[w] : f.id \in tardy \/ event[f.id].at \notin 1 .. at[w] \/ f.to = event[f.id].to

\* A meeting that is not there is not settled.
NoMeetingSettled == \A m \in Meetings : meeting[m].version = 0 => meeting[m].status = "SCHEDULED"

AgreeInv ==
  /\ RowsAgree /\ ReminderReachesChosen
  /\ CallsRemember /\ FoundIsChosen /\ NoMeetingSettled

-----------------------------------------------------------------------------
\* Moments and lead times are numbers.
LEMMA Numbers == Moments \subseteq Nat /\ Leads \subseteq Nat /\ MaxVersion \in Nat \ {0} /\ 0 \in Moments
  BY AgreementsAssumption DEF Moments

\* A call has the fields of its operation.
LEMMA CallKinds ==
  ASSUME NEW k \in AllCalls
  PROVE  /\ k.op \in {"idle", "update", "respond", "move", "meeting", "decide", "answer"} \union CoupleOps
         /\ k.op = "idle" => k = Idle
         /\ k.op = "update" => k \in UpdateCalls
         /\ k.op = "respond" => k \in RespondCalls
         /\ k.op = "move" => k \in MoveCalls
         /\ k.op = "meeting" => k \in MeetingCalls
         /\ k.op = "decide" => k \in DecideCalls
         /\ k.op = "answer" => k \in AnswerCalls
         /\ k.op \in CoupleOps => k \in CoupleCalls
  BY DEF AllCalls, UpdateCalls, RespondCalls, MoveCalls, MeetingCalls, DecideCalls, AnswerCalls,
         CoupleCalls, CoupleOps, Idle

LEMMA CallsTyped ==
  ASSUME NEW k \in AllCalls, k # Idle
  PROVE  /\ k.by \in Partners
         /\ IF k.op \in CoupleOps THEN k.seen \in CoupleRows ELSE k.seen \in 1 .. MaxVersion
         /\ k.checked \in BOOLEAN
  BY DEF AllCalls, UpdateCalls, RespondCalls, MoveCalls, MeetingCalls, DecideCalls, AnswerCalls,
         CoupleCalls, CoupleOps, Idle

\* What a call remembers survives writes that count the version of the rows up.
CountedUp ==
  /\ \A e \in Events : /\ event[e].version <= event'[e].version
                       /\ event'[e].version = event[e].version => event'[e].on = event[e].on
  /\ \A w \in Wishes : /\ wish[w].version <= wish'[w].version
                       /\ wish'[w].version = wish[w].version => wish'[w] = wish[w]

LEMMA RemembersKept ==
  ASSUME TypeOK, TypeOK', CountedUp, NEW k \in AllCalls, Remembers(k)
  PROVE  Remembers(k)'
<1>0. ASSUME k.op \in {"update", "respond"}
      PROVE  k.seen <= event'[k.id].version /\ k.seen <= event[k.id].version /\ k.id \in Events
             /\ k.seen \in Nat
  <2>1. k.id \in Events /\ k.seen \in Nat
    BY <1>0, CallKinds DEF UpdateCalls, RespondCalls
  <2>2. event[k.id].version \in Nat /\ event'[k.id].version \in Nat
    BY <2>1 DEF TypeOK, EventRows
  <2> QED BY <1>0, <2>1, <2>2 DEF Remembers, CountedUp
<1>1. ASSUME k.op = "update"
      PROVE  /\ k.ask.redo /\ k.ask.lead # 0 => k.ask.lead < k.ask.on
             /\ event'[k.id].version = k.seen /\ ~k.ask.moved => k.ask.on = event'[k.id].on
  <2>1. k.id \in Events /\ k.seen \in Nat /\ k.seen <= event[k.id].version
    BY <1>0, <1>1
  <2>2. event[k.id].version \in Nat /\ event'[k.id].version \in Nat
    BY <2>1 DEF TypeOK, EventRows
  <2> QED BY <1>1, <2>1, <2>2 DEF Remembers, CountedUp
<1>2. ASSUME k.op = "move"
      PROVE  /\ k.seen <= wish'[k.id].version
             /\ wish'[k.id].version = k.seen => MayMove(k.by, wish'[k.id], k.ask)
  <2>1. k.id \in Wishes /\ k.seen \in Nat
    BY <1>2, CallKinds DEF MoveCalls
  <2>2. wish[k.id].version \in Nat /\ wish'[k.id].version \in Nat
    BY <2>1 DEF TypeOK, WishRows
  <2>3. k.seen <= wish[k.id].version /\ wish[k.id].version <= wish'[k.id].version
    BY <1>2, <2>1 DEF Remembers, CountedUp
  <2>4. ASSUME wish'[k.id].version = k.seen PROVE MayMove(k.by, wish'[k.id], k.ask)
    <3>1. wish[k.id].version = k.seen
      BY <2>1, <2>2, <2>3, <2>4
    <3>2. wish'[k.id] = wish[k.id]
      BY <2>1, <2>4, <3>1 DEF CountedUp
    <3>3. MayMove(k.by, wish[k.id], k.ask)
      BY <1>2, <3>1 DEF Remembers
    <3> QED BY <3>2, <3>3
  <2> QED BY <2>1, <2>2, <2>3, <2>4
<1>3. k.op \in CoupleOps => Unpublished(k.op, k.seen)
  BY DEF Remembers
<1> QED BY <1>0, <1>1, <1>2, <1>3 DEF Remembers

\* Every step leaves a client with its call, or without one.
LEMMA CallsRememberKept ==
  ASSUME TypeOK, TypeOK', CountedUp, CallsRemember,
         call' = call \/ \E q \in Requests : call' = [call EXCEPT ![q] = Idle]
  PROVE  CallsRemember'
<1>1. call' \in [Requests -> AllCalls] /\ \A r \in Requests : call'[r] = call[r] \/ call'[r] = Idle
  BY DEF CallsRemember, AllCalls
<1>2. ASSUME NEW r \in Requests PROVE Remembers(call[r])'
  <2>1. PICK k \in AllCalls : k = call'[r]
    BY <1>1
  <2>2. CASE k = Idle
    BY <2>1, <2>2 DEF Remembers, Idle, CoupleOps
  <2>3. CASE k # Idle
    <3>1. Remembers(k)
      BY <1>1, <2>1, <2>3 DEF CallsRemember
    <3>2. Remembers(k)'
      BY <3>1, RemembersKept
    <3> QED BY <2>1, <3>2 DEF Remembers
  <2> QED BY <2>2, <2>3
<1> QED BY <1>1, <1>2 DEF CallsRemember

\* The part of TypeOK that is about the calls.
LEMMA CallPart ==
  ASSUME call \in [Requests -> AllCalls]
  PROVE  \A q \in Requests : call[q] # Idle =>
           /\ call[q].by \in Partners
           /\ IF call[q].op \in CoupleOps THEN call[q].seen \in CoupleRows
              ELSE call[q].seen \in 1 .. MaxVersion
           /\ call[q].checked \in BOOLEAN
  BY CallsTyped

-----------------------------------------------------------------------------
\* A call that begins remembers what it has read.
LEMMA BeginKept ==
  ASSUME AgreeInv, NEW q \in Requests, NEW op, NEW p, NEW i, NEW seen, NEW ask,
         NEW checks \in SUBSET BOOLEAN, Begin(q, op, p, i, seen, ask, checks),
         UNCHANGED <<now, rows, due, at, history>>,
         \A checked \in BOOLEAN :
           LET k == [op |-> op, by |-> p, id |-> i, seen |-> seen, ask |-> ask, checked |-> checked]
           IN  k \in AllCalls /\ Remembers(k)
  PROVE  AgreeInv'
<1>1. PICK k \in AllCalls : call' = [call EXCEPT ![q] = k] /\ Remembers(k)
  BY DEF Begin
<1>2. call' \in [Requests -> AllCalls]
  BY <1>1 DEF AgreeInv, CallsRemember
<1>3. ASSUME NEW r \in Requests PROVE Remembers(call[r])'
  <2>1. PICK m : m = call'[r]
    OBVIOUS
  <2>2. Remembers(m)
    <3>1. CASE r = q
      BY <1>1, <2>1, <3>1 DEF AgreeInv, CallsRemember
    <3>2. CASE r # q
      <4>1. m = call[r]
        BY <1>1, <2>1, <3>2 DEF AgreeInv, CallsRemember
      <4> QED BY <4>1 DEF AgreeInv, CallsRemember
    <3> QED BY <3>1, <3>2
  <2>3. Remembers(m)'
    BY <2>2 DEF Remembers, rows
  <2> QED BY <2>1, <2>3 DEF Remembers
<1>4. CallsRemember'
  BY <1>2, <1>3 DEF CallsRemember
<1>5. TypeOK'
  <2>1. \A r \in Requests : call'[r] # Idle =>
           /\ call'[r].by \in Partners
           /\ IF call'[r].op \in CoupleOps THEN call'[r].seen \in CoupleRows
              ELSE call'[r].seen \in 1 .. MaxVersion
           /\ call'[r].checked \in BOOLEAN
    BY <1>2, CallsTyped
  <2> QED BY <2>1 DEF AgreeInv, RowsAgree, TypeOK, rows, history
<1>6. RowsAgree' /\ ReminderReachesChosen'
  BY <1>5 DEF AgreeInv, RowsAgree, ReminderFits, WishFits, CoupleFits, ReminderReachesChosen, rows,
              history
<1>7. FoundIsChosen' /\ NoMeetingSettled'
  BY DEF AgreeInv, FoundIsChosen, NoMeetingSettled, rows, history
<1> QED BY <1>4, <1>6, <1>7 DEF AgreeInv

\* The calls that begin.
LEMMA StartKept ==
  ASSUME AgreeInv, NEW q \in Requests, NEW p \in Partners, Start(q, p)
  PROVE  AgreeInv'
<1>0. TypeOK /\ MaxVersion \in Nat
  BY Numbers DEF AgreeInv, RowsAgree
<1>1. ASSUME NEW e \in Events, ReadForUpdate(q, p, e) PROVE AgreeInv'
  <2>1. PICK a \in Changes : /\ a.on > now
                             /\ IF a.redo THEN Settled(a)
                                ELSE ~a.moved /\ a.lead = event[e].lead /\ a.to = event[e].to
                             /\ ~a.moved => a.on = event[e].on
                             /\ Begin(q, "update", p, e, event[e].version, a, BOOLEAN)
    BY <1>1 DEF ReadForUpdate
  <2>2. PICK n : n = event[e].version
    OBVIOUS
  <2>3. n \in 1 .. MaxVersion /\ n \in Nat
    BY <1>0, <1>1, <2>2 DEF ReadForUpdate, Open, TypeOK, EventRows
  <2>4. a.redo /\ a.lead # 0 => a.lead < a.on
    <3>1. a.lead \in Nat /\ a.on \in Nat /\ now \in Nat
      BY <1>0, Numbers DEF Changes, TypeOK
    <3> QED BY <2>1, <3>1 DEF Settled
  <2>5. ASSUME NEW b \in BOOLEAN, NEW k,
               k = [op |-> "update", by |-> p, id |-> e, seen |-> n, ask |-> a, checked |-> b]
        PROVE  k \in AllCalls /\ Remembers(k)
    <3>1. k \in AllCalls
      BY <2>3, <2>5 DEF AllCalls, UpdateCalls
    <3> QED BY <2>1, <2>2, <2>3, <2>4, <2>5, <3>1 DEF Remembers, CoupleOps
  <2>6. Begin(q, "update", p, e, n, a, BOOLEAN) /\ UNCHANGED <<now, rows, due, at, history>>
    BY <1>1, <2>1, <2>2 DEF ReadForUpdate
  <2> QED BY <2>5, <2>6, BeginKept
<1>2. ASSUME NEW e \in Events, ReadForResponse(q, p, e) PROVE AgreeInv'
  <2>2. PICK n : n = event[e].version
    OBVIOUS
  <2>3. n \in 1 .. MaxVersion /\ n <= n
    BY <1>0, <1>2, <2>2 DEF ReadForResponse, Open, TypeOK, EventRows
  <2>4. PICK s \in {"CONFIRMED", "REJECTED"} : Begin(q, "respond", p, e, n, s, {FALSE})
    BY <1>2, <2>2 DEF ReadForResponse
  <2>5. ASSUME NEW b \in BOOLEAN, NEW k,
               k = [op |-> "respond", by |-> p, id |-> e, seen |-> n, ask |-> s, checked |-> b]
        PROVE  k \in AllCalls /\ Remembers(k)
    BY <2>2, <2>3, <2>5 DEF AllCalls, RespondCalls, Remembers, CoupleOps
  <2>6. UNCHANGED <<now, rows, due, at, history>>
    BY <1>2 DEF ReadForResponse
  <2> QED BY <2>4, <2>5, <2>6, BeginKept
<1>3. ASSUME NEW w \in Wishes, ReadForMove(q, p, w) PROVE AgreeInv'
  <2>1. PICK move \in Moves : /\ MayMove(p, wish[w], move)
                              /\ Begin(q, "move", p, w, wish[w].version, move, BOOLEAN)
    BY <1>3 DEF ReadForMove, Moves
  <2>2. PICK n : n = wish[w].version
    OBVIOUS
  <2>3. n \in 1 .. MaxVersion /\ n \in Nat
    BY <1>0, <1>3, <2>2 DEF ReadForMove, Open, TypeOK, WishRows
  <2>5. ASSUME NEW b \in BOOLEAN, NEW k,
               k = [op |-> "move", by |-> p, id |-> w, seen |-> n, ask |-> move, checked |-> b]
        PROVE  k \in AllCalls /\ Remembers(k)
    <3>1. k \in AllCalls
      BY <2>3, <2>5 DEF AllCalls, MoveCalls
    <3>2. k.op = "move" /\ k.by = p /\ k.id = w /\ k.seen = n /\ k.ask = move
      BY <2>5
    <3>3. MayMove(k.by, wish[k.id], k.ask)
      BY <2>1, <3>2
    <3>4. k.seen <= wish[k.id].version
      BY <2>2, <2>3, <3>2
    <3>5. k.op \notin {"update", "respond"} \union CoupleOps
      BY <3>2 DEF CoupleOps
    <3> HIDE DEF CoupleOps
    <3> QED BY ONLY <3>1, <3>3, <3>4, <3>5 DEF Remembers
  <2>6. Begin(q, "move", p, w, n, move, BOOLEAN) /\ UNCHANGED <<now, rows, due, at, history>>
    BY <1>3, <2>1, <2>2 DEF ReadForMove
  <2> QED BY <2>5, <2>6, BeginKept
<1>4. ASSUME NEW m \in Meetings, ReadMeeting(q, p, m) PROVE AgreeInv'
  <2>1. PICK s \in {"SCHEDULED", "COMPLETED", "CANCELLED"} :
               Begin(q, "meeting", p, m, meeting[m].version, s, {TRUE})
    BY <1>4 DEF ReadMeeting
  <2>2. PICK n : n = meeting[m].version
    OBVIOUS
  <2>3. n \in 1 .. MaxVersion
    BY <1>0, <1>4, <2>2 DEF ReadMeeting, Open, TypeOK, MeetingRows
  <2>5. ASSUME NEW b \in BOOLEAN, NEW k,
               k = [op |-> "meeting", by |-> p, id |-> m, seen |-> n, ask |-> s, checked |-> b]
        PROVE  k \in AllCalls /\ Remembers(k)
    BY <2>3, <2>5 DEF AllCalls, MeetingCalls, Remembers, CoupleOps
  <2>6. Begin(q, "meeting", p, m, n, s, {TRUE}) /\ UNCHANGED <<now, rows, due, at, history>>
    BY <1>4, <2>1, <2>2 DEF ReadMeeting
  <2> QED BY <2>5, <2>6, BeginKept
<1>5. ASSUME NEW m \in Meetings, ReadForDecision(q, p, m) PROVE AgreeInv'
  <2>2. PICK n : n = meeting[m].version
    OBVIOUS
  <2>3. n \in 1 .. MaxVersion
    BY <1>0, <1>5, <2>2 DEF ReadForDecision, TypeOK, MeetingRows
  <2>5. ASSUME NEW b \in BOOLEAN, NEW k,
               k = [op |-> "decide", by |-> p, id |-> m, seen |-> n, ask |-> "PROPOSED", checked |-> b]
        PROVE  k \in AllCalls /\ Remembers(k)
    BY <2>3, <2>5 DEF AllCalls, DecideCalls, Remembers, CoupleOps
  <2>6. Begin(q, "decide", p, m, n, "PROPOSED", {FALSE}) /\ UNCHANGED <<now, rows, due, at, history>>
    BY <1>5, <2>2 DEF ReadForDecision
  <2> QED BY <2>5, <2>6, BeginKept
<1>6. ASSUME NEW m \in Meetings, ReadForAnswer(q, p, m) PROVE AgreeInv'
  <2>1. PICK s \in {"AGREED", "REJECTED"} : Begin(q, "answer", p, m, 1, s, {FALSE})
    BY <1>6 DEF ReadForAnswer
  <2>3. 1 \in 1 .. MaxVersion
    BY Numbers
  <2>5. ASSUME NEW b \in BOOLEAN, NEW k,
               k = [op |-> "answer", by |-> p, id |-> m, seen |-> 1, ask |-> s, checked |-> b]
        PROVE  k \in AllCalls /\ Remembers(k)
    BY <2>3, <2>5 DEF AllCalls, AnswerCalls, Remembers, CoupleOps
  <2>6. UNCHANGED <<now, rows, due, at, history>>
    BY <1>6 DEF ReadForAnswer
  <2> QED BY <2>1, <2>5, <2>6, BeginKept
<1>7. ASSUME NEW c \in Couples, ReadCouple(q, p, c) PROVE AgreeInv'
  <2>1. PICK op \in CoupleOps, t \in Texts :
               /\ Unpublished(op, couple[c])
               /\ Begin(q, op, p, c, couple[c], t, {FALSE})
    BY <1>7 DEF ReadCouple
  <2>2. PICK s : s = couple[c]
    OBVIOUS
  <2>3. s \in CoupleRows
    BY <1>0, <2>2 DEF TypeOK
  <2>5. ASSUME NEW b \in BOOLEAN, NEW k,
               k = [op |-> op, by |-> p, id |-> c, seen |-> s, ask |-> t, checked |-> b]
        PROVE  k \in AllCalls /\ Remembers(k)
    <3>1. k \in AllCalls
      BY <2>3, <2>5 DEF AllCalls, CoupleCalls
    <3>2. k.op \notin {"update", "respond", "move"}
      BY <2>5 DEF CoupleOps
    <3> QED BY <2>1, <2>2, <2>5, <3>1, <3>2 DEF Remembers
  <2>6. Begin(q, op, p, c, s, t, {FALSE}) /\ UNCHANGED <<now, rows, due, at, history>>
    BY <1>7, <2>1, <2>2 DEF ReadCouple
  <2> QED BY <2>5, <2>6, BeginKept
<1> QED BY <1>1, <1>2, <1>3, <1>4, <1>5, <1>6, <1>7 DEF Start

-----------------------------------------------------------------------------
\* The row of one event is written, and history with it.
LEMMA EventWritten ==
  ASSUME AgreeInv, NEW e \in Events, NEW r \in EventRows,
         event' = [event EXCEPT ![e] = r],
         event[e].version <= r.version, r.version = event[e].version => r.on = event[e].on,
         UNCHANGED <<now, wish, meeting, couple, decision, at, given, frozen>>,
         call' = call \/ \E q \in Requests : call' = [call EXCEPT ![q] = Idle],
         due' = due \/ \E w \in Workers, f \in [id : Events, to : Choices] :
                          due' = [due EXCEPT ![w] = @ \ {f}],
         blind' = blind \/ blind' = blind \union {e},
         tardy' = tardy \/ tardy' = tardy \union {e},
         astray' \subseteq Events, astray' \subseteq tardy',
         e \in blind' \/ r.version = 0 \/ r.at = IF r.lead = 0 THEN 0 ELSE r.on - r.lead,
         e \in tardy' \/ r.at \notin 1 .. now \/ (r.at = event[e].at /\ r.to = event[e].to)
  PROVE  AgreeInv'
<1>0. TypeOK /\ CallsRemember /\ FoundIsChosen /\ NoMeetingSettled
  BY DEF AgreeInv, RowsAgree
<1>1. /\ event' \in [Events -> EventRows] /\ event'[e] = r
      /\ \A x \in Events \ {e} : event'[x] = event[x]
  BY <1>0 DEF TypeOK
<1>2. due' \in [Workers -> SUBSET [id : Events, to : Choices]] /\ \A w \in Workers : due'[w] \subseteq due[w]
  BY <1>0 DEF TypeOK
<1>3. call' \in [Requests -> AllCalls]
  BY <1>0 DEF CallsRemember, AllCalls
<1>4. TypeOK'
  <2>1. \A q \in Requests : call'[q] # Idle =>
           /\ call'[q].by \in Partners
           /\ IF call'[q].op \in CoupleOps THEN call'[q].seen \in CoupleRows
              ELSE call'[q].seen \in 1 .. MaxVersion
           /\ call'[q].checked \in BOOLEAN
    BY <1>3, CallsTyped
  <2> QED BY <1>0, <1>1, <1>2, <2>1 DEF TypeOK
<1>5. CountedUp
  BY <1>0, <1>1 DEF CountedUp, TypeOK, EventRows, WishRows
<1>6. CallsRemember'
  BY <1>0, <1>4, <1>5, CallsRememberKept
<1>7. RowsAgree'
  <2>1. ASSUME NEW x \in Events \ blind', event'[x].version > 0
        PROVE  event'[x].at = IF event'[x].lead = 0 THEN 0 ELSE event'[x].on - event'[x].lead
    <3>1. CASE x = e
      BY <1>1, <2>1, <3>1
    <3>2. CASE x # e
      BY <1>1, <2>1, <3>2 DEF AgreeInv, RowsAgree, ReminderFits
    <3> QED BY <3>1, <3>2
  <2>2. \A x \in Events \ blind' : ReminderFits(x)'
    BY <2>1 DEF ReminderFits
  <2>3. /\ \A w \in Wishes \ blind' : WishFits(w)'
        /\ \A c \in Couples \ blind' : CoupleFits(c)'
    BY DEF AgreeInv, RowsAgree, WishFits, CoupleFits
  <2> QED BY <1>4, <2>2, <2>3 DEF RowsAgree
<1>8. FoundIsChosen'
  <2>1. ASSUME NEW w \in Workers, NEW f \in due'[w]
        PROVE  f.id \in tardy' \/ event'[f.id].at \notin 1 .. at[w] \/ f.to = event'[f.id].to
    <3>1. f \in due[w] /\ f.id \in Events
      BY <1>2, <2>1
    <3>2. f.id \in tardy \/ event[f.id].at \notin 1 .. at[w] \/ f.to = event[f.id].to
      BY <1>0, <3>1 DEF FoundIsChosen
    <3>3. CASE f.id # e
      BY <1>1, <3>1, <3>2, <3>3
    <3>4. CASE f.id = e
      <4>1. at[w] <= now /\ at[w] \in Nat /\ now \in Nat /\ r.at \in Nat
        BY <1>0, Numbers DEF FoundIsChosen, TypeOK, EventRows
      <4>2. r.at \in 1 .. at[w] => r.at \in 1 .. now
        BY <4>1
      <4> QED BY <1>1, <3>2, <3>4, <4>2
    <3> QED BY <3>3, <3>4
  <2> QED BY <1>0, <2>1 DEF FoundIsChosen
<1> QED BY <1>0, <1>6, <1>7, <1>8 DEF AgreeInv, ReminderReachesChosen, NoMeetingSettled

\* A reminder that is settled lies among the moments.
LEMMA RemindTime ==
  ASSUME NEW a \in Changes, a.lead # 0 => a.lead < a.on
  PROVE  /\ RemindAt(a) \in Moments
         /\ RemindAt(a) = IF a.lead = 0 THEN 0 ELSE a.on - a.lead
<1>1. a.lead \in Nat /\ a.on \in 0 .. Horizon /\ Horizon \in Nat
  BY AgreementsAssumption DEF Changes, Moments
<1> QED BY <1>1 DEF RemindAt, Moments

LEMMA CreateEventKept ==
  ASSUME AgreeInv, NEW e \in Events, NEW p \in Partners, CreateEvent(e, p)
  PROVE  AgreeInv'
<1>0. TypeOK /\ ReminderReachesChosen
  BY DEF AgreeInv, RowsAgree
<1>1. PICK a \in Changes : /\ a.redo /\ a.moved /\ a.on > now /\ Settled(a)
                           /\ event' = [event EXCEPT ![e] = [by |-> p, status |-> "PROPOSED",
                                on |-> a.on, lead |-> a.lead, at |-> RemindAt(a), to |-> a.to,
                                sent |-> FALSE, gone |-> FALSE, version |-> 1]]
  BY DEF CreateEvent
<1>2. now = 0 /\ event[e].version = 0
  BY DEF CreateEvent, MayCreate
<1>3. a.lead # 0 => a.lead < a.on
  <2>1. a.lead \in Nat /\ a.on \in Nat
    BY Numbers DEF Changes
  <2> QED BY <1>1, <1>2, <2>1 DEF Settled
<1>4. PICK r : r = [by |-> p, status |-> "PROPOSED", on |-> a.on, lead |-> a.lead,
                    at |-> RemindAt(a), to |-> a.to, sent |-> FALSE, gone |-> FALSE, version |-> 1]
  OBVIOUS
<1>5. r \in EventRows
  <2>1. 1 \in 0 .. MaxVersion /\ p \in Authors
    BY Numbers DEF Authors
  <2> QED BY <1>3, <1>4, <2>1, RemindTime DEF EventRows, Changes
<1>6. r.at = IF r.lead = 0 THEN 0 ELSE r.on - r.lead
  BY <1>3, <1>4, RemindTime
<1>7. r.at \notin 1 .. now
  BY <1>2
<1>8. r.version = 1 /\ event' = [event EXCEPT ![e] = r]
  BY <1>1, <1>4
<1>9. astray \subseteq Events /\ astray \subseteq tardy
  BY <1>0 DEF TypeOK, ReminderReachesChosen
<1>10. /\ UNCHANGED <<now, wish, meeting, couple, decision, at, given, frozen>>
       /\ call' = call /\ due' = due /\ blind' = blind /\ tardy' = tardy /\ astray' = astray
  BY DEF CreateEvent, history
<1>11. event[e].version <= r.version /\ r.version # event[e].version
  BY <1>2, <1>8
<1>12. astray' \subseteq Events /\ astray' \subseteq tardy'
  BY <1>9, <1>10
<1> HIDE DEF RemindAt
<1> QED BY <1>5, <1>6, <1>7, <1>8, <1>10, <1>11, <1>12, EventWritten

LEMMA UpdateEventKept ==
  ASSUME AgreeInv, NEW q \in Requests, UpdateEvent(q)
  PROVE  AgreeInv'
<1>0. TypeOK /\ ReminderReachesChosen /\ CallsRemember
  BY DEF AgreeInv, RowsAgree
<1>1. PICK c \in AllCalls : c = call[q]
  BY <1>0 DEF CallsRemember
<1>2. c \in UpdateCalls /\ c.op = "update" /\ Remembers(c)
  BY <1>0, <1>1, CallKinds DEF UpdateEvent, CallsRemember
<1>3. PICK e \in Events : e = c.id
  BY <1>2 DEF UpdateCalls
<1>4. PICK a \in Changes : a = c.ask
  BY <1>2 DEF UpdateCalls
<1>5. PICK row \in EventRows : row = event[e]
  BY <1>0 DEF TypeOK
<1>6. row.version < MaxVersion /\ row.version \in Nat /\ MaxVersion \in Nat
  BY <1>1, <1>3, <1>5, Numbers DEF UpdateEvent, EventRows
<1>7. UNCHANGED <<now, wish, meeting, couple, decision, due, at, astray, given, frozen>>
      /\ call' = [call EXCEPT ![q] = Idle]
  BY DEF UpdateEvent, End
<1>8. astray \subseteq Events /\ astray \subseteq tardy
  BY <1>0 DEF TypeOK, ReminderReachesChosen
<1>a. astray' \subseteq Events /\ (tardy \subseteq tardy' => astray' \subseteq tardy')
  BY <1>7, <1>8
<1>b. due' = due /\ \E x \in Requests : call' = [call EXCEPT ![x] = Idle]
  BY <1>7
<1>9. a.redo => (a.lead # 0 => a.lead < a.on)
  BY <1>2, <1>4 DEF Remembers
<1>10. CASE ~row.gone /\ Holds(q, row)
  <2>1. /\ event' = [event EXCEPT ![e] = Updated(row, a)]
        /\ blind' = IF ~c.checked /\ Overlooks(q, row) THEN blind \union {e} ELSE blind
        /\ tardy' = IF a.redo /\ RemindAt(a) \in 1 .. now THEN tardy \union {e} ELSE tardy
    BY <1>1, <1>3, <1>4, <1>5, <1>10 DEF UpdateEvent
  <2>2. PICK r : r = Updated(row, a)
    OBVIOUS
  <2>3. row.version + 1 \in 0 .. MaxVersion
    BY <1>6
  <2>a. row.version <= row.version + 1 /\ row.version + 1 # row.version
    BY <1>6
  <2>b. /\ blind' = blind \/ blind' = blind \union {e}
        /\ tardy' = tardy \/ tardy' = tardy \union {e}
        /\ tardy \subseteq tardy'
    BY <2>1
  <2>4. CASE ~a.redo
    <3>1. r = [row EXCEPT !.status = "PROPOSED", !.version = @ + 1]
      BY <2>2, <2>4 DEF Updated
    <3>2. r \in EventRows /\ r.version = row.version + 1 /\ r.at = row.at /\ r.to = row.to
          /\ r.lead = row.lead /\ r.on = row.on
      BY <2>3, <3>1 DEF EventRows
    <3>3. e \in blind' \/ e \notin blind
      BY <2>1
    <3>4. e \in blind' \/ r.version = 0 \/ r.at = IF r.lead = 0 THEN 0 ELSE r.on - r.lead
      <4>1. e \in blind \/ ReminderFits(e) \/ e \notin Events
        BY DEF AgreeInv, RowsAgree
      <4>2. CASE row.version > 0
        BY <1>5, <2>1, <3>2, <4>1, <4>2 DEF ReminderFits
      <4>3. CASE row.version = 0
        <5>1. c.seen <= row.version /\ c.seen \in 1 .. MaxVersion
          BY <1>2, <1>3, <1>5 DEF Remembers, UpdateCalls
        <5> QED BY <1>6, <4>3, <5>1
      <4> QED BY <1>6, <4>2, <4>3
    <3> QED BY <1>5, <1>7, <1>a, <1>b, <2>a, <2>b, <2>1, <2>2, <3>2, <3>4, EventWritten
  <2>5. CASE a.redo
    <3>1. PICK on : on = IF a.moved THEN a.on ELSE row.on
      OBVIOUS
    <3>2. on \in Moments /\ RemindAt(a) \in Moments /\ a.lead \in Leads /\ a.to \in Choices
      BY <1>9, <2>5, <3>1, RemindTime DEF Changes, EventRows
    <3>3. /\ r \in EventRows /\ r.version = row.version + 1 /\ r.at = RemindAt(a)
          /\ r.lead = a.lead /\ r.on = on /\ r.to = a.to
      <4>1. PICK s : s = [row EXCEPT !.status = "PROPOSED", !.version = @ + 1]
        OBVIOUS
      <4>2. s \in EventRows /\ s.version = row.version + 1 /\ s.on = row.on
        BY <2>3, <4>1 DEF EventRows
      <4>3. r = [s EXCEPT !.on = IF a.moved THEN a.on ELSE @, !.lead = a.lead,
                          !.at = RemindAt(a), !.to = a.to, !.sent = FALSE]
        BY <2>2, <2>5, <4>1 DEF Updated
      <4>4. r = [s EXCEPT !.on = on, !.lead = a.lead, !.at = RemindAt(a), !.to = a.to, !.sent = FALSE]
        BY <3>1, <4>2, <4>3
      <4> QED BY <3>2, <4>2, <4>4 DEF EventRows
    <3>4. e \in blind' \/ r.at = IF r.lead = 0 THEN 0 ELSE r.on - r.lead
      <4>1. CASE e \notin blind'
        <5>1. row.version = c.seen
          BY <1>1, <1>10, <2>1, <4>1 DEF Holds, Overlooks
        <5>2. on = a.on
          BY <1>2, <1>3, <1>4, <1>5, <3>1, <5>1 DEF Remembers
        <5> QED BY <1>9, <2>5, <3>3, <5>2, RemindTime
      <4> QED BY <4>1
    <3>5. e \in tardy' \/ r.at \notin 1 .. now
      BY <2>1, <2>5, <3>3
    <3> QED BY <1>5, <1>7, <1>a, <1>b, <2>a, <2>b, <2>1, <2>2, <3>3, <3>4, <3>5, EventWritten
  <2> QED BY <2>4, <2>5
<1>11. CASE ~(~row.gone /\ Holds(q, row))
  <2>1. UNCHANGED <<event, blind, tardy>>
    BY <1>1, <1>3, <1>5, <1>11 DEF UpdateEvent
  <2>2. event' = [event EXCEPT ![e] = row]
    BY <1>0, <1>5, <2>1 DEF TypeOK
  <2>3. e \in blind' \/ row.version = 0 \/ row.at = IF row.lead = 0 THEN 0 ELSE row.on - row.lead
    BY <1>5, <1>6, <2>1 DEF AgreeInv, RowsAgree, ReminderFits
  <2>4. row.version <= row.version /\ tardy \subseteq tardy'
    BY <1>6, <2>1
  <2> QED BY <1>5, <1>7, <1>a, <1>b, <2>1, <2>2, <2>3, <2>4, EventWritten
<1> QED BY <1>10, <1>11

\* A response, a removal or a reminder leaves date, reminder and recipients.
LEMMA EventTouched ==
  ASSUME AgreeInv, NEW e \in Events, NEW r \in EventRows,
         event' = [event EXCEPT ![e] = r],
         event[e].version > 0, event[e].version <= r.version,
         r.on = event[e].on, r.lead = event[e].lead, r.at = event[e].at, r.to = event[e].to,
         UNCHANGED <<now, wish, meeting, couple, decision, at, blind, tardy, given, frozen>>,
         call' = call \/ \E q \in Requests : call' = [call EXCEPT ![q] = Idle],
         due' = due \/ \E w \in Workers, f \in [id : Events, to : Choices] :
                          due' = [due EXCEPT ![w] = @ \ {f}],
         astray' \subseteq Events, astray' \subseteq tardy
  PROVE  AgreeInv'
<1>1. e \in blind \/ r.at = IF r.lead = 0 THEN 0 ELSE r.on - r.lead
  BY DEF AgreeInv, RowsAgree, ReminderFits
<1>2. blind' = blind /\ tardy' = tardy /\ astray' \subseteq tardy'
  OBVIOUS
<1> QED BY <1>1, <1>2, EventWritten

LEMMA RespondKept ==
  ASSUME AgreeInv, NEW q \in Requests, Respond(q)
  PROVE  AgreeInv'
<1>0. TypeOK /\ ReminderReachesChosen /\ CallsRemember /\ astray \subseteq Events /\ astray \subseteq tardy
  BY DEF AgreeInv, RowsAgree, TypeOK, ReminderReachesChosen
<1>1. PICK c \in RespondCalls : c = call[q]
  BY <1>0, CallKinds DEF Respond, CallsRemember
<1>2. c.id \in Events /\ c.ask \in {"CONFIRMED", "REJECTED"} /\ event[c.id] \in EventRows
  BY <1>0 DEF RespondCalls, TypeOK
<1>3. PICK row \in EventRows : row = event[c.id]
  BY <1>2
<1>4. UNCHANGED <<now, wish, meeting, couple, decision, at, due, blind, tardy, astray, given, frozen>>
      /\ call' = [call EXCEPT ![q] = Idle] /\ row.version < MaxVersion
  BY <1>1, <1>3 DEF Respond, End, history
<1>a. c.seen <= row.version /\ c.seen \in 1 .. MaxVersion /\ row.version \in Nat
  BY <1>0, <1>1, <1>3 DEF CallsRemember, Remembers, RespondCalls, EventRows
<1>b. row.version > 0 /\ row.version <= row.version
  BY <1>a
<1>5. CASE event' = event
  <2>1. event' = [event EXCEPT ![c.id] = row]
    BY <1>0, <1>2, <1>3, <1>5 DEF TypeOK
  <2> QED BY <1>0, <1>2, <1>3, <1>4, <1>b, <2>1, EventTouched
<1>6. CASE event' # event
  <2>1. PICK r : r = [row EXCEPT !.status = c.ask, !.version = @ + 1]
    OBVIOUS
  <2>2. event' = [event EXCEPT ![c.id] = r]
    BY <1>0, <1>1, <1>2, <1>3, <1>6, <2>1 DEF Respond, TypeOK, EventRows
  <2>3. row.version + 1 \in 0 .. MaxVersion /\ row.version <= row.version + 1
    BY <1>4, Numbers DEF EventRows
  <2>4. /\ r \in EventRows /\ r.version = row.version + 1
        /\ r.on = row.on /\ r.lead = row.lead /\ r.at = row.at /\ r.to = row.to
    BY <1>2, <2>1, <2>3 DEF EventRows
  <2> QED BY <1>0, <1>2, <1>3, <1>4, <1>b, <2>2, <2>3, <2>4, EventTouched
<1> QED BY <1>5, <1>6

LEMMA RemoveEventKept ==
  ASSUME AgreeInv, NEW e \in Events, RemoveEvent(e)
  PROVE  AgreeInv'
<1>0. TypeOK /\ ReminderReachesChosen /\ astray \subseteq Events /\ astray \subseteq tardy
  BY DEF AgreeInv, RowsAgree, TypeOK, ReminderReachesChosen
<1>1. PICK row \in EventRows : row = event[e]
  BY <1>0 DEF TypeOK
<1>2. PICK r : r = [row EXCEPT !.gone = TRUE, !.version = @ + 1]
  OBVIOUS
<1>3. row.version > 0 /\ row.version + 1 \in 0 .. MaxVersion /\ row.version <= row.version + 1
  BY <1>1, Numbers DEF RemoveEvent, Open, EventRows
<1>4. event' = [event EXCEPT ![e] = r]
  BY <1>0, <1>1, <1>2 DEF RemoveEvent, TypeOK, EventRows
<1>5. /\ r \in EventRows /\ r.version = row.version + 1
      /\ r.on = row.on /\ r.lead = row.lead /\ r.at = row.at /\ r.to = row.to
  BY <1>2, <1>3 DEF EventRows
<1>6. /\ UNCHANGED <<now, wish, meeting, couple, decision, at, blind, tardy, given, frozen>>
      /\ call' = call /\ due' = due /\ astray' = astray
  BY DEF RemoveEvent, history
<1> QED BY <1>0, <1>1, <1>3, <1>4, <1>5, <1>6, EventTouched

\* The worker notifies the recipients it has found.
LEMMA RemindKept ==
  ASSUME AgreeInv, NEW w \in Workers, Remind(w)
  PROVE  AgreeInv'
<1>0. TypeOK /\ ReminderReachesChosen /\ FoundIsChosen /\ astray \subseteq Events /\ astray \subseteq tardy
  BY DEF AgreeInv, RowsAgree, TypeOK, ReminderReachesChosen
<1>1. PICK f \in due[w] :
        /\ due' = [due EXCEPT ![w] = @ \ {f}]
        /\ IF Remindable(f.id, at[w])
           THEN /\ event' = [event EXCEPT ![f.id].sent = TRUE]
                /\ astray' = IF f.to = event[f.id].to THEN astray ELSE astray \union {f.id}
           ELSE UNCHANGED <<event, astray>>
  BY DEF Remind
<1>2. f \in [id : Events, to : Choices] /\ f.id \in Events
  BY <1>0 DEF TypeOK
<1>3. PICK row \in EventRows : row = event[f.id]
  BY <1>0, <1>2 DEF TypeOK
<1>4. UNCHANGED <<now, wish, meeting, couple, decision, at, blind, tardy, given, frozen>> /\ call' = call
  BY DEF Remind
<1>5. CASE Remindable(f.id, at[w])
  <2>1. row.at \in 1 .. at[w]
    BY <1>3, <1>5 DEF Remindable
  <2>2. astray' \subseteq Events /\ astray' \subseteq tardy
    <3>1. f.id \in tardy \/ f.to = event[f.id].to
      BY <1>0, <1>3, <2>1 DEF FoundIsChosen
    <3> QED BY <1>0, <1>1, <1>2, <1>5, <3>1
  <2>3. PICK r : r = [row EXCEPT !.sent = TRUE]
    OBVIOUS
  <2>4. event' = [event EXCEPT ![f.id] = r]
    BY <1>1, <1>3, <1>5, <2>3
  <2>5. /\ r \in EventRows /\ r.version = row.version
        /\ r.on = row.on /\ r.lead = row.lead /\ r.at = row.at /\ r.to = row.to
    BY <2>3 DEF EventRows
  <2>6. row.version <= row.version
    BY Numbers DEF EventRows
  <2>7. f.id \in blind \/ r.version = 0 \/ r.at = IF r.lead = 0 THEN 0 ELSE r.on - r.lead
    <3>1. row.version = 0 \/ row.version > 0
      BY Numbers DEF EventRows
    <3> QED BY <1>2, <1>3, <2>5, <3>1 DEF AgreeInv, RowsAgree, ReminderFits
  <2>8. blind' = blind /\ tardy' = tardy /\ astray' \subseteq tardy'
    BY <1>4, <2>2
  <2> QED BY <1>1, <1>2, <1>3, <1>4, <2>2, <2>4, <2>5, <2>6, <2>7, <2>8, EventWritten
<1>6. CASE ~Remindable(f.id, at[w])
  <2>1. event' = [event EXCEPT ![f.id] = row] /\ astray' = astray
    BY <1>0, <1>1, <1>3, <1>6 DEF TypeOK
  <2>6. row.version <= row.version
    BY Numbers DEF EventRows
  <2>7. f.id \in blind \/ row.version = 0 \/ row.at = IF row.lead = 0 THEN 0 ELSE row.on - row.lead
    <3>1. row.version = 0 \/ row.version > 0
      BY Numbers DEF EventRows
    <3> QED BY <1>2, <1>3, <3>1 DEF AgreeInv, RowsAgree, ReminderFits
  <2>8. blind' = blind /\ tardy' = tardy /\ astray' \subseteq tardy'
    BY <1>0, <1>4, <2>1
  <2> QED BY <1>0, <1>1, <1>2, <1>3, <1>4, <2>1, <2>6, <2>7, <2>8, EventWritten
<1> QED BY <1>5, <1>6

\* The clock, and the search of a worker.
LEMMA ClockKept ==
  ASSUME AgreeInv, Advance \/ \E w \in Workers : SearchReminders(w)
  PROVE  AgreeInv'
<1>0. TypeOK
  BY DEF AgreeInv, RowsAgree
<1>1. CASE Advance
  <2>1. now \in Nat /\ now' = now + 1 /\ now' \in Moments
    BY <1>0, <1>1, AgreementsAssumption DEF Advance, TypeOK, Moments
  <2>2. UNCHANGED <<rows, call, due, at, history>>
    BY <1>1 DEF Advance
  <2>3. RowsAgree' /\ ReminderReachesChosen' /\ NoMeetingSettled'
    BY <2>1, <2>2 DEF AgreeInv, RowsAgree, TypeOK, ReminderFits, WishFits, CoupleFits,
                      ReminderReachesChosen, NoMeetingSettled, rows, history
  <2>4. CallsRemember'
    BY <2>2 DEF AgreeInv, CallsRemember, Remembers, rows
  <2>5. FoundIsChosen'
    <3>1. \A w \in Workers : at[w] <= now /\ at[w] \in Nat
      BY <1>0, Numbers DEF AgreeInv, FoundIsChosen, TypeOK
    <3>2. \A w \in Workers : at[w] <= now'
      BY <2>1, <3>1
    <3> QED BY <2>2, <3>2 DEF AgreeInv, FoundIsChosen, rows, history
  <2> QED BY <2>3, <2>4, <2>5 DEF AgreeInv
<1>2. ASSUME NEW w \in Workers, SearchReminders(w) PROVE AgreeInv'
  <2>1. /\ at' = [at EXCEPT ![w] = now]
        /\ due' = [due EXCEPT ![w] = {[id |-> e, to |-> event[e].to] :
                                        e \in {x \in Events : Remindable(x, now)}}]
        /\ UNCHANGED <<now, rows, call, history>>
    BY <1>2 DEF SearchReminders, Found
  <2>2. at' \in [Workers -> Moments] /\ due' \in [Workers -> SUBSET [id : Events, to : Choices]]
    <3>1. {[id |-> e, to |-> event[e].to] : e \in {x \in Events : Remindable(x, now)}}
            \in SUBSET [id : Events, to : Choices]
      BY <1>0 DEF TypeOK, EventRows
    <3> QED BY <1>0, <2>1, <3>1 DEF TypeOK
  <2>3. TypeOK'
    BY <1>0, <2>1, <2>2 DEF TypeOK, rows, history
  <2>4. RowsAgree' /\ ReminderReachesChosen' /\ NoMeetingSettled'
    BY <2>1, <2>3 DEF AgreeInv, RowsAgree, ReminderFits, WishFits, CoupleFits,
                      ReminderReachesChosen, NoMeetingSettled, rows, history
  <2>5. CallsRemember'
    BY <2>1 DEF AgreeInv, CallsRemember, Remembers, rows
  <2>6. FoundIsChosen'
    <3>1. ASSUME NEW x \in Workers
          PROVE  /\ at'[x] <= now
                 /\ \A f \in due'[x] : f.id \in tardy \/ event[f.id].at \notin 1 .. at'[x]
                                       \/ f.to = event[f.id].to
      <4>1. CASE x = w
        <5>1. at'[x] = now /\ now <= now
          BY <1>0, <2>1, <4>1, Numbers DEF TypeOK
        <5>2. \A f \in due'[x] : f.to = event[f.id].to
          BY <1>0, <2>1, <4>1 DEF TypeOK
        <5> QED BY <5>1, <5>2
      <4>2. CASE x # w
        <5>1. at'[x] = at[x] /\ due'[x] = due[x]
          BY <1>0, <2>1, <4>2 DEF TypeOK
        <5> QED BY <5>1 DEF AgreeInv, FoundIsChosen
      <4> QED BY <4>1, <4>2
    <3> QED BY <2>1, <3>1 DEF FoundIsChosen, rows, history
  <2> QED BY <2>4, <2>5, <2>6 DEF AgreeInv
<1> QED BY <1>1, <1>2

-----------------------------------------------------------------------------
\* The row of one wish is written.
LEMMA WishWritten ==
  ASSUME AgreeInv, NEW w \in Wishes, NEW r \in WishRows,
         wish' = [wish EXCEPT ![w] = r],
         wish[w].version <= r.version, r.version = wish[w].version => r = wish[w],
         UNCHANGED <<now, event, meeting, couple, decision, due, at, tardy, astray, given, frozen>>,
         call' = call \/ \E q \in Requests : call' = [call EXCEPT ![q] = Idle],
         blind' = blind \/ blind' = blind \union {w},
         \/ w \in blind'
         \/ /\ r.realized => r.approval = "ACCEPTED"
            /\ r.realized = (r.confirmation \in {"PENDING", "ACCEPTED"})
  PROVE  AgreeInv'
<1>0. TypeOK /\ CallsRemember /\ FoundIsChosen /\ NoMeetingSettled /\ ReminderReachesChosen
  BY DEF AgreeInv, RowsAgree
<1>1. /\ wish' \in [Wishes -> WishRows] /\ wish'[w] = r
      /\ \A x \in Wishes \ {w} : wish'[x] = wish[x]
  BY <1>0 DEF TypeOK
<1>3. call' \in [Requests -> AllCalls]
  BY <1>0 DEF CallsRemember, AllCalls
<1>4. TypeOK'
  <2>1. \A q \in Requests : call'[q] # Idle =>
           /\ call'[q].by \in Partners
           /\ IF call'[q].op \in CoupleOps THEN call'[q].seen \in CoupleRows
              ELSE call'[q].seen \in 1 .. MaxVersion
           /\ call'[q].checked \in BOOLEAN
    BY <1>3, CallsTyped
  <2> QED BY <1>0, <1>1, <2>1 DEF TypeOK
<1>5. CountedUp
  BY <1>0, <1>1 DEF CountedUp, TypeOK, EventRows, WishRows
<1>6. CallsRemember'
  BY <1>0, <1>4, <1>5, CallsRememberKept
<1>7. RowsAgree'
  <2>1. ASSUME NEW x \in Wishes \ blind'
        PROVE  /\ wish'[x].realized => wish'[x].approval = "ACCEPTED"
               /\ wish'[x].realized = (wish'[x].confirmation \in {"PENDING", "ACCEPTED"})
    <3>1. CASE x = w
      BY <1>1, <2>1, <3>1
    <3>2. CASE x # w
      BY <1>1, <2>1, <3>2 DEF AgreeInv, RowsAgree, WishFits
    <3> QED BY <3>1, <3>2
  <2>2. \A x \in Wishes \ blind' : WishFits(x)'
    BY <2>1 DEF WishFits
  <2>3. /\ \A e \in Events \ blind' : ReminderFits(e)'
        /\ \A c \in Couples \ blind' : CoupleFits(c)'
    BY DEF AgreeInv, RowsAgree, ReminderFits, CoupleFits
  <2> QED BY <1>4, <2>2, <2>3 DEF RowsAgree
<1> QED BY <1>0, <1>6, <1>7 DEF AgreeInv, ReminderReachesChosen, NoMeetingSettled, FoundIsChosen

\* A wish moves as its row allowed when it was read.
LEMMA WishesKept ==
  ASSUME AgreeInv,
         \/ \E w \in Wishes, p \in Partners : CreateWish(w, p)
         \/ \E w \in Wishes : EditWish(w)
         \/ \E q \in Requests : MoveWish(q)
  PROVE  AgreeInv'
<1>0. TypeOK /\ CallsRemember /\ \A w \in Wishes \ blind : WishFits(w)
  BY DEF AgreeInv, RowsAgree
<1>1. ASSUME NEW w \in Wishes, NEW p \in Partners, CreateWish(w, p) PROVE AgreeInv'
  <2>1. PICK row \in WishRows : row = wish[w]
    BY <1>0 DEF TypeOK
  <2>2. PICK r : r = [row EXCEPT !.by = p, !.version = 1]
    OBVIOUS
  <2>3. r \in WishRows /\ r.version = 1 /\ r.realized = row.realized /\ r.approval = row.approval
        /\ r.confirmation = row.confirmation
    <3>1. 1 \in 0 .. MaxVersion /\ p \in Authors
      BY Numbers DEF Authors
    <3> QED BY <2>2, <3>1 DEF WishRows
  <2>4. wish' = [wish EXCEPT ![w] = r] /\ row.version = 0
    BY <1>0, <1>1, <2>1, <2>2 DEF CreateWish, TypeOK, WishRows
  <2>5. /\ UNCHANGED <<now, event, meeting, couple, decision, due, at, tardy, astray, given, frozen>>
        /\ call' = call /\ blind' = blind
    BY <1>1 DEF CreateWish, history
  <2>6. row.version <= r.version /\ r.version # row.version
    BY <2>3, <2>4
  <2>7. \/ w \in blind'
        \/ /\ r.realized => r.approval = "ACCEPTED"
           /\ r.realized = (r.confirmation \in {"PENDING", "ACCEPTED"})
    BY <1>0, <2>1, <2>3, <2>5 DEF WishFits
  <2> QED BY <2>1, <2>3, <2>4, <2>5, <2>6, <2>7, WishWritten
<1>2. ASSUME NEW w \in Wishes, EditWish(w) PROVE AgreeInv'
  <2>1. PICK row \in WishRows : row = wish[w]
    BY <1>0 DEF TypeOK
  <2>2. PICK gone \in BOOLEAN : wish' = [wish EXCEPT ![w] = [row EXCEPT !.gone = gone, !.version = @ + 1]]
    <3>1. CASE wish' = [wish EXCEPT ![w].version = @ + 1]
      <4>1. [row EXCEPT !.version = @ + 1] = [row EXCEPT !.gone = row.gone, !.version = @ + 1]
        BY DEF WishRows
      <4>2. row.gone \in BOOLEAN
        BY DEF WishRows
      <4> QED BY <1>0, <2>1, <3>1, <4>1, <4>2 DEF TypeOK
    <3>2. CASE wish' = [wish EXCEPT ![w].gone = TRUE, ![w].version = @ + 1]
      BY <1>0, <2>1, <3>2 DEF TypeOK, WishRows
    <3> QED BY <1>2, <3>1, <3>2 DEF EditWish
  <2>3. PICK r : r = [row EXCEPT !.gone = gone, !.version = @ + 1]
    OBVIOUS
  <2>4. row.version + 1 \in 0 .. MaxVersion /\ row.version <= row.version + 1
        /\ row.version + 1 # row.version
    BY <1>2, <2>1, Numbers DEF EditWish, Open, WishRows
  <2>5. r \in WishRows /\ r.version = row.version + 1 /\ r.realized = row.realized
        /\ r.approval = row.approval /\ r.confirmation = row.confirmation
    BY <2>3, <2>4 DEF WishRows
  <2>6. /\ UNCHANGED <<now, event, meeting, couple, decision, due, at, tardy, astray, given, frozen>>
        /\ call' = call /\ blind' = blind /\ wish' = [wish EXCEPT ![w] = r]
    BY <1>2, <2>2, <2>3 DEF EditWish, history
  <2>7. \/ w \in blind'
        \/ /\ r.realized => r.approval = "ACCEPTED"
           /\ r.realized = (r.confirmation \in {"PENDING", "ACCEPTED"})
    BY <1>0, <2>1, <2>5, <2>6 DEF WishFits
  <2> QED BY <2>1, <2>4, <2>5, <2>6, <2>7, WishWritten
<1>3. ASSUME NEW q \in Requests, MoveWish(q) PROVE AgreeInv'
  <2>1. PICK c \in MoveCalls : c = call[q] /\ Remembers(c)
    BY <1>0, <1>3, CallKinds DEF MoveWish, CallsRemember
  <2>2. PICK w \in Wishes : w = c.id
    BY DEF MoveCalls
  <2>3. PICK row \in WishRows : row = wish[w]
    BY <1>0 DEF TypeOK
  <2>4. /\ UNCHANGED <<now, event, meeting, couple, decision, due, at, tardy, astray, given, frozen>>
        /\ call' = [call EXCEPT ![q] = Idle]
    BY <1>3 DEF MoveWish, End
  <2>5. row.version < MaxVersion /\ row.version \in Nat /\ MaxVersion \in Nat
    BY <1>3, <2>1, <2>2, <2>3, Numbers DEF MoveWish, WishRows
  <2>6. CASE ~row.gone /\ Holds(q, row)
    <3>1. /\ wish' = [wish EXCEPT ![w] = [Moved(row, c.ask) EXCEPT !.version = @ + 1]]
          /\ blind' = IF Overlooks(q, row) THEN blind \union {w} ELSE blind
      BY <1>3, <2>1, <2>2, <2>3, <2>6 DEF MoveWish
    <3>2. PICK m : m = Moved(row, c.ask)
      OBVIOUS
    <3>3. c.ask \in Moves
      BY DEF MoveCalls
    <3>4. m \in WishRows /\ m.version = row.version
      BY <3>2, <3>3 DEF Moved, Moves, WishRows
    <3>5. PICK r : r = [m EXCEPT !.version = @ + 1]
      OBVIOUS
    <3>6. row.version + 1 \in 0 .. MaxVersion /\ row.version <= row.version + 1
          /\ row.version + 1 # row.version
      BY <2>5
    <3>7. r \in WishRows /\ r.version = row.version + 1 /\ r.realized = m.realized
          /\ r.approval = m.approval /\ r.confirmation = m.confirmation
      BY <3>4, <3>5, <3>6 DEF WishRows
    <3>8. ASSUME w \notin blind'
          PROVE  /\ m.realized => m.approval = "ACCEPTED"
                 /\ m.realized = (m.confirmation \in {"PENDING", "ACCEPTED"})
      <4>1. row.version = c.seen /\ w \notin blind
        BY <2>1, <3>1, <3>8 DEF Overlooks
      <4>2. c.op = "move"
        BY DEF MoveCalls
      <4>3. MayMove(c.by, row, c.ask)
        BY <2>1, <2>2, <2>3, <4>1, <4>2 DEF Remembers
      <4>4. /\ row.realized => row.approval = "ACCEPTED"
            /\ row.realized = (row.confirmation \in {"PENDING", "ACCEPTED"})
        BY <1>0, <2>3, <4>1 DEF WishFits
      <4>5. CASE c.ask = "accept"
        BY <3>2, <4>3, <4>4, <4>5 DEF MayMove, Moved, WishRows
      <4>6. CASE c.ask = "reject"
        BY <3>2, <4>3, <4>4, <4>6 DEF MayMove, Moved, WishRows
      <4>7. CASE c.ask = "realize"
        BY <3>2, <4>3, <4>4, <4>7 DEF MayMove, Moved, WishRows
      <4>8. CASE c.ask = "confirm"
        BY <3>2, <4>3, <4>4, <4>8 DEF MayMove, Moved, WishRows
      <4>9. CASE c.ask = "refuse"
        <5>1. m = [row EXCEPT !.realized = FALSE, !.confirmation = "REJECTED"]
          BY <3>2, <4>9 DEF Moved
        <5>2. m.realized = FALSE /\ m.confirmation = "REJECTED"
          BY <5>1 DEF WishRows
        <5>3. ("REJECTED" \in {"PENDING", "ACCEPTED"}) = FALSE
          OBVIOUS
        <5> QED BY <5>2, <5>3
      <4> QED BY <3>3, <4>5, <4>6, <4>7, <4>8, <4>9 DEF Moves
    <3>9. \/ w \in blind'
          \/ /\ r.realized => r.approval = "ACCEPTED"
             /\ r.realized = (r.confirmation \in {"PENDING", "ACCEPTED"})
      BY <3>7, <3>8
    <3>10. wish' = [wish EXCEPT ![w] = r] /\ (blind' = blind \/ blind' = blind \union {w})
      BY <3>1, <3>2, <3>5
    <3> QED BY <2>3, <2>4, <3>6, <3>7, <3>9, <3>10, WishWritten
  <2>7. CASE ~(~row.gone /\ Holds(q, row))
    <3>1. wish' = [wish EXCEPT ![w] = row] /\ blind' = blind
      BY <1>0, <1>3, <2>1, <2>2, <2>3, <2>7 DEF MoveWish, TypeOK
    <3>2. \/ w \in blind'
          \/ /\ row.realized => row.approval = "ACCEPTED"
             /\ row.realized = (row.confirmation \in {"PENDING", "ACCEPTED"})
      BY <1>0, <2>3, <3>1 DEF WishFits
    <3>3. row.version <= row.version
      BY <2>5
    <3> QED BY <2>3, <2>4, <3>1, <3>2, <3>3, WishWritten
  <2> QED BY <2>6, <2>7
<1> QED BY <1>1, <1>2, <1>3

-----------------------------------------------------------------------------
\* Rows that nothing else relies on: meetings, decisions and couple meetings.
LEMMA OthersWritten ==
  ASSUME AgreeInv, UNCHANGED <<now, event, wish, due, at, tardy, astray>>,
         call' = call \/ \E q \in Requests : call' = [call EXCEPT ![q] = Idle],
         meeting' \in [Meetings -> MeetingRows], decision' \in [Meetings -> DecisionRows],
         couple' \in [Couples -> CoupleRows],
         blind' = blind \/ \E c \in Couples : blind' = blind \union {c},
         given' \in [Couples -> SUBSET Partners],
         frozen' \in [Couples -> [answers : SUBSET Partners, text : Texts]],
         NoMeetingSettled', \A c \in Couples \ blind' : CoupleFits(c)'
  PROVE  AgreeInv'
<1>0. TypeOK /\ CallsRemember /\ FoundIsChosen /\ ReminderReachesChosen
  BY DEF AgreeInv, RowsAgree
<1>1. call' \in [Requests -> AllCalls]
  BY <1>0 DEF CallsRemember, AllCalls
<1>2. \A q \in Requests : call'[q] # Idle =>
           /\ call'[q].by \in Partners
           /\ IF call'[q].op \in CoupleOps THEN call'[q].seen \in CoupleRows
              ELSE call'[q].seen \in 1 .. MaxVersion
           /\ call'[q].checked \in BOOLEAN
  BY <1>1, CallsTyped
<1>3. blind' \subseteq Events \union Wishes \union Couples /\ blind \subseteq blind'
  BY <1>0 DEF TypeOK
<1>4. TypeOK'
  BY <1>0, <1>2, <1>3 DEF TypeOK
<1>5. CountedUp
  BY <1>0 DEF CountedUp, TypeOK, EventRows, WishRows
<1>6. CallsRemember'
  BY <1>0, <1>4, <1>5, CallsRememberKept
<1>7. /\ \A e \in Events \ blind' : ReminderFits(e)'
      /\ \A w \in Wishes \ blind' : WishFits(w)'
  BY <1>3 DEF AgreeInv, RowsAgree, ReminderFits, WishFits
<1> QED BY <1>0, <1>4, <1>6, <1>7 DEF AgreeInv, RowsAgree, ReminderReachesChosen, FoundIsChosen

LEMMA MeetingsKept ==
  ASSUME AgreeInv,
         \/ \E m \in Meetings, p \in Partners : CreateMeeting(m, p)
         \/ \E q \in Requests : ChangeMeeting(q) \/ Decide(q) \/ Answer(q)
  PROVE  AgreeInv'
<1>0. TypeOK /\ CallsRemember /\ NoMeetingSettled /\ \A c \in Couples \ blind : CoupleFits(c)
  BY DEF AgreeInv, RowsAgree
<1>1. ASSUME NEW m \in Meetings, NEW p \in Partners, CreateMeeting(m, p) PROVE AgreeInv'
  <2>1. PICK row \in MeetingRows : row = meeting[m]
    BY <1>0 DEF TypeOK
  <2>2. PICK r : r = [row EXCEPT !.by = p, !.version = 1]
    OBVIOUS
  <2>3. r \in MeetingRows /\ r.version = 1
    <3>1. 1 \in 0 .. MaxVersion /\ p \in Authors
      BY Numbers DEF Authors
    <3> QED BY <2>2, <3>1 DEF MeetingRows
  <2>4. meeting' = [meeting EXCEPT ![m] = r]
    BY <1>0, <1>1, <2>1, <2>2 DEF CreateMeeting, TypeOK, MeetingRows
  <2>5. UNCHANGED <<now, event, wish, couple, decision, call, due, at, blind, tardy, astray, given, frozen>>
    BY <1>1 DEF CreateMeeting, history
  <2>6. meeting' \in [Meetings -> MeetingRows] /\ NoMeetingSettled'
    BY <1>0, <2>3, <2>4 DEF TypeOK, NoMeetingSettled
  <2>7. \A c \in Couples \ blind' : CoupleFits(c)'
    BY <1>0, <2>5 DEF CoupleFits
  <2> QED BY <1>0, <2>5, <2>6, <2>7, OthersWritten DEF TypeOK
<1>2. ASSUME NEW q \in Requests, ChangeMeeting(q) PROVE AgreeInv'
  <2>1. PICK c \in MeetingCalls : c = call[q]
    BY <1>0, <1>2, CallKinds DEF ChangeMeeting, CallsRemember
  <2>2. PICK m \in Meetings : m = c.id
    BY DEF MeetingCalls
  <2>3. PICK row \in MeetingRows : row = meeting[m]
    BY <1>0 DEF TypeOK
  <2>4. PICK r : r = [row EXCEPT !.status = c.ask, !.version = @ + 1]
    OBVIOUS
  <2>5. row.version + 1 \in 0 .. MaxVersion /\ row.version + 1 # 0
    BY <1>2, <2>1, <2>2, <2>3, Numbers DEF ChangeMeeting, MeetingRows
  <2>6. r \in MeetingRows /\ r.version = row.version + 1
    BY <2>4, <2>5 DEF MeetingRows, MeetingCalls
  <2>7. meeting' = meeting \/ meeting' = [meeting EXCEPT ![m] = r]
    BY <1>0, <1>2, <2>1, <2>2, <2>3, <2>4 DEF ChangeMeeting, TypeOK, MeetingRows
  <2>8. UNCHANGED <<now, event, wish, couple, decision, due, at, blind, tardy, astray, given, frozen>>
        /\ call' = [call EXCEPT ![q] = Idle]
    BY <1>2 DEF ChangeMeeting, End, history
  <2>9. meeting' \in [Meetings -> MeetingRows] /\ NoMeetingSettled'
    BY <1>0, <2>5, <2>6, <2>7 DEF TypeOK, NoMeetingSettled
  <2>10. \A x \in Couples \ blind' : CoupleFits(x)'
    BY <1>0, <2>8 DEF CoupleFits
  <2> QED BY <1>0, <2>8, <2>9, <2>10, OthersWritten DEF TypeOK
<1>3. ASSUME NEW q \in Requests, Decide(q) \/ Answer(q) PROVE AgreeInv'
  <2>1. PICK c \in DecideCalls \union AnswerCalls : c = call[q]
    BY <1>0, <1>3, CallKinds DEF Decide, Answer, CallsRemember
  <2>2. PICK m \in Meetings : m = c.id
    BY DEF DecideCalls, AnswerCalls
  <2>3. c.by \in Partners
    BY DEF DecideCalls, AnswerCalls
  <2>4. decision' \in [Meetings -> DecisionRows]
    <3>1. CASE Decide(q)
      <4>1. [by |-> c.by, status |-> "PROPOSED"] \in DecisionRows
        BY <2>3 DEF DecisionRows, Authors
      <4> QED BY <1>0, <2>1, <2>2, <3>1, <4>1 DEF Decide, TypeOK
    <3>2. CASE Answer(q)
      <4>1. c.ask \in {"AGREED", "REJECTED"} /\ c.op = "answer"
        BY <2>1, <3>2 DEF Answer, DecideCalls, AnswerCalls
      <4>2. PICK row \in DecisionRows : row = decision[m]
        BY <1>0 DEF TypeOK
      <4>3. [row EXCEPT !.status = c.ask] \in DecisionRows
        BY <4>1 DEF DecisionRows
      <4>4. decision' = decision \/ decision' = [decision EXCEPT ![m] = [row EXCEPT !.status = c.ask]]
        BY <2>1, <2>2, <3>2, <4>2 DEF Answer
      <4> QED BY <1>0, <4>3, <4>4 DEF TypeOK
    <3> QED BY <1>3, <3>1, <3>2
  <2>5. UNCHANGED <<now, event, wish, couple, meeting, due, at, blind, tardy, astray, given, frozen>>
        /\ call' = [call EXCEPT ![q] = Idle]
    BY <1>3 DEF Decide, Answer, End, history
  <2>6. NoMeetingSettled' /\ \A x \in Couples \ blind' : CoupleFits(x)'
    BY <1>0, <2>5 DEF CoupleFits, NoMeetingSettled
  <2> QED BY <1>0, <2>4, <2>5, <2>6, OthersWritten DEF TypeOK
<1> QED BY <1>1, <1>2, <1>3

\* A couple meeting is written as it was read, or is marked as overwritten.
LEMMA CouplesKept ==
  ASSUME AgreeInv,
         \/ \E c \in Couples, p \in Partners : CreateCouple(c, p)
         \/ \E q \in Requests : WriteCouple(q)
  PROVE  AgreeInv'
<1>0. TypeOK /\ CallsRemember /\ NoMeetingSettled /\ \A c \in Couples \ blind : CoupleFits(c)
  BY DEF AgreeInv, RowsAgree
<1>1. ASSUME NEW i \in Couples, NEW p \in Partners, CreateCouple(i, p) PROVE AgreeInv'
  <2>1. PICK row \in CoupleRows : row = couple[i]
    BY <1>0 DEF TypeOK
  <2>2. PICK r : r = [row EXCEPT !.by = p, !.there = TRUE]
    OBVIOUS
  <2>3. r \in CoupleRows /\ r.answers = row.answers /\ r.text = row.text /\ r.published = row.published
    BY <2>2 DEF CoupleRows, Authors
  <2>4. couple' = [couple EXCEPT ![i] = r]
    BY <1>0, <1>1, <2>1, <2>2 DEF CreateCouple, TypeOK, CoupleRows
  <2>5. UNCHANGED <<now, event, wish, meeting, decision, call, due, at, blind, tardy, astray, given, frozen>>
    BY <1>1 DEF CreateCouple, history
  <2>6. couple' \in [Couples -> CoupleRows] /\ NoMeetingSettled'
    BY <1>0, <2>3, <2>4, <2>5 DEF TypeOK, NoMeetingSettled
  <2>7. \A c \in Couples \ blind' : CoupleFits(c)'
    BY <1>0, <2>1, <2>3, <2>4, <2>5 DEF CoupleFits, TypeOK
  <2> QED BY <1>0, <2>5, <2>6, <2>7, OthersWritten DEF TypeOK
<1>2. ASSUME NEW q \in Requests, WriteCouple(q) PROVE AgreeInv'
  <2>1. PICK c \in CoupleCalls : c = call[q] /\ Remembers(c)
    BY <1>0, <1>2, CallKinds DEF WriteCouple, CallsRemember
  <2>2. c.op \in CoupleOps /\ c.by \in Partners /\ c.ask \in Texts /\ c.seen \in CoupleRows
    BY DEF CoupleCalls
  <2>3. PICK i \in Couples : i = c.id
    BY DEF CoupleCalls
  <2>4. PICK row \in CoupleRows : row = couple[i]
    BY <1>0 DEF TypeOK
  <2>5. PICK r : r = CASE c.op = "edit"     -> [row EXCEPT !.text = c.ask]
                       [] c.op = "reply"    -> [row EXCEPT !.answers = c.seen.answers \union {c.by}]
                       [] c.op = "publish"  -> [row EXCEPT !.published = TRUE]
                       [] c.op = "conclude" -> [row EXCEPT !.decided = TRUE]
    OBVIOUS
  <2>6. r \in CoupleRows
    <3>1. c.seen.answers \union {c.by} \in SUBSET Partners
      BY <2>2 DEF CoupleRows
    <3>2. CASE c.op = "edit"
      BY <2>2, <2>5, <3>2 DEF CoupleRows
    <3>3. CASE c.op = "reply"
      BY <2>5, <3>1, <3>3 DEF CoupleRows
    <3>4. CASE c.op = "publish"
      BY <2>5, <3>4 DEF CoupleRows
    <3>5. CASE c.op = "conclude"
      BY <2>5, <3>5 DEF CoupleRows
    <3> QED BY <2>2, <3>2, <3>3, <3>4, <3>5 DEF CoupleOps
  <2>7. /\ couple' = [couple EXCEPT ![i] = r]
        /\ blind' = IF row = c.seen THEN blind ELSE blind \union {i}
        /\ given' = IF c.op = "reply" THEN [given EXCEPT ![i] = @ \union {c.by}] ELSE given
        /\ frozen' = IF c.op = "publish"
                     THEN [frozen EXCEPT ![i] = [answers |-> row.answers, text |-> row.text]]
                     ELSE frozen
    BY <1>2, <2>1, <2>3, <2>4, <2>5 DEF WriteCouple
  <2>8. UNCHANGED <<now, event, wish, meeting, decision, due, at, tardy, astray>>
        /\ call' = [call EXCEPT ![q] = Idle]
    BY <1>2 DEF WriteCouple, End
  <2>9. /\ couple' \in [Couples -> CoupleRows] /\ given' \in [Couples -> SUBSET Partners]
        /\ frozen' \in [Couples -> [answers : SUBSET Partners, text : Texts]]
    <3>1. [answers |-> row.answers, text |-> row.text] \in [answers : SUBSET Partners, text : Texts]
      BY DEF CoupleRows
    <3> QED BY <1>0, <2>2, <2>6, <2>7, <3>1 DEF TypeOK
  <2>10. ASSUME NEW x \in Couples \ blind'
         PROVE  /\ couple'[x].answers = given'[x]
                /\ couple'[x].published => frozen'[x] = [answers |-> couple'[x].answers,
                                                         text |-> couple'[x].text]
    <3>0. x \notin blind
      BY <2>7, <2>10
    <3>1. CASE x # i
      <4>1. couple'[x] = couple[x] /\ given'[x] = given[x] /\ frozen'[x] = frozen[x]
        BY <1>0, <2>7, <3>1 DEF TypeOK
      <4> QED BY <1>0, <3>0, <4>1 DEF CoupleFits
    <3>2. CASE x = i
      <4>1. row = c.seen /\ row.published = (c.op = "conclude")
        BY <2>1, <2>2, <2>7, <2>10, <3>2 DEF Remembers, Unpublished
      <4>2. couple'[x] = r
        BY <1>0, <2>7, <3>2 DEF TypeOK
      <4>3. row.answers = given[x]
            /\ (row.published => frozen[x] = [answers |-> row.answers, text |-> row.text])
        BY <1>0, <2>4, <3>0, <3>2 DEF CoupleFits
      <4>4. CASE c.op = "edit"
        <5>1. r.answers = row.answers /\ r.published = row.published /\ ~row.published
          BY <2>5, <4>1, <4>4 DEF CoupleRows
        <5>2. given' = given
          BY <2>7, <4>4
        <5> QED BY <4>2, <4>3, <5>1, <5>2
      <4>5. CASE c.op = "reply"
        <5>1. r.answers = row.answers \union {c.by} /\ r.published = row.published /\ ~row.published
          BY <2>5, <4>1, <4>5 DEF CoupleRows
        <5>2. given'[x] = given[x] \union {c.by}
          BY <1>0, <2>7, <3>2, <4>5 DEF TypeOK
        <5> QED BY <4>2, <4>3, <5>1, <5>2
      <4>6. CASE c.op = "publish"
        <5>1. r.answers = row.answers /\ r.text = row.text
          BY <2>5, <4>6 DEF CoupleRows
        <5>2. given' = given /\ frozen'[x] = [answers |-> row.answers, text |-> row.text]
          BY <1>0, <2>7, <3>2, <4>6 DEF TypeOK
        <5> QED BY <4>2, <4>3, <5>1, <5>2
      <4>7. CASE c.op = "conclude"
        <5>1. r.answers = row.answers /\ r.text = row.text /\ r.published = row.published
          BY <2>5, <4>7 DEF CoupleRows
        <5>2. given' = given /\ frozen' = frozen
          BY <2>7, <4>7
        <5> QED BY <4>2, <4>3, <5>1, <5>2
      <4> QED BY <2>2, <4>4, <4>5, <4>6, <4>7 DEF CoupleOps
    <3> QED BY <3>1, <3>2
  <2>11. \A x \in Couples \ blind' : CoupleFits(x)'
    BY <2>10 DEF CoupleFits
  <2>12. NoMeetingSettled' /\ (blind' = blind \/ blind' = blind \union {i})
    BY <1>0, <2>7, <2>8 DEF NoMeetingSettled
  <2> QED BY <1>0, <2>8, <2>9, <2>11, <2>12, OthersWritten DEF TypeOK
<1> QED BY <1>1, <1>2

-----------------------------------------------------------------------------
\* The invariant holds at first and is kept.
LEMMA AgreeInvInit == Init => AgreeInv
<1> SUFFICES ASSUME Init PROVE AgreeInv
  OBVIOUS
<1>1. /\ 0 \in Moments /\ 0 \in Leads /\ {} \in Choices /\ Nobody \in Authors
      /\ 0 \in 0 .. MaxVersion
  BY Numbers, AgreementsAssumption DEF Authors
<1>2. /\ event \in [Events -> EventRows] /\ wish \in [Wishes -> WishRows]
      /\ meeting \in [Meetings -> MeetingRows] /\ decision \in [Meetings -> DecisionRows]
      /\ couple \in [Couples -> CoupleRows]
  BY <1>1 DEF Init, EventRows, WishRows, MeetingRows, DecisionRows, CoupleRows, Texts
<1>3. TypeOK
  BY <1>1, <1>2 DEF Init, TypeOK, Texts
<1>4. \A e \in Events : event[e].version = 0
  BY DEF Init
<1>5. RowsAgree
  <2>1. \A e \in Events : ReminderFits(e)
    BY <1>4 DEF ReminderFits
  <2>2. \A w \in Wishes : WishFits(w)
    <3>1. ("NOT_REQUESTED" \in {"PENDING", "ACCEPTED"}) = FALSE
      OBVIOUS
    <3> QED BY <3>1 DEF Init, WishFits
  <2>3. \A c \in Couples : CoupleFits(c)
    BY DEF Init, CoupleFits
  <2> QED BY <1>3, <2>1, <2>2, <2>3 DEF RowsAgree
<1>6. CallsRemember
  BY DEF Init, CallsRemember, AllCalls, Remembers, Idle, CoupleOps
<1>7. FoundIsChosen
  BY <1>1 DEF Init, FoundIsChosen
<1> QED BY <1>5, <1>6, <1>7 DEF AgreeInv, Init, ReminderReachesChosen, NoMeetingSettled

LEMMA AgreeInvKept == AgreeInv /\ [Next]_vars => AgreeInv'
<1> SUFFICES ASSUME AgreeInv, [Next]_vars PROVE AgreeInv'
  OBVIOUS
<1>1. CASE UNCHANGED vars
  BY <1>1 DEF vars, rows, history, AgreeInv, RowsAgree, TypeOK, ReminderFits, WishFits, CoupleFits,
              ReminderReachesChosen, CallsRemember, Remembers, FoundIsChosen, NoMeetingSettled
<1>2. CASE Next
  <2>1. ASSUME NEW p \in Partners, Create(p) PROVE AgreeInv'
    BY <2>1, CreateEventKept, WishesKept, MeetingsKept, CouplesKept DEF Create
  <2>2. ASSUME NEW q \in Requests, Finish(q) PROVE AgreeInv'
    BY <2>2, UpdateEventKept, RespondKept, WishesKept, MeetingsKept, CouplesKept DEF Finish
  <2> QED BY <1>2, <2>1, <2>2, StartKept, ClockKept, RemoveEventKept, WishesKept, RemindKept
          DEF Next
<1> QED BY <1>1, <1>2

\* Rows whose fields depend on one another agree, unless somebody who sent no
\* version wrote over a change he had not read (RowsAgree).
THEOREM RowsAlwaysAgree == Spec => []RowsAgree
<1>1. AgreeInv => RowsAgree
  BY DEF AgreeInv
<1> QED BY <1>1, AgreeInvInit, AgreeInvKept, PTL DEF Spec

\* The recipients a worker has found are the chosen ones when it reminds them,
\* unless the update that chose others was slower than its own reminder time
\* (ReminderReachesChosen).
THEOREM RemindersReachChosen == Spec => []ReminderReachesChosen
<1>1. AgreeInv => ReminderReachesChosen
  BY DEF AgreeInv
<1> QED BY <1>1, AgreeInvInit, AgreeInvKept, PTL DEF Spec

\* A financial meeting is completed or cancelled once, and a decision is answered
\* once (MeetingsSettleOnce).
THEOREM MeetingsSettledOnce == Spec => MeetingsSettleOnce
<1> DEFINE Settles(m) ==
      /\ meeting[m].status # "SCHEDULED" => meeting'[m] = meeting[m]
      /\ decision[m].status \in {"AGREED", "REJECTED"} => decision'[m] = decision[m]
<1>1. ASSUME AgreeInv, [Next]_vars, NEW m \in Meetings PROVE Settles(m)
  <2>0. TypeOK /\ NoMeetingSettled
    BY <1>1 DEF AgreeInv, RowsAgree
  <2>1. CASE UNCHANGED <<meeting, decision>>
    BY <2>1
  <2>2. ASSUME NEW n \in Meetings, NEW p \in Partners, CreateMeeting(n, p) PROVE Settles(m)
    BY <2>0, <2>2 DEF CreateMeeting, NoMeetingSettled, TypeOK
  <2>3. ASSUME NEW q \in Requests, ChangeMeeting(q) PROVE Settles(m)
    <3>1. PICK n : n = call[q].id
      OBVIOUS
    <3>2. decision' = decision /\ (meeting' = meeting \/ meeting[n].status = "SCHEDULED")
      BY <2>3, <3>1 DEF ChangeMeeting, Scheduled
    <3>3. n # m => meeting'[m] = meeting[m]
      BY <2>0, <2>3, <3>1 DEF ChangeMeeting, TypeOK
    <3> QED BY <3>2, <3>3
  <2>4. ASSUME NEW q \in Requests, Decide(q) PROVE Settles(m)
    BY <2>0, <2>4 DEF Decide, TypeOK
  <2>5. ASSUME NEW q \in Requests, Answer(q) PROVE Settles(m)
    BY <2>0, <2>5 DEF Answer, TypeOK
  <2>6. CASE Next
    <3>1. ASSUME NEW q \in Requests, NEW p \in Partners, Start(q, p) PROVE UNCHANGED <<meeting, decision>>
      BY <3>1 DEF Start, ReadForUpdate, ReadForResponse, ReadForMove, ReadMeeting, ReadForDecision,
                  ReadForAnswer, ReadCouple, rows
    <3>2. ASSUME NEW p \in Partners, Create(p) PROVE Settles(m)
      <4>1. CASE \E e \in Events : CreateEvent(e, p)
        BY <2>1, <4>1 DEF CreateEvent
      <4>2. CASE \E w \in Wishes : CreateWish(w, p)
        BY <2>1, <4>2 DEF CreateWish
      <4>3. CASE \E c \in Couples : CreateCouple(c, p)
        BY <2>1, <4>3 DEF CreateCouple
      <4> QED BY <2>2, <3>2, <4>1, <4>2, <4>3 DEF Create
    <3>3. ASSUME NEW q \in Requests, Finish(q) PROVE Settles(m)
      <4>1. UpdateEvent(q) \/ Respond(q) \/ MoveWish(q) \/ WriteCouple(q) => UNCHANGED <<meeting, decision>>
        BY DEF UpdateEvent, Respond, MoveWish, WriteCouple
      <4> QED BY <2>1, <2>3, <2>4, <2>5, <3>3, <4>1 DEF Finish
    <3>4. Advance \/ (\E e \in Events : RemoveEvent(e)) \/ (\E w \in Wishes : EditWish(w))
          \/ (\E w \in Workers : SearchReminders(w) \/ Remind(w)) => UNCHANGED <<meeting, decision>>
      BY DEF Advance, RemoveEvent, EditWish, SearchReminders, Remind, rows
    <3> QED BY <2>1, <2>6, <3>1, <3>2, <3>3, <3>4 DEF Next
  <2>7. UNCHANGED vars => UNCHANGED <<meeting, decision>>
    BY DEF vars, rows
  <2> QED BY <1>1, <2>1, <2>6, <2>7
<1>2. AgreeInv /\ [Next]_vars => [\A m \in Meetings : Settles(m)]_vars
  BY <1>1
<1> QED BY <1>2, AgreeInvInit, AgreeInvKept, PTL DEF Spec, MeetingsSettleOnce

-----------------------------------------------------------------------------
(***************************************************************************)
(* Notices.  The quiet hours are arithmetic: days are intervals of local   *)
(* time (DivMod, DayOf), the search for an instant ends at the local time  *)
(* that is looked for or at the end of the gap it lies in (Resolved), and  *)
(* so the quiet hours around an instant last exactly till then             *)
(* (QuietSpan, FirstAllowed).                                              *)
(***************************************************************************)

\* Day and minute of a local time.
LEMMA DivMod ==
  ASSUME NEW D \in Nat \ {0}, NEW l \in Int
  PROVE  /\ l \div D \in Int /\ l % D \in 0 .. D - 1
         /\ l = D * (l \div D) + (l % D)
  OBVIOUS

\* The day a local time lies in is its day.
LEMMA DayOf ==
  ASSUME NEW D \in Nat \ {0}, NEW q \in Int, NEW l \in Int, q * D <= l, l < q * D + D
  PROVE  l \div D = q /\ l % D = l - q * D
  <1> DEFINE p == l \div D
  <1>1. p \in Int /\ p * D <= l /\ l < p * D + D /\ l % D = l - p * D
    BY DivMod
  <1>2. ~(p <= q - 1)
    <2> SUFFICES ASSUME p + 1 <= q PROVE FALSE
      BY <1>1
    <2>1. (p + 1) * D <= q * D
      BY <1>1
    <2>2. (p + 1) * D = p * D + D
      BY <1>1
    <2> QED
      BY <1>1, <2>1, <2>2
  <1>3. ~(q <= p - 1)
    <2> SUFFICES ASSUME q + 1 <= p PROVE FALSE
      BY <1>1
    <2>1. (q + 1) * D <= p * D
      BY <1>1
    <2>2. (q + 1) * D = q * D + D
      BY <1>1
    <2> QED
      BY <1>1, <2>1, <2>2
  <1>4. p = q
    BY <1>1, <1>2, <1>3
  <1> QED
    BY <1>1, <1>4

\* What lies between two times of a day is of that day.
LEMMA DaysAscend ==
  ASSUME NEW D \in Nat \ {0}, NEW k \in Int, NEW l \in Int, NEW m \in Int,
         k <= l, l <= m, k \div D = m \div D
  PROVE  l \div D = k \div D
  <1>1. /\ k \div D \in Int
        /\ (k \div D) * D <= k /\ m < (k \div D) * D + D
    BY DivMod
  <1>2. (k \div D) * D <= l /\ l < (k \div D) * D + D
    <2>1. (k \div D) * D \in Int
      BY <1>1
    <2> QED
      BY <1>1, <2>1
  <1> QED
    BY <1>1, <1>2, DayOf

\* What is assumed of a zone.
LEMMA ZoneFacts ==
  ASSUME zone \in Zones
  PROVE  /\ zone.base \in Int /\ zone.jump \in Int /\ zone.at \in Int
         /\ Window \in Nat /\ Day \in Nat \ {0}
         /\ -Window <= zone.jump /\ zone.jump <= Window
         /\ zone.jump > 0 => (zone.at + zone.base) \div Day = (zone.at + zone.base + zone.jump) \div Day
  BY NoticesAssumption

LEMMA LocalIs ==
  ASSUME zone \in Zones, NEW t \in Int
  PROVE  /\ Local(t) \in Int
         /\ t < zone.at => Local(t) = t + zone.base
         /\ t >= zone.at => Local(t) = t + zone.base + zone.jump
  BY ZoneFacts DEF Local

\* localTimeToInstant finds an instant that shows the local time, or, if the clock
\* skips it, the instant at which the clock goes on.
LEMMA Resolved ==
  ASSUME zone \in Zones, NEW target \in Int
  PROVE  LET r == LocalTimeToInstant(target) IN
         /\ r \in Int
         /\ \/ Local(r) = target
            \/ /\ r = zone.at
               /\ zone.at + zone.base <= target
               /\ target < zone.at + zone.base + zone.jump
  <1> DEFINE e     == zone.at + zone.base
             pre   == target - zone.base
             post  == target - zone.base - zone.jump
             third == Corrected(target, Corrected(target, Corrected(target, target)))
  <1>1. \A t \in Int : Corrected(target, t) = IF t < zone.at THEN pre ELSE post
    BY LocalIs, ZoneFacts DEF Corrected
  <1>2. pre \in Int /\ post \in Int /\ e \in Int
    BY ZoneFacts
  <1>3. CASE target < e \/ target >= e + zone.jump
    <2>1. Local(third) = target /\ third \in Int
      <3>1. CASE target < e /\ target < e + zone.jump
        BY <1>1, <1>2, <3>1, LocalIs, ZoneFacts
      <3>2. CASE target < e /\ target >= e + zone.jump
        BY <1>1, <1>2, <3>2, LocalIs, ZoneFacts
      <3>3. CASE target >= e /\ target >= e + zone.jump
        BY <1>1, <1>2, <3>3, LocalIs, ZoneFacts
      <3> QED
        BY <1>2, <1>3, <3>1, <3>2, <3>3, ZoneFacts
    <2> QED
      BY <2>1 DEF LocalTimeToInstant
  <1>4. CASE e <= target /\ target < e + zone.jump
    <2>1. third \in {pre, post} /\ Local(third) # target
      BY <1>1, <1>2, <1>4, LocalIs, ZoneFacts
    <2> DEFINE around  == {Corrected(target, third) + o : o \in -Window .. Window}
               fitting == {t \in around : DateOf(Local(t)) = DateOf(target) /\ Local(t) >= target}
    <2>2. Corrected(target, third) \in {pre, post}
      BY <1>1, <1>2, <2>1
    <2>3. zone.at \in around
      <3>1. PICK x \in {pre, post} : Corrected(target, third) = x
        BY <2>2
      <3>2. zone.at - x \in -Window .. Window
        BY <1>2, <1>4, <3>1, ZoneFacts
      <3>3. zone.at = x + (zone.at - x)
        BY <1>2, <3>1, ZoneFacts
      <3> QED
        BY <3>1, <3>2, <3>3
    <2>4. zone.at \in fitting
      <3>1. Local(zone.at) = e + zone.jump
        BY LocalIs, ZoneFacts
      <3>2. target \div Day = e \div Day
        <4>1. e \div Day = (e + zone.jump) \div Day
          BY <1>2, <1>4, ZoneFacts
        <4>2. e + zone.jump \in Int /\ e <= target /\ target <= e + zone.jump
          BY <1>2, <1>4, ZoneFacts
        <4> HIDE DEF e
        <4> QED
          BY <1>2, <4>1, <4>2, DaysAscend, ZoneFacts
      <3> QED
        BY <1>2, <1>4, <2>3, <3>1, <3>2, ZoneFacts DEF DateOf
    <2>5. \A t \in fitting : t \in Int /\ zone.at <= t
      <3> SUFFICES ASSUME NEW t \in fitting PROVE t \in Int /\ zone.at <= t
        OBVIOUS
      <3>1. t \in Int
        BY <1>2, <2>2, ZoneFacts
      <3> QED
        BY <1>2, <1>4, <3>1, LocalIs, ZoneFacts
    <2>6. LocalTimeToInstant(target) = zone.at
      <3>1. LocalTimeToInstant(target) = CHOOSE t \in fitting : \A u \in fitting : t <= u
        BY <2>1, Zenon DEF LocalTimeToInstant
      <3> DEFINE c == CHOOSE t \in fitting : \A u \in fitting : t <= u
      <3> HIDE DEF fitting
      <3>2. c \in fitting /\ \A u \in fitting : c <= u
        <4>1. \E t \in fitting : \A u \in fitting : t <= u
          BY <2>4, <2>5
        <4> QED
          BY <4>1, Zenon
      <3> QED
        BY <2>4, <2>5, <3>1, <3>2, ZoneFacts
    <2> QED
      BY <1>4, <2>6, ZoneFacts
  <1> QED
    BY <1>2, <1>3, <1>4, ZoneFacts

\* The quiet hours around a local time: from the beginning to the end every minute
\* is inside, and from the end to the next beginning none is.
LEMMA QuietSpan ==
  ASSUME zone \in Zones, NEW s, s.start \in 0 .. Day - 1, s.end \in 0 .. Day - 1, s.start # s.end,
         NEW l \in Int, Inside(s, l)
  PROVE  LET end   == TargetOf(s, l)
             quiet == (s.end - s.start) % Day
         IN
         /\ end \in Int /\ quiet \in 1 .. Day - 1
         /\ end - quiet <= l /\ l < end
         /\ \A k \in Int : end - quiet <= k /\ k < end => Inside(s, k)
         /\ \A k \in Int : end <= k /\ k < end - quiet + Day => ~Inside(s, k)
  <1> DEFINE q     == DateOf(l)
             p     == q * Day
             m     == MinuteOf(l)
             quiet == (s.end - s.start) % Day
  <1>1. q \in Int /\ p \in Int /\ m \in 0 .. Day - 1 /\ l = p + m
    <2>1. l = Day * (l \div Day) + (l % Day) /\ l \div Day \in Int /\ l % Day \in 0 .. Day - 1
      BY DivMod, ZoneFacts
    <2>2. Day * (l \div Day) = (l \div Day) * Day /\ (l \div Day) * Day \in Int
      BY <2>1, ZoneFacts
    <2> QED
      BY <2>1, <2>2 DEF DateOf, MinuteOf
  <1>2. (q - 1) * Day = p - Day /\ (q + 1) * Day = p + Day /\ (q + 0) * Day = p
    BY <1>1, ZoneFacts
  <1>3. \A k \in Int : /\ p - Day <= k /\ k < p => MinuteOf(k) = k - p + Day
                       /\ p <= k /\ k < p + Day => MinuteOf(k) = k - p
                       /\ p + Day <= k /\ k < p + Day + Day => MinuteOf(k) = k - p - Day
    <2> SUFFICES ASSUME NEW k \in Int
                 PROVE  /\ p - Day <= k /\ k < p => MinuteOf(k) = k - p + Day
                        /\ p <= k /\ k < p + Day => MinuteOf(k) = k - p
                        /\ p + Day <= k /\ k < p + Day + Day => MinuteOf(k) = k - p - Day
      OBVIOUS
    <2> HIDE DEF q, m
    <2>1. \A i \in Int : i * Day <= k /\ k < i * Day + Day => k % Day = k - i * Day
      BY DayOf, ZoneFacts
    <2>2. /\ (q - 1) * Day <= k /\ k < (q - 1) * Day + Day => k % Day = k - (q - 1) * Day
          /\ (q + 0) * Day <= k /\ k < (q + 0) * Day + Day => k % Day = k - (q + 0) * Day
          /\ (q + 1) * Day <= k /\ k < (q + 1) * Day + Day => k % Day = k - (q + 1) * Day
      BY <1>1, <2>1
    <2> HIDE DEF p
    <2> QED
      BY <1>1, <1>2, <2>2, ZoneFacts DEF MinuteOf
  <1>4. quiet = IF s.end >= s.start THEN s.end - s.start ELSE s.end - s.start + Day
    <2> DEFINE d == s.end - s.start
    <2>1. d \in Int /\ -Day < d /\ d < Day /\ 0 * Day = 0 /\ (-1) * Day = -Day
      BY ZoneFacts
    <2>2. \A i \in Int : i * Day <= d /\ d < i * Day + Day => d % Day = d - i * Day
      <3> HIDE DEF d
      <3> QED
        BY <2>1, DayOf, ZoneFacts
    <2>3. /\ 0 * Day <= d /\ d < 0 * Day + Day => d % Day = d - 0 * Day
          /\ (-1) * Day <= d /\ d < (-1) * Day + Day => d % Day = d - (-1) * Day
      BY <2>2
    <2>4. d % Day = IF d >= 0 THEN d ELSE d + Day
      <3> HIDE DEF d
      <3> QED
        BY <2>1, <2>3, ZoneFacts
    <2> QED
      BY <2>4, ZoneFacts
  <1> HIDE DEF q, p, m, quiet
  <1>5. CASE s.start < s.end
    <2>1. TargetOf(s, l) = p + s.end /\ s.start <= m /\ m < s.end
      BY <1>1, <1>2, <1>5, ZoneFacts DEF TargetOf, Inside, q, p, m
    <2> QED
      BY <1>1, <1>3, <1>4, <1>5, <2>1, ZoneFacts DEF Inside
  <1>6. CASE s.start > s.end /\ m >= s.start
    <2>1. TargetOf(s, l) = p + Day + s.end
      BY <1>1, <1>2, <1>6, ZoneFacts DEF TargetOf, q, p, m
    <2> QED
      BY <1>1, <1>3, <1>4, <1>6, <2>1, ZoneFacts DEF Inside
  <1>7. CASE s.start > s.end /\ m < s.start
    <2>1. TargetOf(s, l) = p + s.end /\ m < s.end
      BY <1>1, <1>2, <1>7, ZoneFacts DEF TargetOf, Inside, q, p, m
    <2> QED
      BY <1>1, <1>3, <1>4, <1>7, <2>1, ZoneFacts DEF Inside
  <1> QED
    BY <1>1, <1>5, <1>6, <1>7, ZoneFacts

\* How long the quiet hours of a night last.
QuietLength(s) == (s.end - s.start) % Day

\* The exception of NoticesAreWanted: the local time at which the quiet hours begin
\* or end comes twice.
Twice(s, t) == \/ Repeats(TargetOf(s, Local(t)) - QuietLength(s))
               \/ Repeats(TargetOf(s, Local(t)))

\* nextAllowedAt is the first moment that is not quiet.
LEMMA FirstAllowed ==
  ASSUME zone \in Zones, NEW s, s.start \in 0 .. Day - 1, s.end \in 0 .. Day - 1, NEW instant \in Int
  PROVE  LET r == NextAllowedAt(instant, s) IN
         /\ r \in Int
         /\ ~QuietAt(s, instant) => r = instant
         /\ ~Twice(s, instant) =>
              /\ instant <= r
              /\ QuietAt(s, instant) => instant < r
              /\ QuietAt(s, r) => Day - QuietLength(s) <= zone.jump
              /\ \A t \in instant .. r - 1 : QuietAt(s, t)
  <1> DEFINE end   == TargetOf(s, Local(instant))
             quiet == QuietLength(s)
             r     == NextAllowedAt(instant, s)
  <1>1. CASE ~QuietAt(s, instant)
    <2>1. r = instant
      BY <1>1, Zenon DEF QuietAt, NextAllowedAt
    <2> QED
      BY <1>1, <2>1
  <1>2. CASE QuietAt(s, instant)
    <2>1. r = LocalTimeToInstant(end) /\ s.quiet /\ s.start # s.end /\ Inside(s, Local(instant))
      BY <1>2, Zenon DEF QuietAt, NextAllowedAt
    <2>2. Local(instant) \in Int
      BY LocalIs
    <2>3. /\ end \in Int /\ quiet \in 1 .. Day - 1
          /\ end - quiet <= Local(instant) /\ Local(instant) < end
          /\ \A k \in Int : end - quiet <= k /\ k < end => Inside(s, k)
          /\ \A k \in Int : end <= k /\ k < end - quiet + Day => ~Inside(s, k)
      BY <2>1, <2>2, QuietSpan DEF QuietLength
    <2> HIDE DEF r, end, quiet
    <2>4. /\ r \in Int
          /\ \/ Local(r) = end
             \/ r = zone.at /\ zone.at + zone.base <= end /\ end < zone.at + zone.base + zone.jump
      BY <2>1, <2>3, Resolved
    <2>5. ASSUME ~Twice(s, instant)
          PROVE  /\ instant < r
                 /\ \A t \in Int : instant <= t /\ t < r => end - quiet <= Local(t) /\ Local(t) < end
      <3>1. ~Repeats(end - quiet) /\ ~Repeats(end)
        BY <2>5 DEF Twice, end, quiet
      <3>2. zone.jump < 0 =>
              /\ end - quiet < zone.at + zone.base + zone.jump \/ end - quiet >= zone.at + zone.base
              /\ end < zone.at + zone.base + zone.jump \/ end >= zone.at + zone.base
        BY <2>3, <3>1, ZoneFacts DEF Repeats
      <3> DEFINE Is(t) == /\ t < zone.at => Local(t) = t + zone.base
                          /\ t >= zone.at => Local(t) = t + zone.base + zone.jump
      <3>3. Is(instant) /\ Is(r) /\ \A t \in Int : Is(t)
        BY <2>4, LocalIs
      <3>4. /\ zone.base \in Int /\ zone.jump \in Int /\ zone.at \in Int /\ instant \in Int /\ r \in Int
            /\ end \in Int /\ quiet \in Int /\ 1 <= quiet /\ Local(instant) \in Int
        BY <2>2, <2>3, <2>4, ZoneFacts
      <3>5. end - quiet <= Local(instant) /\ Local(instant) < end
        BY <2>3
      <3>6. instant < r
        <4>1. CASE zone.jump < 0
          BY <2>4, <3>2, <3>3, <3>4, <3>5, <4>1
        <4>2. CASE zone.jump >= 0
          BY <2>4, <3>3, <3>4, <3>5, <4>2
        <4> QED
          BY <3>4, <4>1, <4>2
      <3>7. ASSUME NEW t \in Int, instant <= t, t < r
            PROVE  end - quiet <= Local(t) /\ Local(t) < end
        <4>0. Is(t)
          BY <3>3
        <4>1. CASE zone.jump < 0
          BY <2>4, <3>2, <3>3, <3>4, <3>5, <3>7, <4>0, <4>1
        <4>2. CASE zone.jump >= 0
          BY <2>4, <3>3, <3>4, <3>5, <3>7, <4>0, <4>2
        <4> QED
          BY <3>4, <4>1, <4>2
      <3> QED
        BY <3>6, <3>7
    <2>6. QuietAt(s, r) => Day - quiet <= zone.jump
      <3> SUFFICES ASSUME Inside(s, Local(r)), zone.jump < Day - quiet
                   PROVE  FALSE
        BY <2>3, ZoneFacts DEF QuietAt
      <3>1. Local(r) \in Int /\ end <= Local(r) /\ Local(r) < end - quiet + Day
        BY <2>3, <2>4, LocalIs, ZoneFacts
      <3> QED
        BY <2>3, <3>1
    <2>7. ASSUME ~Twice(s, instant), NEW t \in instant .. r - 1
          PROVE  QuietAt(s, t)
      <3>1. t \in Int /\ instant <= t /\ t < r
        BY <2>4, <2>7
      <3>2. Inside(s, Local(t))
        BY <2>3, <2>5, <2>7, <3>1, LocalIs
      <3> QED
        BY <2>1, <3>2, Zenon DEF QuietAt
    <2> QED
      BY <1>2, <2>4, <2>5, <2>6, <2>7 DEF r, quiet
  <1> QED
    BY <1>1, <1>2

-----------------------------------------------------------------------------
(***************************************************************************)
(* The invariant: a link is what its user was told unless a command under  *)
(* way may take it back (ThreatsKnown), and every notice is Wanted.        *)
(***************************************************************************)

\* What a user knows who does not know of a link.
Answers == {NoChat, "unsure"}

CommandFits(c) ==
  /\ c.at \in {"idle", "create", "revoke", "disable", "save"}
  /\ c.at # "idle" => c.user \in Recipients
  /\ c.at = "save" => c.patch \in Patches

NoticeFits(m) ==
  /\ m.state \in {"none", "members", "read", "waiting", "sending", "sent", "failed", "done"}
  /\ m.state \notin {"none", "done"} => m.user \in Recipients
  /\ m.state \in {"read", "waiting", "sending", "sent"} => Valid(m.setting)
  /\ m.state = "read" => m.now \in Int
  /\ m.state \in {"waiting", "sending", "sent"} => m.since \in Int
  /\ m.state \in {"waiting", "failed"} => m.availableAt \in Int

NTypeOK ==
  /\ moment \in Int /\ zone \in Zones
  /\ DOMAIN setting = Recipients /\ \A u \in Recipients : Valid(setting[u])
  /\ link \in [Recipients -> [chat : Chats \union {NoChat}, active : BOOLEAN]]
  /\ tokens \in [Recipients -> Nat] /\ commands \in Nat
  /\ DOMAIN command = Callers /\ \A c \in Callers : CommandFits(command[c])
  /\ DOMAIN notice = Notices /\ \A n \in Notices : NoticeFits(notice[n])
  /\ inbox \subseteq Notices
  /\ told \in [Recipients -> Chats \union Answers]

\* Who may lose his link by a command under way is not sure of it.
ThreatsKnown == \A u \in Recipients : Threatened(u) => told[u] \in Answers

\* What NoticesAreWanted says of one notice.
Wanted(m) ==
  /\ m.state \in {"sending", "sent"} =>
       /\ m.expected \in {m.chat, "unsure"}
       /\ QuietAt(m.setting, m.since) => Twice(m.setting, m.since)
  /\ m.state = "waiting" /\ ~Twice(m.setting, m.since) =>
       /\ m.since <= m.availableAt
       /\ QuietAt(m.setting, m.availableAt) => Day - QuietLength(m.setting) <= zone.jump
       /\ \A t \in m.since .. m.availableAt - 1 : QuietAt(m.setting, t)

LinksFit == LinkHolds /\ Distinct /\ ThreatsKnown

NoticesInv == NTypeOK /\ LinksFit /\ \A n \in Notices : Wanted(notice[n])

LEMMA InvIsWanted == NoticesInv => NoticesAreWanted
  <1> SUFFICES ASSUME NoticesInv, NEW n \in Notices
               PROVE  LET m     == notice[n]
                          end   == TargetOf(m.setting, Local(m.since))
                          quiet == (m.setting.end - m.setting.start) % Day
                          twice == Repeats(end - quiet) \/ Repeats(end)
                      IN
                      /\ m.state \in {"sending", "sent"} =>
                           /\ m.expected \in {m.chat, "unsure"}
                           /\ QuietAt(m.setting, m.since) => twice
                      /\ m.state = "waiting" /\ ~twice =>
                           /\ m.since <= m.availableAt
                           /\ QuietAt(m.setting, m.availableAt) => Day - quiet <= zone.jump
                           /\ \A t \in m.since .. m.availableAt - 1 : QuietAt(m.setting, t)
    BY DEF NoticesInv, LinksFit, NoticesAreWanted
  <1>1. Wanted(notice[n])
    BY DEF NoticesInv
  <1> QED
    BY <1>1 DEF Wanted, Twice, QuietLength

\* A setting has the hours it needs.
LEMMA Hours ==
  ASSUME NEW s, Valid(s)
  PROVE  s.start \in 0 .. Day - 1 /\ s.end \in 0 .. Day - 1
  BY DEF Valid, Fields, ValuesOf

\* What is queued waits as it should.
LEMMA QueuedIsWanted ==
  ASSUME zone \in Zones, NEW m, Valid(m.setting), m.now \in Int, m.user \in Recipients
  PROVE  LET q == Queued(m, NextAllowedAt(m.now, m.setting)) IN NoticeFits(q) /\ Wanted(q)
  <1> DEFINE until == NextAllowedAt(m.now, m.setting)
             q  == Queued(m, until)
  <1>1. /\ q.state = "waiting" /\ q.user = m.user /\ q.availableAt = until
        /\ q.since = m.now /\ q.setting = m.setting
    BY DEF Queued
  <1>2. until \in Int /\ (~Twice(m.setting, m.now) =>
              /\ m.now <= until
              /\ QuietAt(m.setting, until) => Day - QuietLength(m.setting) <= zone.jump
              /\ \A t \in m.now .. until - 1 : QuietAt(m.setting, t))
    BY Hours, FirstAllowed
  <1> HIDE DEF until, q
  <1> QED
    BY <1>1, <1>2 DEF NoticeFits, Wanted, until, q

\* What is sent is sent when it may be.
LEMMA SentIsAllowed ==
  ASSUME zone \in Zones, NEW s, Valid(s), NEW instant \in Int, ~(NextAllowedAt(instant, s) > instant)
  PROVE  QuietAt(s, instant) => Twice(s, instant)
  BY Hours, FirstAllowed

LEMMA NoticesInit == NInit => NoticesInv
  <1> SUFFICES ASSUME NInit PROVE NoticesInv
    OBVIOUS
  <1>1. NTypeOK
    <2>1. moment \in Int /\ zone \in Zones
      BY NoticesAssumption DEF NInit
    <2>2. DOMAIN setting = Recipients /\ \A u \in Recipients : Valid(setting[u])
      BY NoticesAssumption DEF NInit
    <2>3. link \in [Recipients -> [chat : Chats \union {NoChat}, active : BOOLEAN]]
      <3>1. link \in [Recipients -> {Unlinked} \union {Linked(chat) : chat \in Chats}]
        BY DEF NInit
      <3>2. Unlinked \in [chat : Chats \union {NoChat}, active : BOOLEAN]
        BY DEF Unlinked
      <3>3. \A chat \in Chats : Linked(chat) \in [chat : Chats \union {NoChat}, active : BOOLEAN]
        BY DEF Linked
      <3> QED
        BY <3>1, <3>2, <3>3
    <2>4. tokens \in [Recipients -> Nat] /\ commands \in Nat /\ inbox \subseteq Notices
      BY DEF NInit
    <2>5. DOMAIN command = Callers /\ \A c \in Callers : CommandFits(command[c])
      BY DEF NInit, NoCommand, CommandFits
    <2>6. DOMAIN notice = Notices /\ \A n \in Notices : NoticeFits(notice[n])
      BY DEF NInit, NoNotice, NoticeFits
    <2>7. told \in [Recipients -> Chats \union Answers]
      <3>1. \A u \in Recipients : link[u].chat \in Chats \union {NoChat}
        BY <2>3
      <3> QED
        BY <3>1 DEF NInit, Answers
    <2> QED
      BY <2>1, <2>2, <2>3, <2>4, <2>5, <2>6, <2>7 DEF NTypeOK
  <1>2. LinksFit
    BY NoticesAssumption DEF NInit, LinksFit, LinkHolds, ThreatsKnown, Threatened, NoCommand, Linked, Unlinked, Answers
  <1>3. ASSUME NEW n \in Notices PROVE Wanted(notice[n])
    BY <1>3 DEF NInit, NoNotice, Wanted
  <1> QED
    BY <1>1, <1>2, <1>3 DEF NoticesInv

\* What users do leaves the notices and the time alone.
LEMMA UserStepFrame == UserStep => UNCHANGED <<moment, zone, notice, inbox>>
  BY DEF UserStep, ForgetTokens, RevokeLink, CheckSetting, CreateToken, Disable, SaveSetting, FindConnection,
         TokenExpires, Exchange, clockVars

\* A command begins or ends.
LEMMA CommandBegins ==
  ASSUME NTypeOK, NEW c \in Callers, NEW state, CommandFits(state), Commence(c, state)
  PROVE  /\ DOMAIN command' = Callers /\ commands' \in Nat
         /\ \A d \in Callers : CommandFits(command'[d])
         /\ command' = [command EXCEPT ![c] = state]
  BY DEF NTypeOK, Commence

LEMMA CommandEnds ==
  ASSUME NTypeOK, NEW c \in Callers, Conclude(c)
  PROVE  /\ DOMAIN command' = Callers /\ commands' \in Nat
         /\ \A d \in Callers : CommandFits(command'[d])
         /\ \A d \in Callers : command'[d] = command[d] \/ command'[d].at = "idle"
  BY DEF NTypeOK, Conclude, CommandFits, NoCommand

\* The types are kept.
LEMMA UserTypesKept ==
  ASSUME NTypeOK, UserStep
  PROVE  NTypeOK'
  <1> DEFINE TablesFit ==
        /\ DOMAIN setting' = Recipients /\ \A u \in Recipients : Valid(setting'[u])
        /\ link' \in [Recipients -> [chat : Chats \union {NoChat}, active : BOOLEAN]]
        /\ tokens' \in [Recipients -> Nat]
        /\ told' \in [Recipients -> Chats \union Answers]
  <1> DEFINE CommandsFit ==
        /\ commands' \in Nat
        /\ DOMAIN command' = Callers /\ \A c \in Callers : CommandFits(command'[c])
  <1>1. ASSUME NEW c \in Callers, NEW u \in Recipients, ForgetTokens(c, u) PROVE TablesFit /\ CommandsFit
    <2>1. CommandFits([at |-> "create", user |-> u])
      BY DEF CommandFits
    <2> QED
      BY <1>1, <2>1, CommandBegins DEF ForgetTokens, NTypeOK
  <1>2. ASSUME NEW c \in Callers, NEW u \in Recipients, RevokeLink(c, u) PROVE TablesFit /\ CommandsFit
    <2>1. CommandFits([at |-> "disable", user |-> u])
      BY DEF CommandFits
    <2>2. TablesFit
      BY <1>2 DEF RevokeLink, NTypeOK, Answers
    <2>3. CASE Commence(c, [at |-> "disable", user |-> u])
      BY <2>1, <2>2, <2>3, CommandBegins
    <2>4. CASE /\ command[c].at = "revoke" /\ command[c].user = u
               /\ command' = [command EXCEPT ![c].at = "disable"]
               /\ UNCHANGED commands
      BY <2>2, <2>4 DEF NTypeOK, CommandFits
    <2> QED
      BY <1>2, <2>3, <2>4 DEF RevokeLink
  <1>3. ASSUME NEW c \in Callers, NEW u \in Recipients, NEW patch \in Patches, CheckSetting(c, u, patch)
        PROVE  TablesFit /\ CommandsFit
    <2>1. CommandFits([at |-> "save", user |-> u, patch |-> patch])
      BY DEF CommandFits
    <2> QED
      BY <1>3, <2>1, CommandBegins DEF CheckSetting, NTypeOK, Answers
  <1>4. ASSUME NEW c \in Callers, CreateToken(c) PROVE TablesFit /\ CommandsFit
    <2>1. command[c].user \in Recipients
      BY <1>4 DEF CreateToken, NTypeOK, CommandFits
    <2> QED
      BY <1>4, <2>1, CommandEnds DEF CreateToken, NTypeOK
  <1>5. ASSUME NEW c \in Callers, Disable(c) PROVE TablesFit /\ CommandsFit
    <2> DEFINE u == command[c].user
    <2>1. u \in Recipients /\ CommandsFit
      BY <1>5, CommandEnds DEF Disable, NTypeOK, CommandFits
    <2>2. Valid([setting[u] EXCEPT !.telegram = FALSE])
      BY <2>1 DEF NTypeOK, Valid, Fields, ValuesOf
    <2> QED
      BY <1>5, <2>1, <2>2 DEF Disable, NTypeOK, Answers
  <1>6. ASSUME NEW c \in Callers, SaveSetting(c) PROVE TablesFit /\ CommandsFit
    <2> DEFINE u == command[c].user
               patch == command[c].patch
               saved == [f \in Fields |-> IF f \in DOMAIN patch THEN patch[f] ELSE setting[u][f]]
    <2>1. u \in Recipients /\ patch \in Patches /\ CommandsFit
      BY <1>6, CommandEnds DEF SaveSetting, NTypeOK, CommandFits
    <2>2. Valid(saved)
      BY <2>1, NoticesAssumption DEF NTypeOK, Valid
    <2>3. setting' = [setting EXCEPT ![u] = saved]
      BY <1>6 DEF SaveSetting
    <2> HIDE DEF saved
    <2> QED
      BY <1>6, <2>1, <2>2, <2>3 DEF SaveSetting, NTypeOK
  <1>7. ASSUME NEW c \in Callers, NEW chat \in Chats, FindConnection(c, chat) PROVE TablesFit /\ CommandsFit
    <2>1. PICK u \in Recipients : /\ Commence(c, [at |-> "revoke", user |-> u])
                                  /\ told' = [told EXCEPT ![u] = "unsure"]
      BY <1>7 DEF FindConnection
    <2>2. CommandFits([at |-> "revoke", user |-> u])
      BY DEF CommandFits
    <2> QED
      BY <1>7, <2>1, <2>2, CommandBegins DEF FindConnection, NTypeOK, Answers
  <1>8. ASSUME NEW u \in Recipients, TokenExpires(u) PROVE TablesFit /\ CommandsFit
    BY <1>8 DEF TokenExpires, NTypeOK
  <1>9. ASSUME NEW u \in Recipients, NEW chat \in Chats, Exchange(u, chat) PROVE TablesFit /\ CommandsFit
    <2>1. Valid([setting[u] EXCEPT !.telegram = TRUE])
      BY DEF NTypeOK, Valid, Fields, ValuesOf
    <2> QED
      BY <1>9, <2>1 DEF Exchange, NTypeOK, Answers, Linked
  <1>10. TablesFit /\ CommandsFit
    BY <1>1, <1>2, <1>3, <1>4, <1>5, <1>6, <1>7, <1>8, <1>9 DEF UserStep
  <1> HIDE DEF TablesFit, CommandsFit
  <1>11. DOMAIN notice' = Notices /\ (\A n \in Notices : NoticeFits(notice'[n]))
         /\ moment' \in Int /\ zone' \in Zones /\ inbox' \subseteq Notices
    BY UserStepFrame DEF NTypeOK
  <1> QED
    BY <1>10, <1>11 DEF NTypeOK, TablesFit, CommandsFit

\* A link holds as long as its user can rely on it.
LEMMA LinksKept ==
  ASSUME NTypeOK, LinksFit, UserStep
  PROVE  LinksFit'
  <1>0. \A c \in Callers : command[c].at # "idle" => command[c].user \in Recipients
    BY DEF NTypeOK, CommandFits
  <1>1. ASSUME NEW c \in Callers, NEW u \in Recipients, ForgetTokens(c, u) PROVE LinksFit'
    BY <1>1 DEF ForgetTokens, Commence, NTypeOK, LinksFit, LinkHolds, Distinct, ThreatsKnown, Threatened
  <1>2. ASSUME NEW c \in Callers, NEW u \in Recipients, RevokeLink(c, u) PROVE LinksFit'
    <2>1. told'[u] \in Answers /\ \A v \in Recipients : v # u => told'[v] = told[v]
      BY <1>2 DEF RevokeLink, NTypeOK, LinksFit, ThreatsKnown, Threatened, Answers
    <2>2. \A v \in Recipients : Threatened(v)' => v = u \/ Threatened(v)
      <3>1. \A d \in Callers : command'[d] = command[d] \/ command'[d].user = u
        <4>1. CASE Commence(c, [at |-> "disable", user |-> u])
          BY <4>1 DEF Commence, NTypeOK
        <4>2. CASE command[c].user = u /\ command' = [command EXCEPT ![c].at = "disable"]
          BY <4>2 DEF NTypeOK
        <4> QED
          BY <1>2, <4>1, <4>2 DEF RevokeLink
      <3> QED
        BY <3>1 DEF Threatened
    <2>3. /\ ~link'[u].active /\ \A v \in Recipients : link'[v].chat = link[v].chat
          /\ \A v \in Recipients : v # u => link'[v] = link[v]
      BY <1>2 DEF RevokeLink, NTypeOK
    <2>4. setting' = setting
      BY <1>2 DEF RevokeLink
    <2> QED
      BY <2>1, <2>2, <2>3, <2>4, NoticesAssumption DEF LinksFit, LinkHolds, Distinct, ThreatsKnown, Answers
  <1>3. ASSUME NEW c \in Callers, NEW u \in Recipients, NEW patch \in Patches, CheckSetting(c, u, patch)
        PROVE  LinksFit'
    <2>1. /\ \A v \in Recipients : told'[v] \in {told[v], "unsure"}
          /\ "telegram" \in DOMAIN patch => told'[u] \in Answers
      BY <1>3 DEF CheckSetting, NTypeOK, Answers
    <2>2. \A v \in Recipients : Threatened(v)' => Threatened(v) \/ (v = u /\ "telegram" \in DOMAIN patch)
      <3>1. Commence(c, [at |-> "save", user |-> u, patch |-> patch])
        BY <1>3 DEF CheckSetting
      <3>2. \A d \in Callers : \/ command'[d] = command[d]
                              \/ /\ command'[d].at = "save" /\ command'[d].user = u
                                 /\ command'[d].patch = patch
        BY <3>1 DEF Commence, NTypeOK
      <3> SUFFICES ASSUME NEW v \in Recipients, NEW d \in Callers,
                          \/ command'[d].at \in {"revoke", "disable"} /\ command'[d].user = v
                          \/ command'[d].at = "save" /\ command'[d].user = v
                             /\ "telegram" \in DOMAIN command'[d].patch
                   PROVE  Threatened(v) \/ (v = u /\ "telegram" \in DOMAIN patch)
        BY DEF Threatened
      <3>3. CASE command'[d] = command[d]
        BY <3>3 DEF Threatened
      <3>4. CASE command'[d].at = "save" /\ command'[d].user = u /\ command'[d].patch = patch
        BY <3>4
      <3> QED
        BY <3>2, <3>3, <3>4
    <2>3. UNCHANGED <<setting, link>>
      BY <1>3 DEF CheckSetting
    <2> QED
      BY <2>1, <2>2, <2>3, NoticesAssumption DEF LinksFit, LinkHolds, Distinct, ThreatsKnown, Answers
  <1>4. ASSUME NEW c \in Callers, CreateToken(c) PROVE LinksFit'
    BY <1>4 DEF CreateToken, Conclude, NoCommand, NTypeOK, LinksFit, LinkHolds, Distinct, ThreatsKnown, Threatened
  <1>5. ASSUME NEW c \in Callers, Disable(c) PROVE LinksFit'
    <2> DEFINE u == command[c].user
    <2>1. u \in Recipients /\ Threatened(u) /\ told[u] \in Answers
      BY <1>0, <1>5 DEF Disable, LinksFit, ThreatsKnown, Threatened
    <2>2. /\ told'[u] \in Answers /\ (told'[u] = NoChat => ~link[u].active)
          /\ \A v \in Recipients : v # u => told'[v] = told[v] /\ setting'[v] = setting[v]
      BY <1>5, <2>1 DEF Disable, NTypeOK, LinksFit, LinkHolds, Answers
    <2>3. link' = link
      BY <1>5 DEF Disable
    <2>4. \A v \in Recipients : Threatened(v)' => Threatened(v)
      <3>1. \A d \in Callers : command'[d] = command[d] \/ command'[d].at = "idle"
        BY <1>5, CommandEnds DEF Disable
      <3> QED
        BY <3>1 DEF Threatened
    <2> QED
      BY <2>1, <2>2, <2>3, <2>4, NoticesAssumption DEF LinksFit, LinkHolds, Distinct, ThreatsKnown, Answers
  <1>6. ASSUME NEW c \in Callers, SaveSetting(c) PROVE LinksFit'
    <2> DEFINE u == command[c].user
               patch == command[c].patch
    <2>1. u \in Recipients /\ ("telegram" \in DOMAIN patch => told[u] \in Answers)
      BY <1>0, <1>6 DEF SaveSetting, LinksFit, ThreatsKnown, Threatened
    <2>2. /\ \A v \in Recipients : v # u => setting'[v] = setting[v]
          /\ "telegram" \notin DOMAIN patch => setting'[u].telegram = setting[u].telegram
      BY <1>6, <2>1 DEF SaveSetting, NTypeOK, Fields
    <2>3. UNCHANGED <<link, told>>
      BY <1>6 DEF SaveSetting
    <2>4. \A v \in Recipients : Threatened(v)' => Threatened(v)
      <3>1. \A d \in Callers : command'[d] = command[d] \/ command'[d].at = "idle"
        BY <1>6, CommandEnds DEF SaveSetting
      <3> QED
        BY <3>1 DEF Threatened
    <2> QED
      BY <2>1, <2>2, <2>3, <2>4, NoticesAssumption DEF LinksFit, LinkHolds, Distinct, ThreatsKnown, Answers
  <1>7. ASSUME NEW c \in Callers, NEW chat \in Chats, FindConnection(c, chat) PROVE LinksFit'
    <2>1. PICK u \in Recipients : /\ Commence(c, [at |-> "revoke", user |-> u])
                                  /\ told' = [told EXCEPT ![u] = "unsure"]
      BY <1>7 DEF FindConnection
    <2>2. told'[u] \in Answers /\ told'[u] # NoChat /\ \A v \in Recipients : v # u => told'[v] = told[v]
      BY <2>1, NoticesAssumption DEF NTypeOK, Answers
    <2>3. UNCHANGED <<setting, link>>
      BY <1>7 DEF FindConnection
    <2>4. \A v \in Recipients : Threatened(v)' => v = u \/ Threatened(v)
      BY <2>1 DEF Commence, NTypeOK, Threatened
    <2> QED
      BY <2>2, <2>3, <2>4, NoticesAssumption DEF LinksFit, LinkHolds, Distinct, ThreatsKnown, Answers
  <1>8. ASSUME NEW u \in Recipients, TokenExpires(u) PROVE LinksFit'
    BY <1>8 DEF TokenExpires, LinksFit, LinkHolds, Distinct, ThreatsKnown, Threatened
  <1>9. ASSUME NEW u \in Recipients, NEW chat \in Chats, Exchange(u, chat) PROVE LinksFit'
    <2>1. /\ link'[u] = Linked(chat) /\ setting'[u].telegram = TRUE
          /\ told'[u] \in {"unsure", chat} /\ (Threatened(u) => told'[u] \in Answers)
      BY <1>9 DEF Exchange, NTypeOK, Valid, Fields, Answers
    <2>2. \A v \in Recipients : v # u => /\ told'[v] = told[v] /\ setting'[v] = setting[v]
                                         /\ link'[v] = link[v] /\ link[v].chat # chat
      BY <1>9 DEF Exchange, NTypeOK
    <2>3. \A v \in Recipients : Threatened(v)' => Threatened(v)
      BY <1>9 DEF Exchange, Threatened
    <2>4. chat # NoChat /\ "unsure" # NoChat /\ "unsure" \notin Chats
      BY NoticesAssumption
    <2>5. LinkHolds'
      BY <2>1, <2>2, <2>4 DEF LinksFit, LinkHolds, Linked
    <2>6. Distinct'
      BY <2>1, <2>2 DEF LinksFit, Distinct, Linked
    <2>7. ThreatsKnown'
      BY <2>1, <2>2, <2>3 DEF LinksFit, ThreatsKnown
    <2> QED
      BY <2>5, <2>6, <2>7 DEF LinksFit
  <1> QED
    BY <1>1, <1>2, <1>3, <1>4, <1>5, <1>6, <1>7, <1>8, <1>9 DEF UserStep

-----------------------------------------------------------------------------
-----------------------------------------------------------------------------
\* A step of a notice replaces it by one that is as it should be.
LEMMA NoticeReplaced ==
  ASSUME NoticesInv, NEW n \in Notices,
         \/ \E u \in Recipients : ReadRecipient(n, u) \/ ReadMembers(n, u)
         \/ ReadPreferences(n) \/ Dispatch(n) \/ LookUp(n) \/ Send(n) \/ SendFails(n)
  PROVE  \E new : notice' = [notice EXCEPT ![n] = new] /\ NoticeFits(new) /\ Wanted(new)
  <1> DEFINE Fine(new) == notice' = [notice EXCEPT ![n] = new] /\ NoticeFits(new) /\ Wanted(new)
             m == notice[n]
  <1>1. /\ moment \in Int /\ zone \in Zones /\ NoticeFits(m) /\ Wanted(m) /\ LinksFit
        /\ \A u \in Recipients : Valid(setting[u])
        /\ told \in [Recipients -> Chats \union Answers]
    BY DEF NoticesInv, NTypeOK
  <1>2. ASSUME NEW u \in Recipients, ReadRecipient(n, u) PROVE \E new : Fine(new)
    <2>1. PICK instant \in {moment - 1, moment} :
            notice' = [notice EXCEPT ![n] = [state |-> "read", user |-> u, active |-> link[u].active,
                                             setting |-> setting[u], now |-> instant]]
      BY <1>2 DEF ReadRecipient
    <2> DEFINE new == [state |-> "read", user |-> u, active |-> link[u].active,
                       setting |-> setting[u], now |-> instant]
    <2>2. NoticeFits(new) /\ Wanted(new)
      BY <1>1 DEF NoticeFits, Wanted
    <2> QED
      BY <2>1, <2>2
  <1>3. ASSUME NEW u \in Recipients, ReadMembers(n, u) PROVE \E new : Fine(new)
    <2> DEFINE new == [state |-> "members", user |-> u, active |-> link[u].active]
    <2>1. NoticeFits(new) /\ Wanted(new)
      BY DEF NoticeFits, Wanted
    <2> QED
      BY <1>3, <2>1 DEF ReadMembers
  <1>4. ASSUME ReadPreferences(n) PROVE \E new : Fine(new)
    <2> DEFINE new == [state |-> "read", user |-> m.user, active |-> m.active,
                       setting |-> setting[m.user], now |-> moment]
    <2>1. m.user \in Recipients /\ notice' = [notice EXCEPT ![n] = new]
      BY <1>1, <1>4 DEF ReadPreferences, NoticeFits
    <2>2. NoticeFits(new) /\ Wanted(new)
      BY <1>1, <2>1 DEF NoticeFits, Wanted
    <2> QED
      BY <2>1, <2>2
  <1> DEFINE done == [state |-> "done"]
  <1>5. NoticeFits(done) /\ Wanted(done)
    BY DEF NoticeFits, Wanted
  <1> HIDE DEF done
  <1>6. ASSUME Dispatch(n) PROVE \E new : Fine(new)
    <2> DEFINE q == Queued(m, NextAllowedAt(m.now, m.setting))
    <2>1. Valid(m.setting) /\ m.now \in Int /\ m.user \in Recipients
      BY <1>1, <1>6 DEF Dispatch, NoticeFits
    <2>2. NoticeFits(q) /\ Wanted(q)
      BY <1>1, <2>1, QueuedIsWanted
    <2> HIDE DEF q
    <2>3. notice' = [notice EXCEPT ![n] = q] \/ notice' = [notice EXCEPT ![n] = done]
      BY <1>6 DEF Dispatch, q, done
    <2> QED
      BY <1>5, <2>2, <2>3
  <1>7. ASSUME LookUp(n) PROVE \E new : Fine(new)
    <2> DEFINE u     == m.user
               looked == [user |-> u, setting |-> setting[u], now |-> moment]
               later == NextAllowedAt(moment, setting[u])
               q     == Queued(looked, later)
               sent  == [state |-> "sending", user |-> u, chat |-> link[u].chat, since |-> moment,
                         setting |-> setting[u], expected |-> told[u]]
    <2>1. u \in Recipients /\ Valid(setting[u])
      BY <1>1, <1>7 DEF LookUp, NoticeFits
    <2>2. NoticeFits(q) /\ Wanted(q)
      <3>1. Valid(looked.setting) /\ looked.now \in Int /\ looked.user \in Recipients
            /\ q = Queued(looked, NextAllowedAt(looked.now, looked.setting))
        BY <1>1, <2>1
      <3> HIDE DEF looked, q
      <3> QED
        BY <1>1, <3>1, QueuedIsWanted
    <2>3. ASSUME link[u].active, ~(later > moment) PROVE NoticeFits(sent) /\ Wanted(sent)
      <3>1. told[u] # NoChat /\ (told[u] \in Chats => link[u].chat = told[u])
        <4>1. /\ told[u] = NoChat => ~link[u].active
              /\ told[u] \in Chats => link[u] = Linked(told[u])
          BY <1>1, <2>1 DEF LinksFit, LinkHolds
        <4> QED
          BY <2>3, <4>1 DEF Linked
      <3>2. told[u] \in {link[u].chat, "unsure"}
        BY <1>1, <2>1, <3>1 DEF Answers
      <3>3. QuietAt(setting[u], moment) => Twice(setting[u], moment)
        BY <1>1, <2>1, <2>3, SentIsAllowed
      <3>4. /\ sent.state = "sending" /\ sent.user = u /\ sent.chat = link[u].chat /\ sent.since = moment
            /\ sent.setting = setting[u] /\ sent.expected = told[u]
        OBVIOUS
      <3> HIDE DEF sent
      <3> QED
        BY <1>1, <2>1, <3>2, <3>3, <3>4 DEF NoticeFits, Wanted
    <2> HIDE DEF q, sent
    <2>4. \/ notice' = [notice EXCEPT ![n] = done]
          \/ notice' = [notice EXCEPT ![n] = q]
          \/ link[u].active /\ ~(later > moment) /\ notice' = [notice EXCEPT ![n] = sent]
      BY <1>7 DEF LookUp, q, sent, done
    <2> QED
      BY <1>5, <2>2, <2>3, <2>4
  <1>8. ASSUME Send(n) PROVE \E new : Fine(new)
    <2> DEFINE new == [m EXCEPT !.state = "sent"]
    <2>1. /\ m.state = "sending" /\ new.state = "sent" /\ notice' = [notice EXCEPT ![n] = new]
          /\ new.user = m.user /\ new.setting = m.setting /\ new.since = m.since
          /\ new.chat = m.chat /\ new.expected = m.expected
      BY <1>8 DEF Send
    <2> HIDE DEF new
    <2>2. NoticeFits(new) /\ Wanted(new)
      BY <1>1, <2>1 DEF NoticeFits, Wanted
    <2> QED
      BY <2>1, <2>2
  <1>9. ASSUME SendFails(n) PROVE \E new : Fine(new)
    <2> DEFINE new == [state |-> "failed", user |-> m.user, availableAt |-> moment]
    <2>1. m.user \in Recipients /\ notice' = [notice EXCEPT ![n] = new]
      BY <1>1, <1>9 DEF SendFails, NoticeFits
    <2>2. NoticeFits(new) /\ Wanted(new)
      BY <1>1, <2>1 DEF NoticeFits, Wanted
    <2> QED
      BY <2>1, <2>2
  <1> QED
    BY <1>2, <1>3, <1>4, <1>6, <1>7, <1>8, <1>9

\* What is wanted does not depend on anything that changes but the notice.
LEMMA WantedStays ==
  ASSUME zone' = zone, NEW m, Wanted(m)
  PROVE  Wanted(m)'
  BY DEF Wanted, Twice, QuietLength, QuietAt, Repeats, TargetOf, Inside, Local, DateOf, MinuteOf

LEMMA NoticeStepKept ==
  ASSUME NoticesInv, NoticeStep
  PROVE  NoticesInv'
  <1>1. /\ UNCHANGED <<moment, zone, setting, link, tokens, command, commands, told>>
        /\ inbox' \subseteq Notices
    BY DEF NoticeStep, ReadRecipient, ReadMembers, ReadPreferences, Dispatch, LookUp, Send, SendFails,
           clockVars, userVars, NoticesInv, NTypeOK
  <1>2. PICK n \in Notices : \/ \E u \in Recipients : ReadRecipient(n, u) \/ ReadMembers(n, u)
                             \/ ReadPreferences(n) \/ Dispatch(n) \/ LookUp(n) \/ Send(n) \/ SendFails(n)
    BY DEF NoticeStep
  <1>3. PICK new : notice' = [notice EXCEPT ![n] = new] /\ NoticeFits(new) /\ Wanted(new)
    BY <1>2, NoticeReplaced
  <1>4. DOMAIN notice = Notices /\ \A k \in Notices : NoticeFits(notice[k]) /\ Wanted(notice[k])
    BY DEF NoticesInv, NTypeOK
  <1>5. DOMAIN notice' = Notices /\ \A k \in Notices : NoticeFits(notice'[k]) /\ Wanted(notice'[k])
    BY <1>3, <1>4
  <1>6. NTypeOK'
    BY <1>1, <1>5 DEF NoticesInv, NTypeOK
  <1>7. LinksFit'
    BY <1>1 DEF NoticesInv, LinksFit, LinkHolds, Distinct, ThreatsKnown, Threatened
  <1>8. \A k \in Notices : Wanted(notice[k])'
    BY <1>1, <1>5, WantedStays
  <1> QED
    BY <1>6, <1>7, <1>8 DEF NoticesInv

LEMMA NoticesKept == NoticesInv /\ [NNext]_nvars => NoticesInv'
  <1> SUFFICES ASSUME NoticesInv, [NNext]_nvars PROVE NoticesInv'
    OBVIOUS
  <1>1. CASE TimePasses
    <2>1. UNCHANGED <<zone, setting, link, tokens, command, commands, told, notice, inbox>> /\ moment' \in Int
      BY <1>1 DEF TimePasses, userVars, NoticesInv, NTypeOK
    <2>2. NTypeOK'
      BY <2>1 DEF NoticesInv, NTypeOK
    <2>3. LinksFit'
      BY <2>1 DEF NoticesInv, LinksFit, LinkHolds, Distinct, ThreatsKnown, Threatened
    <2>4. \A n \in Notices : Wanted(notice[n])'
      BY <2>1, WantedStays DEF NoticesInv
    <2> QED
      BY <2>2, <2>3, <2>4 DEF NoticesInv
  <1>2. CASE UserStep
    <2>1. NTypeOK' /\ LinksFit'
      BY <1>2, UserTypesKept, LinksKept DEF NoticesInv
    <2>2. \A n \in Notices : Wanted(notice[n])'
      BY <1>2, UserStepFrame, WantedStays DEF NoticesInv
    <2> QED
      BY <2>1, <2>2 DEF NoticesInv
  <1>3. CASE NoticeStep
    BY <1>3, NoticeStepKept
  <1>4. CASE UNCHANGED nvars
    <2>1. UNCHANGED <<moment, zone, setting, link, tokens, command, commands, told, notice, inbox>>
      BY <1>4 DEF nvars, clockVars, userVars
    <2>2. NTypeOK'
      BY <2>1 DEF NoticesInv, NTypeOK
    <2>3. LinksFit'
      BY <2>1 DEF NoticesInv, LinksFit, LinkHolds, Distinct, ThreatsKnown, Threatened
    <2>4. \A n \in Notices : Wanted(notice[n])'
      BY <2>1, WantedStays DEF NoticesInv
    <2> QED
      BY <2>2, <2>3, <2>4 DEF NoticesInv
  <1> QED
    BY <1>1, <1>2, <1>3, <1>4 DEF NNext

\* The rows of the notices and the links keep their shape.
THEOREM NoticesTypeCorrect == NSpec => []NTypeOK
<1>1. NoticesInv => NTypeOK
  BY DEF NoticesInv
<1> QED BY <1>1, NoticesInit, NoticesKept, PTL DEF NSpec

\* A message goes to the chat its recipient knows to be linked, outside his quiet
\* hours, and waits for the first moment outside them, in every zone with one
\* change of the clock (NoticesAreWanted).
THEOREM NoticesAlwaysWanted == NSpec => []NoticesAreWanted
<1> QED BY InvIsWanted, NoticesInit, NoticesKept, PTL DEF NSpec
=============================================================================
