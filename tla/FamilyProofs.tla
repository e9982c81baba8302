---------------------------- MODULE FamilyProofs -----------------------------
(***************************************************************************)
(* Theorems about families, for any users, invitations, families and       *)
(* calls: who is a member is not invited, a family has one invitation that *)
(* founded it, it is dissolved by both of its founders, and what has ended *)
(* stays ended; and about accounts, for any sessions, tokens and times.    *)
(***************************************************************************)
EXTENDS Family, Account, FiniteSetTheorems, TLAPS

-----------------------------------------------------------------------------
(***************************************************************************)
(* Types.                                                                  *)
(***************************************************************************)

\* Settling invitations keeps their shape and touches no other.
LEMMA SettleShape ==
  ASSUME TypeOK, NEW S, NEW s \in {"none", "PENDING"} \union Outcomes
  PROVE  /\ Settle(S, s) \in [Invites -> {"none", "PENDING"} \union Outcomes]
         /\ \A i \in Invites : Settle(S, s)[i] = IF i \in S THEN s ELSE invite[i]
BY DEF Settle, TypeOK

\* What CancelSent does to an invitation.
LEMMA CancelSentShape ==
  ASSUME TypeOK, NEW u
  PROVE  /\ CancelSent(u) \in [Invites -> {"none", "PENDING"} \union Outcomes]
         /\ \A i \in Invites : CancelSent(u)[i] = invite[i]
                               \/ (i \in Pending /\ CancelSent(u)[i] = "CANCELLED")
<1>1. "CANCELLED" \in Outcomes
  BY DEF Outcomes
<1> QED BY <1>1, SettleShape DEF CancelSent

\* Founding a family gives it two members, who had none.
LEMMA FoundShape ==
  ASSUME TypeOK, NEW i \in Invites, Found(i)
  PROVE  \E f \in Families :
           /\ status[f] = "none" /\ \A u \in Parties(i) : Free(u)
           /\ status' \in [Families -> Statuses]
           /\ founders' \in [Families -> SUBSET Users]
           /\ member' \in [Users -> Families \union {NoFamily}]
           /\ status'[f] = "ACTIVE" /\ founders'[f] = Parties(i)
           /\ \A g \in Families \ {f} : status'[g] = status[g] /\ founders'[g] = founders[g]
           /\ \A u \in Users : member'[u] = IF u \in Parties(i) THEN f ELSE member[u]
<1>1. Parties(i) \in SUBSET Users
  BY FamilyAssumption DEF Parties
<1>2. PICK f \in Families :
        /\ status[f] = "none"
        /\ status'   = [status EXCEPT ![f] = "ACTIVE"]
        /\ founders' = [founders EXCEPT ![f] = Parties(i)]
        /\ member'   = [u \in Users |-> IF u \in Parties(i) THEN f ELSE member[u]]
  BY DEF Found
<1> QED BY <1>1, <1>2 DEF Found, TypeOK, Statuses

\* What an accepted invitation does to the others.
LEMMA AcceptShape ==
  ASSUME TypeOK, NEW i \in Invites, Accept(i) \/ AcceptPrivate(i)
  PROVE  /\ invite' \in [Invites -> {"none", "PENDING"} \union Outcomes]
         /\ invite[i] = "PENDING" /\ invite'[i] = "ACCEPTED"
         /\ \A j \in Invites \ {i} :
              \/ invite'[j] = invite[j] /\ j \notin Competing(i)
              \/ j \in Pending /\ invite'[j] = "CANCELLED"
         /\ Found(i) /\ UNCHANGED <<petition, confirmer, call>>
<1>1. "CANCELLED" \in Outcomes /\ "ACCEPTED" \in Outcomes
  BY DEF Outcomes
<1>2. PICK S : /\ invite' = [Settle(S, "CANCELLED") EXCEPT ![i] = "ACCEPTED"]
               /\ Competing(i) \subseteq S /\ S \subseteq Pending
  BY DEF Accept, AcceptPrivate, Competing, CompetingPrivate
<1>3. /\ Settle(S, "CANCELLED") \in [Invites -> {"none", "PENDING"} \union Outcomes]
      /\ \A j \in Invites : Settle(S, "CANCELLED")[j] = IF j \in S THEN "CANCELLED" ELSE invite[j]
  BY <1>1, SettleShape
<1> QED BY <1>1, <1>2, <1>3 DEF Accept, AcceptPrivate, Pending

\* The other invitation commands change one pending or new invitation, and the
\* ones it replaces.
LEMMA InvitationShape ==
  ASSUME TypeOK, NEW i \in Invites,
         Create(i) \/ CreatePrivate(i) \/ Reject(i) \/ Revoke(i) \/ Expire(i)
  PROVE  /\ invite' \in [Invites -> {"none", "PENDING"} \union Outcomes]
         /\ \A j \in Invites :
              \/ invite'[j] = invite[j]
              \/ j \in Pending /\ invite'[j] \in Outcomes \ {"ACCEPTED"}
              \/ j = i /\ invite[j] = "none" /\ invite'[j] = "PENDING"
         /\ UNCHANGED <<family, petition, confirmer, call>>
<1>1. {"CANCELLED", "REJECTED", "EXPIRED"} \subseteq Outcomes \ {"ACCEPTED"}
  BY DEF Outcomes
<1>2. CASE CreatePrivate(i)
  BY <1>1, <1>2 DEF CreatePrivate, TypeOK, Pending
<1>3. ASSUME NEW s \in {"PENDING"} \union Outcomes, invite' = Settle({i}, s)
      PROVE  /\ invite' \in [Invites -> {"none", "PENDING"} \union Outcomes]
             /\ \A j \in Invites : invite'[j] = IF j = i THEN s ELSE invite[j]
  BY <1>3, SettleShape
<1>4. CASE Create(i)
  BY <1>3, <1>4 DEF Create
<1>5. CASE Reject(i)
  BY <1>1, <1>3, <1>5 DEF Reject
<1>6. CASE Revoke(i)
  BY <1>1, <1>3, <1>6 DEF Revoke
<1>7. CASE Expire(i)
  BY <1>1, <1>3, <1>7 DEF Expire
<1> QED BY <1>2, <1>4, <1>5, <1>6, <1>7

\* A call goes to its next step and keeps what it has read, or is done.
LEMMA DoneShape ==
  ASSUME TypeOK, NEW c \in Calls, Done(c)
  PROVE  /\ pc' \in [Calls -> Labels] /\ UNCHANGED <<ctx, found, others>>
         /\ pc'[c] = "done" /\ \A d \in Calls \ {c} : pc'[d] = pc[d]
         /\ \A d \in Calls : pc'[d] \in {"ready", "deleted", "found"} => ctx'[d] \in Families
BY DEF Done, Goto, TypeOK, Labels

\* The steps of the calls keep the shape of rows and calls.
LEMMA CallTyped ==
  ASSUME TypeOK, NEW c \in Calls,
         \/ Start(c) \/ LeaveDelete(c) \/ LeaveCommit(c) \/ Archive(c) \/ Restore(c)
         \/ RequestDissolution(c) \/ ConfirmFind(c) \/ ConfirmCommit(c)
         \/ CancelDissolution(c) \/ Abort(c)
  PROVE  TypeOK'
<1> USE DEF family
<1>1. CASE Start(c)
  <2>1. CASE Done(c)
    BY <1>1, <2>1, DoneShape DEF Start, TypeOK
  <2>2. CASE ~Done(c)
    <3>1. /\ ctx' = [ctx EXCEPT ![c] = member[Caller[c]]] /\ Goto(c, "ready")
          /\ member[Caller[c]] # NoFamily /\ UNCHANGED <<found, others>>
      BY <1>1, <2>2 DEF Start
    <3>2. member[Caller[c]] \in Families
      BY <3>1, FamilyAssumption DEF TypeOK
    <3> QED BY <1>1, <3>1, <3>2 DEF Start, Goto, TypeOK, Labels
  <2> QED BY <2>1, <2>2
<1>2. CASE LeaveDelete(c)
  <2>1. CASE Done(c)
    BY <1>2, <2>1, DoneShape DEF LeaveDelete, TypeOK
  <2>2. CASE ~Done(c)
    <3>1. /\ others' = [others EXCEPT ![c] = Remaining(c)] /\ Goto(c, "deleted")
          /\ UNCHANGED <<ctx, found>> /\ pc[c] = "ready"
      BY <1>2, <2>2 DEF LeaveDelete
    <3>2. Remaining(c) \in SUBSET Users
      BY DEF Remaining
    <3> QED BY <1>2, <3>1, <3>2 DEF LeaveDelete, Goto, TypeOK, Labels
  <2> QED BY <2>1, <2>2
<1>3. CASE LeaveCommit(c)
  <2>1. status' \in [Families -> Statuses] /\ member' \in [Users -> Families \union {NoFamily}]
    BY <1>3 DEF LeaveCommit, TypeOK, Statuses
  <2>2. invite' \in [Invites -> {"none", "PENDING"} \union Outcomes]
    BY <1>3, CancelSentShape DEF LeaveCommit, TypeOK
  <2> QED BY <1>3, <2>1, <2>2, DoneShape DEF LeaveCommit, TypeOK
<1>4. CASE Archive(c)
  <2>1. status' \in [Families -> Statuses]
    BY <1>4 DEF Archive, TypeOK, Statuses
  <2>2. invite' \in [Invites -> {"none", "PENDING"} \union Outcomes]
    BY <1>4, CancelSentShape DEF Archive, TypeOK
  <2> QED BY <1>4, <2>1, <2>2, DoneShape DEF Archive, TypeOK
<1>5. CASE Restore(c)
  <2>1. status' \in [Families -> Statuses]
    BY <1>5 DEF Restore, TypeOK, Statuses
  <2> QED BY <1>5, <2>1, DoneShape DEF Restore, TypeOK
<1>6. CASE RequestDissolution(c) \/ CancelDissolution(c)
  <2>1. petition' \in [Calls -> {"none", "PENDING", "CONFIRMED", "CANCELLED"}]
    BY <1>6 DEF RequestDissolution, CancelDissolution, TypeOK
  <2> QED BY <1>6, <2>1, DoneShape DEF RequestDissolution, CancelDissolution, TypeOK
<1>7. CASE ConfirmFind(c)
  <2>1. CASE Done(c)
    BY <1>7, <2>1, DoneShape DEF ConfirmFind, TypeOK
  <2>2. CASE ~Done(c)
    <3>1. PICK d \in Petitions(c) : found' = [found EXCEPT ![c] = d]
      BY <1>7, <2>2 DEF ConfirmFind
    <3>2. d \in Calls
      BY DEF Petitions
    <3> QED BY <1>7, <2>2, <3>1, <3>2 DEF ConfirmFind, Goto, TypeOK, Labels
  <2> QED BY <2>1, <2>2
<1>8. CASE ConfirmCommit(c)
  <2>1. /\ status' \in [Families -> Statuses]
        /\ petition' \in [Calls -> {"none", "PENDING", "CONFIRMED", "CANCELLED"}]
        /\ confirmer' \in [Calls -> Calls \union {NoCall}]
    BY <1>8 DEF ConfirmCommit, TypeOK, Statuses
  <2> QED BY <1>8, <2>1, DoneShape DEF ConfirmCommit, TypeOK
<1>9. CASE Abort(c)
  BY <1>9, DoneShape DEF Abort, TypeOK
<1> QED BY <1>1, <1>2, <1>3, <1>4, <1>5, <1>6, <1>7, <1>8, <1>9

\* Every step keeps the shape of the rows.
LEMMA TypeKept == TypeOK /\ [Next]_vars => TypeOK'
<1> SUFFICES ASSUME TypeOK, [Next]_vars PROVE TypeOK'
  OBVIOUS
<1> USE DEF family, call
<1>1. CASE UNCHANGED vars
  BY <1>1 DEF vars, TypeOK
<1>2. ASSUME NEW i \in Invites,
             Create(i) \/ CreatePrivate(i) \/ Reject(i) \/ Revoke(i) \/ Expire(i)
      PROVE  TypeOK'
  BY <1>2, InvitationShape DEF TypeOK
<1>3. ASSUME NEW i \in Invites, Accept(i) \/ AcceptPrivate(i) PROVE TypeOK'
  BY <1>3, AcceptShape, FoundShape DEF TypeOK
<1> QED BY <1>1, <1>2, <1>3, CallTyped DEF Next

\* Families, invitations, petitions and calls keep their shape.
THEOREM FamilyTypeCorrect == Spec => []TypeOK
<1>1. Init => TypeOK
  BY DEF Init, TypeOK, Statuses, Labels
<1> QED BY <1>1, TypeKept, PTL DEF Spec

-----------------------------------------------------------------------------
(***************************************************************************)
(* What has ended stays ended.                                             *)
(***************************************************************************)

\* What a step of a call may do to the rows: its family lives on, is archived,
\* or is dissolved by a confirmation; members only leave; invitations are only
\* cancelled.
LEMMA CallEffect ==
  ASSUME TypeOK, NEW c \in Calls,
         \/ Start(c) \/ LeaveDelete(c) \/ LeaveCommit(c) \/ Archive(c) \/ Restore(c)
         \/ RequestDissolution(c) \/ ConfirmFind(c) \/ ConfirmCommit(c)
         \/ CancelDissolution(c) \/ Abort(c)
  PROVE  /\ founders' = founders
         /\ \A u \in Users : member'[u] = member[u] \/ member'[u] = NoFamily
         /\ \A i \in Invites : \/ invite'[i] = invite[i]
                               \/ i \in Pending /\ invite'[i] = "CANCELLED"
         /\ \A f \in Families :
              \/ status'[f] = status[f]
              \/ /\ f = ctx[c] /\ pc[c] \in {"ready", "deleted"}
                 /\ status[f] # "DISSOLVED" /\ status'[f] \in {"ACTIVE", "ARCHIVED"}
              \/ f = ctx[c] /\ ConfirmCommit(c) /\ status'[f] = "DISSOLVED"
<1> USE DEF family
<1>1. CASE \/ Start(c) \/ LeaveDelete(c) \/ RequestDissolution(c) \/ ConfirmFind(c)
           \/ CancelDissolution(c) \/ Abort(c)
  BY <1>1 DEF Start, LeaveDelete, RequestDissolution, ConfirmFind, CancelDissolution, Abort
<1>2. CASE LeaveCommit(c)
  BY <1>2, CancelSentShape DEF LeaveCommit, MayArchive, TypeOK
<1>3. CASE Archive(c)
  BY <1>3, CancelSentShape DEF Archive, TypeOK
<1>4. CASE Restore(c)
  BY <1>4 DEF Restore, TypeOK
<1>5. CASE ConfirmCommit(c)
  BY <1>5 DEF ConfirmCommit, TypeOK
<1> QED BY <1>1, <1>2, <1>3, <1>4, <1>5

\* A dissolved family and an answered invitation stay so (EndsAreFinal), also
\* under calls that read them before.
THEOREM EndsAlwaysFinal == Spec => EndsAreFinal
<1> DEFINE Kept == /\ \A f \in Families : status[f] = "DISSOLVED" => status'[f] = "DISSOLVED"
                   /\ \A i \in Invites : invite[i] \in Outcomes => invite'[i] = invite[i]
<1>1. TypeOK /\ [Next]_vars => [Kept]_vars
  <2> SUFFICES ASSUME TypeOK, Next PROVE Kept
    OBVIOUS
  <2>0. "none" \notin Outcomes /\ "PENDING" \notin Outcomes
    BY DEF Outcomes
  <2>1. ASSUME NEW i \in Invites,
               Create(i) \/ CreatePrivate(i) \/ Reject(i) \/ Revoke(i) \/ Expire(i)
        PROVE  Kept
    BY <2>0, <2>1, InvitationShape DEF family, Pending
  <2>2. ASSUME NEW i \in Invites, Accept(i) \/ AcceptPrivate(i) PROVE Kept
    BY <2>0, <2>2, AcceptShape, FoundShape DEF Pending
  <2>3. ASSUME NEW c \in Calls,
               \/ Start(c) \/ LeaveDelete(c) \/ LeaveCommit(c) \/ Archive(c) \/ Restore(c)
               \/ RequestDissolution(c) \/ ConfirmFind(c) \/ ConfirmCommit(c)
               \/ CancelDissolution(c) \/ Abort(c)
        PROVE  Kept
    BY <2>0, <2>3, CallEffect DEF Pending
  <2> QED BY <2>1, <2>2, <2>3 DEF Next
<1>2. QED
  BY <1>1, FamilyTypeCorrect, PTL DEF Spec, EndsAreFinal

-----------------------------------------------------------------------------
(***************************************************************************)
(* Invitations.                                                            *)
(***************************************************************************)

\* No member has a pending public invitation (MembersAreNotInvited): what create
\* checks and what an accept cancels leave no gap between them.
THEOREM MembersNeverInvited == Spec => []MembersAreNotInvited
<1> USE DEF family
<1>1. Init => MembersAreNotInvited
  <2>1. Init => TypeOK
    BY DEF Init, TypeOK, Statuses, Labels
  <2> QED BY <2>1 DEF Init, MembersAreNotInvited, Free
<1>2. MembersAreNotInvited /\ [Next]_vars => MembersAreNotInvited'
  <2> SUFFICES ASSUME MembersAreNotInvited, [Next]_vars PROVE MembersAreNotInvited'
    OBVIOUS
  <2>0. TypeOK /\ TypeOK'
    BY TypeKept DEF MembersAreNotInvited
  <2> SUFFICES ASSUME NEW u \in Users, NEW j \in Invites \ Private, invite'[j] = "PENDING",
                      u \in Parties(j)
               PROVE  member'[u] = NoFamily
    BY <2>0 DEF MembersAreNotInvited, Pending, Free
  <2>p. invite[j] = "PENDING" => member[u] = NoFamily
    BY DEF MembersAreNotInvited, Pending, Free
  <2>o. "PENDING" \notin Outcomes
    BY DEF Outcomes
  <2>1. CASE UNCHANGED vars
    BY <2>p, <2>1 DEF vars
  <2>2. ASSUME NEW i \in Invites,
               Create(i) \/ CreatePrivate(i) \/ Reject(i) \/ Revoke(i) \/ Expire(i)
        PROVE  member'[u] = NoFamily
    <3>1. member' = member /\ (invite[j] = "PENDING" \/ (j = i /\ invite[i] = "none"))
      BY <2>0, <2>o, <2>2, InvitationShape
    <3>2. CASE invite[j] = "PENDING"
      BY <2>p, <3>1, <3>2
    <3>3. CASE j = i /\ invite[i] = "none"
      <4>1. Create(i)
        BY <2>2, <3>3 DEF CreatePrivate, Reject, Revoke, Expire, Pending
      <4> QED BY <3>1, <3>3, <4>1 DEF Create, Free
    <3> QED BY <3>1, <3>2, <3>3
  <2>3. ASSUME NEW i \in Invites, Accept(i) \/ AcceptPrivate(i)
        PROVE  member'[u] = NoFamily
    <3>1. j # i /\ invite[j] = "PENDING" /\ j \notin Competing(i)
      BY <2>0, <2>3, AcceptShape
    <3>2. u \notin Parties(i)
      BY <3>1 DEF Competing, Pending
    <3> QED BY <2>0, <2>3, <2>p, <3>1, <3>2, AcceptShape, FoundShape
  <2>4. ASSUME NEW c \in Calls,
               \/ Start(c) \/ LeaveDelete(c) \/ LeaveCommit(c) \/ Archive(c) \/ Restore(c)
               \/ RequestDissolution(c) \/ ConfirmFind(c) \/ ConfirmCommit(c)
               \/ CancelDissolution(c) \/ Abort(c)
        PROVE  member'[u] = NoFamily
    BY <2>0, <2>p, <2>4, CallEffect
  <2> QED BY <2>1, <2>2, <2>3, <2>4 DEF Next
<1> QED BY <1>1, <1>2, PTL DEF Spec

Accepted == {i \in Invites : invite[i] = "ACCEPTED"}
Founded  == {f \in Families : status[f] # "none"}

\* FoundedByInvitation, with the finiteness that its counting rests on.
FoundedSoFar ==
  /\ \A f \in Founded : \E i \in Accepted : Parties(i) = founders[f]
  /\ IsFiniteSet(Accepted) /\ IsFiniteSet(Founded)
  /\ Cardinality(Accepted) = Cardinality(Founded)

\* A call acts on a family that was founded.
Acting == \A c \in Calls : ctx[c] # NoFamily => ctx[c] \in Founded

\* Members and calls are in families that were founded.
Inhabited == Acting /\ \A u \in Users : member[u] # NoFamily => member[u] \in Founded

\* A call takes the family it acts on from its caller's row, at its start.
LEMMA CtxChange ==
  ASSUME TypeOK, NEW c \in Calls,
         \/ Start(c) \/ LeaveDelete(c) \/ LeaveCommit(c) \/ Archive(c) \/ Restore(c)
         \/ RequestDissolution(c) \/ ConfirmFind(c) \/ ConfirmCommit(c)
         \/ CancelDissolution(c) \/ Abort(c)
  PROVE  /\ \A d \in Calls \ {c} : ctx'[d] = ctx[d] /\ pc'[d] = pc[d] /\ found'[d] = found[d]
         /\ ctx'[c] = ctx[c] \/ (pc[c] = "new" /\ ctx'[c] = member[Caller[c]])
         /\ pc[c] # "done" /\ pc'[c] # "new"
BY DEF TypeOK, Start, LeaveDelete, LeaveCommit, Archive, Restore, RequestDissolution, ConfirmFind,
       ConfirmCommit, CancelDissolution, Abort, Done, Goto

\* Families are founded before anybody is in them, and none is forgotten.
LEMMA InhabitedKept ==
  TypeOK /\ Inhabited /\ [Next]_vars => Inhabited' /\ Founded \subseteq Founded'
<1> SUFFICES ASSUME TypeOK, Inhabited, [Next]_vars
             PROVE  Inhabited' /\ Founded \subseteq Founded'
  OBVIOUS
<1> USE DEF family, call
<1>1. CASE UNCHANGED vars
  BY <1>1 DEF vars, Inhabited, Acting, Founded
<1>2. ASSUME NEW i \in Invites,
             Create(i) \/ CreatePrivate(i) \/ Reject(i) \/ Revoke(i) \/ Expire(i)
      PROVE  Inhabited' /\ Founded \subseteq Founded'
  BY <1>2, InvitationShape DEF Inhabited, Acting, Founded
<1>3. ASSUME NEW i \in Invites, Accept(i) \/ AcceptPrivate(i)
      PROVE  Inhabited' /\ Founded \subseteq Founded'
  BY <1>3, AcceptShape, FoundShape DEF Inhabited, Acting, Founded
<1>4. ASSUME NEW c \in Calls,
             \/ Start(c) \/ LeaveDelete(c) \/ LeaveCommit(c) \/ Archive(c) \/ Restore(c)
             \/ RequestDissolution(c) \/ ConfirmFind(c) \/ ConfirmCommit(c)
             \/ CancelDissolution(c) \/ Abort(c)
      PROVE  Inhabited' /\ Founded \subseteq Founded'
  <2>1. Founded \subseteq Founded'
    BY <1>4, CallEffect DEF Founded
  <2>2. Caller[c] \in Users
    BY FamilyAssumption
  <2> QED BY <1>4, <2>1, <2>2, CallEffect, CtxChange DEF Inhabited, Acting
<1> QED BY <1>1, <1>2, <1>3, <1>4 DEF Next

\* A step founds a family exactly if it accepts an invitation.
LEMMA FoundedKept ==
  TypeOK /\ Inhabited /\ FoundedSoFar /\ [Next]_vars => FoundedSoFar'
<1> SUFFICES ASSUME TypeOK, Inhabited, FoundedSoFar, [Next]_vars PROVE FoundedSoFar'
  OBVIOUS
<1> USE DEF family
<1>0. "ACCEPTED" \in Outcomes /\ "PENDING" \notin Outcomes
  BY DEF Outcomes
<1>1. ASSUME Accepted' = Accepted, Founded' = Founded,
             \A f \in Founded : founders'[f] = founders[f]
      PROVE  FoundedSoFar'
  BY <1>1 DEF FoundedSoFar
<1>2. CASE UNCHANGED vars
  BY <1>1, <1>2 DEF vars, Accepted, Founded
<1>3. ASSUME NEW i \in Invites,
             Create(i) \/ CreatePrivate(i) \/ Reject(i) \/ Revoke(i) \/ Expire(i)
      PROVE  FoundedSoFar'
  <2>1. Accepted' = Accepted
    BY <1>3, InvitationShape DEF Accepted, Pending
  <2>2. Founded' = Founded /\ founders' = founders
    BY <1>3, InvitationShape DEF Founded
  <2> QED BY <1>1, <2>1, <2>2
<1>4. ASSUME NEW i \in Invites, Accept(i) \/ AcceptPrivate(i) PROVE FoundedSoFar'
  <2>1. i \notin Accepted /\ Accepted' = Accepted \union {i}
    BY <1>4, AcceptShape DEF Accepted, Pending
  <2>2. PICK f \in Families :
          /\ status[f] = "none" /\ status'[f] = "ACTIVE" /\ founders'[f] = Parties(i)
          /\ \A g \in Families \ {f} : status'[g] = status[g] /\ founders'[g] = founders[g]
    BY <1>4, AcceptShape, FoundShape
  <2>3. f \notin Founded /\ Founded' = Founded \union {f}
    BY <2>2 DEF Founded
  <2>4. /\ IsFiniteSet(Accepted') /\ IsFiniteSet(Founded')
        /\ Cardinality(Accepted') = Cardinality(Accepted) + 1
        /\ Cardinality(Founded') = Cardinality(Founded) + 1
    BY <2>1, <2>3, FS_AddElement DEF FoundedSoFar
  <2>5. \A g \in Founded' : \E j \in Accepted' : Parties(j) = founders'[g]
    BY <2>1, <2>2, <2>3 DEF FoundedSoFar, Founded
  <2> QED BY <2>4, <2>5 DEF FoundedSoFar
<1>5. ASSUME NEW c \in Calls,
             \/ Start(c) \/ LeaveDelete(c) \/ LeaveCommit(c) \/ Archive(c) \/ Restore(c)
             \/ RequestDissolution(c) \/ ConfirmFind(c) \/ ConfirmCommit(c)
             \/ CancelDissolution(c) \/ Abort(c)
      PROVE  FoundedSoFar'
  <2>1. Accepted' = Accepted
    BY <1>5, CallEffect DEF Accepted, Pending
  <2>2. \A f \in Families : status'[f] = status[f] \/ (f = ctx[c] /\ status'[f] # "none")
    BY <1>5, CallEffect
  <2>3. ctx[c] \in Families => ctx[c] \in Founded
    BY FamilyAssumption DEF Inhabited, Acting
  <2>4. Founded' = Founded /\ founders' = founders
    BY <1>5, <2>2, <2>3, CallEffect DEF Founded
  <2> QED BY <1>1, <2>1, <2>4
<1> QED BY <1>2, <1>3, <1>4, <1>5 DEF Next

\* Families and accepted invitations correspond (FoundedByInvitation), whoever
\* left and came back meanwhile.
THEOREM FoundedOnlyByInvitation == Spec => []FoundedByInvitation
<1>1. Init => FoundedSoFar /\ Inhabited
  <2> SUFFICES ASSUME Init PROVE FoundedSoFar /\ Inhabited
    OBVIOUS
  <2>1. Accepted = {} /\ Founded = {}
    BY DEF Init, Accepted, Founded
  <2> QED BY <2>1, FS_EmptySet DEF Init, FoundedSoFar, Inhabited, Acting
<1>2. FoundedSoFar => FoundedByInvitation
  BY DEF FoundedSoFar, FoundedByInvitation, Accepted, Founded
<1> QED BY <1>1, <1>2, InhabitedKept, FoundedKept, FamilyTypeCorrect, PTL DEF Spec

-----------------------------------------------------------------------------
(***************************************************************************)
(* Dissolution.                                                            *)
(***************************************************************************)

\* Members, and those who act on a family, are among its founders.
Belonging ==
  /\ \A u \in Users : member[u] # NoFamily => u \in founders[member[u]]
  /\ \A c \in Calls : ctx[c] # NoFamily => Caller[c] \in founders[ctx[c]]

\* A petition is the last thing that its call did, for the family it acted on.
Petitioned == \A d \in Calls : petition[d] # "none" => pc[d] = "done" /\ ctx[d] \in Families

\* Call c may confirm the petition d: of its family, by somebody else.
Confirms(c, d) == /\ d \in Calls /\ petition[d] # "none"
                  /\ ctx[c] = ctx[d] /\ Caller[c] # Caller[d]

\* What a confirmation has found, what is confirmed and what is dissolved fit.
Answerable ==
  /\ Petitioned
  /\ \A c \in Calls : pc[c] = "found" => Confirms(c, found[c])
  /\ \A d \in Calls : petition[d] = "CONFIRMED" =>
       /\ confirmer[d] \in Calls /\ pc[confirmer[d]] = "done"
       /\ Confirms(confirmer[d], d)
  /\ \A f \in Families : status[f] = "DISSOLVED" =>
       \E d \in Calls : petition[d] = "CONFIRMED" /\ ctx[d] = f

\* Who founded a family that exists is never rewritten.
LEMMA BelongingKept ==
  TypeOK /\ Inhabited /\ Belonging /\ [Next]_vars => Belonging'
<1> SUFFICES ASSUME TypeOK, Inhabited, Belonging, [Next]_vars PROVE Belonging'
  OBVIOUS
<1> USE DEF family, call
<1>1. CASE UNCHANGED vars
  BY <1>1 DEF vars, Belonging
<1>2. ASSUME NEW i \in Invites,
             Create(i) \/ CreatePrivate(i) \/ Reject(i) \/ Revoke(i) \/ Expire(i)
      PROVE  Belonging'
  BY <1>2, InvitationShape DEF Belonging
<1>3. ASSUME NEW i \in Invites, Accept(i) \/ AcceptPrivate(i) PROVE Belonging'
  <2>1. PICK f \in Families :
          /\ status[f] = "none" /\ founders'[f] = Parties(i)
          /\ \A g \in Families \ {f} : founders'[g] = founders[g]
          /\ \A u \in Users : member'[u] = IF u \in Parties(i) THEN f ELSE member[u]
    BY <1>3, AcceptShape, FoundShape
  <2>2. /\ \A u \in Users : member[u] # NoFamily => member[u] \in Families \ {f}
        /\ \A c \in Calls : ctx[c] # NoFamily => ctx[c] \in Families \ {f}
    BY <2>1 DEF Inhabited, Acting, Founded
  <2>3. ctx' = ctx
    BY <1>3, AcceptShape
  <2> QED BY <2>1, <2>2, <2>3 DEF Belonging
<1>4. ASSUME NEW c \in Calls,
             \/ Start(c) \/ LeaveDelete(c) \/ LeaveCommit(c) \/ Archive(c) \/ Restore(c)
             \/ RequestDissolution(c) \/ ConfirmFind(c) \/ ConfirmCommit(c)
             \/ CancelDissolution(c) \/ Abort(c)
      PROVE  Belonging'
  <2>1. Caller[c] \in Users
    BY FamilyAssumption
  <2> QED BY <1>4, <2>1, CallEffect, CtxChange DEF Belonging
<1> QED BY <1>1, <1>2, <1>3, <1>4 DEF Next

\* What a step of a call may do to the petitions.
LEMMA PetitionEffect ==
  ASSUME TypeOK, NEW c \in Calls,
         \/ Start(c) \/ LeaveDelete(c) \/ LeaveCommit(c) \/ Archive(c) \/ Restore(c)
         \/ RequestDissolution(c) \/ ConfirmFind(c) \/ ConfirmCommit(c)
         \/ CancelDissolution(c) \/ Abort(c)
  PROVE  \/ UNCHANGED <<petition, confirmer>> /\ ~ConfirmCommit(c)
         \/ /\ confirmer' = confirmer /\ pc[c] = "ready" /\ pc'[c] = "done"
            /\ ~ConfirmCommit(c) /\ ctx' = ctx
            /\ \A d \in Calls : \/ petition'[d] = petition[d]
                                \/ petition[d] = "PENDING" /\ petition'[d] = "CANCELLED"
                                \/ /\ d = c /\ petition'[d] = "PENDING"
                                   /\ ctx[c] \in Families
         \/ ConfirmCommit(c)
<1>1. CASE \/ Start(c) \/ LeaveDelete(c) \/ LeaveCommit(c) \/ Archive(c) \/ Restore(c)
           \/ ConfirmFind(c) \/ Abort(c)
  BY <1>1 DEF Start, LeaveDelete, LeaveCommit, Archive, Restore, ConfirmFind, Abort
<1>2. CASE RequestDissolution(c) /\ ~ConfirmCommit(c)
  BY <1>2, DoneShape DEF RequestDissolution, TypeOK
<1>3. CASE CancelDissolution(c) /\ ~ConfirmCommit(c)
  BY <1>3, DoneShape DEF CancelDissolution, Petitions, TypeOK
<1> QED BY <1>1, <1>2, <1>3

\* Every step of a call leaves the petitions answerable.
LEMMA AnswerableByCall ==
  ASSUME TypeOK, Answerable, NEW c \in Calls,
         \/ Start(c) \/ LeaveDelete(c) \/ LeaveCommit(c) \/ Archive(c) \/ Restore(c)
         \/ RequestDissolution(c) \/ ConfirmFind(c) \/ ConfirmCommit(c)
         \/ CancelDissolution(c) \/ Abort(c)
  PROVE  Answerable'
<1>1. \A d \in Calls : pc[d] = "done" => d # c /\ ctx'[d] = ctx[d] /\ pc'[d] = "done"
  BY CtxChange
<1>2. \A d \in Calls : petition[d] # "none" =>
        d # c /\ pc'[d] = "done" /\ ctx'[d] = ctx[d] /\ ctx[d] \in Families
  BY <1>1 DEF Answerable, Petitioned
<1>3. ASSUME ~ConfirmCommit(c), confirmer' = confirmer,
             \A d \in Calls : petition[d] = "none" <=> (petition'[d] = "none" \/ d = c),
             \A d \in Calls : (petition[d] = "CONFIRMED") <=> (petition'[d] = "CONFIRMED"),
             petition'[c] # "none" => pc'[c] = "done" /\ ctx'[c] \in Families
      PROVE  Answerable'
  <2>1. Petitioned'
    BY <1>2, <1>3 DEF Petitioned
  <2>2. ASSUME NEW b \in Calls, pc'[b] = "found" PROVE Confirms(b, found[b])'
    <3>1. CASE b # c
      BY <1>2, <1>3, <2>2, <3>1, CtxChange DEF Answerable, Confirms
    <3>2. CASE b = c
      <4>1. ConfirmFind(c)
        BY <2>2, <3>2 DEF Start, LeaveDelete, LeaveCommit, Archive, Restore, RequestDissolution,
           ConfirmFind, ConfirmCommit, CancelDissolution, Abort, Done, Goto, TypeOK
      <4>2. PICK d \in Petitions(c) : Caller[d] # Caller[c] /\ found' = [found EXCEPT ![c] = d]
        BY <2>2, <3>2, <4>1 DEF ConfirmFind, Done, Goto, TypeOK
      <4>3. UNCHANGED <<petition, ctx>>
        BY <2>2, <3>2, <4>1 DEF ConfirmFind, Done, Goto, TypeOK
      <4> QED BY <3>2, <4>2, <4>3 DEF Petitions, Confirms, TypeOK
    <3> QED BY <3>1, <3>2
  <2>3. ASSUME NEW d \in Calls, petition'[d] = "CONFIRMED"
        PROVE  /\ confirmer'[d] \in Calls /\ pc'[confirmer'[d]] = "done"
               /\ Confirms(confirmer[d], d)'
    <3>1. /\ confirmer[d] \in Calls /\ pc[confirmer[d]] = "done" /\ Confirms(confirmer[d], d)
          /\ petition[d] = "CONFIRMED"
      BY <1>3, <2>3 DEF Answerable
    <3> QED BY <1>1, <1>2, <1>3, <2>3, <3>1 DEF Confirms
  <2>4. ASSUME NEW f \in Families, status'[f] = "DISSOLVED"
        PROVE  \E d \in Calls : petition'[d] = "CONFIRMED" /\ ctx'[d] = f
    <3>1. status[f] = "DISSOLVED"
      BY <1>3, <2>4, CallEffect
    <3> QED BY <1>2, <1>3, <3>1 DEF Answerable
  <2> QED BY <2>1, <2>2, <2>3, <2>4 DEF Answerable
<1>4. CASE UNCHANGED <<petition, confirmer>> /\ ~ConfirmCommit(c)
  <2>1. petition[c] = "none"
    BY <1>2
  <2> QED BY <1>3, <1>4, <2>1
<1>5. ASSUME ~ConfirmCommit(c), confirmer' = confirmer, pc'[c] = "done", ctx' = ctx,
             \A d \in Calls : \/ petition'[d] = petition[d]
                              \/ petition[d] = "PENDING" /\ petition'[d] = "CANCELLED"
                              \/ d = c /\ petition'[d] = "PENDING" /\ ctx[c] \in Families
      PROVE  Answerable'
  <2>1. petition[c] = "none"
    BY <1>2
  <2> QED BY <1>3, <1>5, <2>1
<1>6. CASE ConfirmCommit(c)
  <2>1. /\ pc[c] = "found" /\ UNCHANGED <<ctx, found>>
        /\ pc'[c] = "done" /\ \A d \in Calls \ {c} : pc'[d] = pc[d]
    BY <1>6, DoneShape DEF ConfirmCommit
  <2>2. /\ found[c] \in Calls /\ petition[found[c]] # "none"
        /\ ctx[c] = ctx[found[c]] /\ Caller[c] # Caller[found[c]]
    BY <2>1 DEF Answerable, Confirms
  <2>3. /\ petition'[found[c]] = "CONFIRMED" /\ confirmer'[found[c]] = c
        /\ \A d \in Calls \ {found[c]} : petition'[d] = petition[d] /\ confirmer'[d] = confirmer[d]
    BY <1>6, <2>2 DEF ConfirmCommit, TypeOK
  <2>4. Petitioned'
    BY <1>2, <2>1, <2>2, <2>3 DEF Petitioned
  <2>5. ASSUME NEW b \in Calls, pc'[b] = "found" PROVE Confirms(b, found[b])'
    BY <2>1, <2>3, <2>5 DEF Answerable, Confirms
  <2>6. ASSUME NEW d \in Calls, petition'[d] = "CONFIRMED"
        PROVE  /\ confirmer'[d] \in Calls /\ pc'[confirmer'[d]] = "done"
               /\ Confirms(confirmer[d], d)'
    <3>1. CASE d = found[c]
      BY <2>1, <2>2, <2>3, <3>1 DEF Confirms
    <3>2. CASE d # found[c]
      BY <1>1, <2>1, <2>3, <2>6, <3>2 DEF Answerable, Confirms
    <3> QED BY <3>1, <3>2
  <2>7. ASSUME NEW f \in Families, status'[f] = "DISSOLVED"
        PROVE  \E d \in Calls : petition'[d] = "CONFIRMED" /\ ctx'[d] = f
    <3>1. CASE f = ctx[c]
      BY <2>1, <2>2, <2>3, <3>1
    <3>2. CASE f # ctx[c]
      <4>1. status[f] = "DISSOLVED"
        BY <2>7, <3>2, CallEffect
      <4> QED BY <2>1, <2>2, <2>3, <4>1 DEF Answerable
    <3> QED BY <3>1, <3>2
  <2> QED BY <2>4, <2>5, <2>6, <2>7 DEF Answerable
<1> QED BY <1>4, <1>5, <1>6, PetitionEffect

\* Invitations leave petitions alone, and no family is founded dissolved.
LEMMA AnswerableKept == TypeOK /\ Answerable /\ [Next]_vars => Answerable'
<1> SUFFICES ASSUME TypeOK, Answerable, [Next]_vars PROVE Answerable'
  OBVIOUS
<1> USE DEF family, call
<1>1. ASSUME UNCHANGED <<petition, confirmer, call>>,
             \A f \in Families : status'[f] = "DISSOLVED" => status[f] = "DISSOLVED"
      PROVE  Answerable'
  BY <1>1 DEF Answerable, Petitioned, Confirms
<1>2. CASE UNCHANGED vars
  BY <1>1, <1>2 DEF vars
<1>3. ASSUME NEW i \in Invites,
             Create(i) \/ CreatePrivate(i) \/ Reject(i) \/ Revoke(i) \/ Expire(i)
      PROVE  Answerable'
  BY <1>1, <1>3, InvitationShape
<1>4. ASSUME NEW i \in Invites, Accept(i) \/ AcceptPrivate(i) PROVE Answerable'
  BY <1>1, <1>4, AcceptShape, FoundShape
<1> QED BY <1>2, <1>3, <1>4, AnswerableByCall DEF Next

\* A family is dissolved by both of its founders (DissolutionNeedsBoth): one
\* asked, the other confirmed, and a family has no third founder.
THEOREM DissolvedByBoth == Spec => []DissolutionNeedsBoth
<1>1. Init => FoundedSoFar /\ Inhabited /\ Belonging /\ Answerable
  <2> SUFFICES ASSUME Init PROVE FoundedSoFar /\ Inhabited /\ Belonging /\ Answerable
    OBVIOUS
  <2>1. Accepted = {} /\ Founded = {}
    BY DEF Init, Accepted, Founded
  <2>2. FoundedSoFar /\ Inhabited
    BY <2>1, FS_EmptySet DEF Init, FoundedSoFar, Inhabited, Acting
  <2> QED BY <2>2 DEF Init, Belonging, Answerable, Petitioned
<1>2. FoundedSoFar /\ Belonging /\ Answerable => DissolutionNeedsBoth
  <2> SUFFICES ASSUME FoundedSoFar, Belonging, Answerable,
                      NEW f \in Families, status[f] = "DISSOLVED"
               PROVE  \E d \in Calls : /\ petition[d] = "CONFIRMED" /\ ctx[d] = f
                                       /\ confirmer[d] # NoCall
                                       /\ founders[f] = {Caller[d], Caller[confirmer[d]]}
    BY DEF DissolutionNeedsBoth
  <2>1. PICK d \in Calls : petition[d] = "CONFIRMED" /\ ctx[d] = f
    BY DEF Answerable
  <2>2. /\ confirmer[d] \in Calls /\ confirmer[d] # NoCall
        /\ ctx[confirmer[d]] = f /\ Caller[confirmer[d]] # Caller[d]
    BY <2>1, FamilyAssumption DEF Answerable, Confirms
  <2>3. Caller[d] \in founders[f] /\ Caller[confirmer[d]] \in founders[f]
    BY <2>1, <2>2, FamilyAssumption DEF Belonging
  <2>4. PICK i \in Invites : founders[f] = Parties(i)
    BY DEF FoundedSoFar, Founded, Accepted
  <2> QED BY <2>1, <2>2, <2>3, <2>4 DEF Parties
<1> QED BY <1>1, <1>2, InhabitedKept, FoundedKept, BelongingKept, AnswerableKept,
           FamilyTypeCorrect, PTL DEF Spec

-----------------------------------------------------------------------------
(***************************************************************************)
(* Families without members.  A founder who is gone has left by a call of  *)
(* his own: one that read this family and either saw the other partner     *)
(* still there or archived the family, or one that had read another.       *)
(***************************************************************************)

Ended(op, c) == c \in Calls /\ Op[c] = op /\ pc[c] = "done"

Restored(f) == \E c \in Calls : Ended("restore", c) /\ ctx[c] = f
Strayed(f)  == \E c \in Calls : Ended("leave", c) /\ ctx[c] # f /\ Caller[c] \in founders[f]

LeftBy(f, u, c) == /\ Ended("leave", c) /\ ctx[c] = f /\ Caller[c] = u
                   /\ others[c] # {} \/ status[f] # "ACTIVE" \/ Restored(f)

Gone(f, u) == Strayed(f) \/ \E c \in Calls : LeftBy(f, u, c)

\* Whom a leaving caller has counted is another founder of the family.
Counted == \A c \in Calls : \A v \in others[c] :
             ctx[c] \in Founded /\ v \in founders[ctx[c]] /\ v # Caller[c]

\* A call that leaves has a label of its own, and one that has not begun has read nothing.
Leaving == \A c \in Calls : /\ pc[c] = "deleted" => Op[c] = "leave"
                            /\ pc[c] = "new" => ctx[c] = NoFamily

Leavers == /\ Counted /\ Leaving
           /\ \A f \in Founded : \A u \in founders[f] : member[u] # f => Gone(f, u)

\* What a call has counted is counted once, and it is done or about to commit.
LEMMA CountChange ==
  ASSUME TypeOK, NEW c \in Calls,
         \/ Start(c) \/ LeaveDelete(c) \/ LeaveCommit(c) \/ Archive(c) \/ Restore(c)
         \/ RequestDissolution(c) \/ ConfirmFind(c) \/ ConfirmCommit(c)
         \/ CancelDissolution(c) \/ Abort(c)
  PROVE  /\ \A d \in Calls \ {c} : others'[d] = others[d]
         /\ \/ others'[c] = others[c]
            \/ pc[c] = "ready" /\ ctx'[c] = ctx[c] /\ others'[c] = Remaining(c)
BY DEF TypeOK, Start, LeaveDelete, LeaveCommit, Archive, Restore, RequestDissolution, ConfirmFind,
       ConfirmCommit, CancelDissolution, Abort, Done, Goto

\* What a step of a call may do to rows and families: a leave takes its caller
\* out and leaves a trace of it; only a restore makes a family active again.
LEMMA LeaveChange ==
  ASSUME TypeOK, Leaving, NEW c \in Calls,
         \/ Start(c) \/ LeaveDelete(c) \/ LeaveCommit(c) \/ Archive(c) \/ Restore(c)
         \/ RequestDissolution(c) \/ ConfirmFind(c) \/ ConfirmCommit(c)
         \/ CancelDissolution(c) \/ Abort(c)
  PROVE  /\ founders' = founders
         /\ \A f \in Families : status'[f] = "ACTIVE" /\ status[f] # "ACTIVE" =>
              Op[c] = "restore" /\ pc'[c] = "done" /\ ctx'[c] = f
         /\ \A u \in Users : member'[u] = member[u] \/
              /\ u = Caller[c] /\ Op[c] = "leave" /\ pc'[c] = "done" /\ ctx'[c] = ctx[c]
              /\ others'[c] # {} \/ (ctx[c] \in Families => status'[ctx[c]] # "ACTIVE")
<1> USE DEF family
<1>1. CASE \/ Start(c) \/ LeaveDelete(c) \/ RequestDissolution(c) \/ ConfirmFind(c)
           \/ CancelDissolution(c) \/ Abort(c)
  BY <1>1 DEF Start, LeaveDelete, RequestDissolution, ConfirmFind, CancelDissolution, Abort
<1>2. CASE Archive(c)
  BY <1>2 DEF Archive, TypeOK
<1>3. CASE Restore(c)
  BY <1>3, DoneShape DEF Restore, TypeOK
<1>4. CASE ConfirmCommit(c)
  BY <1>4 DEF ConfirmCommit, TypeOK
<1>5. CASE LeaveCommit(c)
  <2>0. pc[c] = "deleted" /\ Done(c)
    BY <1>5, Zenon DEF LeaveCommit
  <2>1. Op[c] = "leave" /\ pc'[c] = "done" /\ ctx' = ctx /\ others' = others
    <3>1. Op[c] = "leave"
      BY <2>0 DEF Leaving
    <3>2. pc'[c] = "done" /\ ctx' = ctx /\ others' = others
      BY <2>0, DoneShape
    <3> QED BY <3>1, <3>2
  <2> QED BY <1>5, <2>1 DEF LeaveCommit, TypeOK
<1> QED BY <1>1, <1>2, <1>3, <1>4, <1>5

LEMMA LeavingKept ==
  ASSUME TypeOK, Leaving, NEW c \in Calls,
         \/ Start(c) \/ LeaveDelete(c) \/ LeaveCommit(c) \/ Archive(c) \/ Restore(c)
         \/ RequestDissolution(c) \/ ConfirmFind(c) \/ ConfirmCommit(c)
         \/ CancelDissolution(c) \/ Abort(c)
  PROVE  Leaving'
BY DEF TypeOK, Leaving, Start, LeaveDelete, LeaveCommit, Archive, Restore, RequestDissolution,
       ConfirmFind, ConfirmCommit, CancelDissolution, Abort, Done, Goto

\* Traces of founders who are gone stay: what is done is done.
LEMMA LeaversKept ==
  TypeOK /\ Inhabited /\ Belonging /\ Leavers /\ [Next]_vars => Leavers'
<1> SUFFICES ASSUME TypeOK, Inhabited, Belonging, Leavers, [Next]_vars PROVE Leavers'
  OBVIOUS
<1> USE DEF family, call
<1>1. ASSUME UNCHANGED <<status, member, founders, call>>  PROVE Leavers'
  BY <1>1 DEF Leavers, Counted, Leaving, Gone, Strayed, LeftBy, Restored, Ended, Founded
<1>2. CASE UNCHANGED vars
  BY <1>1, <1>2 DEF vars
<1>3. ASSUME NEW i \in Invites,
             Create(i) \/ CreatePrivate(i) \/ Reject(i) \/ Revoke(i) \/ Expire(i)
      PROVE  Leavers'
  BY <1>1, <1>3, InvitationShape
<1>4. ASSUME NEW i \in Invites, Accept(i) \/ AcceptPrivate(i) PROVE Leavers'
  <2>1. PICK f \in Families :
          /\ status[f] = "none" /\ \A u \in Parties(i) : Free(u)
          /\ status'[f] = "ACTIVE" /\ founders'[f] = Parties(i)
          /\ \A g \in Families \ {f} : status'[g] = status[g] /\ founders'[g] = founders[g]
          /\ \A u \in Users : member'[u] = IF u \in Parties(i) THEN f ELSE member[u]
    BY <1>4, AcceptShape, FoundShape
  <2>2. UNCHANGED <<pc, ctx, others>>
    BY <1>4, AcceptShape
  <2>3. \A g \in Founded : g \in Families \ {f} /\ g \in Founded'
    BY <2>1 DEF Founded
  <2>4. Counted' /\ Leaving'
    BY <2>1, <2>2, <2>3 DEF Leavers, Counted, Leaving
  <2>5. ASSUME NEW g \in Founded', NEW u \in founders'[g], member'[u] # g
        PROVE  Gone(g, u)'
    <3>0. Parties(i) \subseteq Users /\ founders[g] \subseteq Users /\ g \in Families
      BY <2>5, FamilyAssumption DEF Parties, TypeOK, Founded
    <3>1. g # f /\ u \in founders[g] /\ g \in Founded
      BY <2>1, <2>5, <3>0 DEF Founded
    <3>2. member[u] # g
      BY <2>1, <2>3, <2>5, <3>0, <3>1, FamilyAssumption DEF Free
    <3>3. Gone(g, u)
      BY <3>1, <3>2 DEF Leavers
    <3> QED BY <2>1, <2>2, <3>0, <3>1, <3>3 DEF Gone, Strayed, LeftBy, Restored, Ended
  <2> QED BY <2>4, <2>5 DEF Leavers
<1>5. ASSUME NEW c \in Calls,
             \/ Start(c) \/ LeaveDelete(c) \/ LeaveCommit(c) \/ Archive(c) \/ Restore(c)
             \/ RequestDissolution(c) \/ ConfirmFind(c) \/ ConfirmCommit(c)
             \/ CancelDissolution(c) \/ Abort(c)
      PROVE  Leavers'
  <2>0. Caller[c] \in Users
    BY FamilyAssumption
  <2>1. /\ founders' = founders /\ Founded \subseteq Founded'
        /\ \A d \in Calls \ {c} : ctx'[d] = ctx[d] /\ pc'[d] = pc[d] /\ others'[d] = others[d]
        /\ pc[c] # "done"
    BY <1>5, CtxChange, CountChange, LeaveChange, InhabitedKept DEF Leavers
  <2>2. Founded' \subseteq Founded
    <3>1. ctx[c] \in Families => ctx[c] \in Founded
      BY FamilyAssumption DEF Inhabited, Acting
    <3>2. \A f \in Families : status'[f] = status[f] \/ (f = ctx[c] /\ status'[f] # "none")
      BY <1>5, CallEffect
    <3> QED BY <3>1, <3>2 DEF Founded
  <2>3. \A op, d : Ended(op, d) => Ended(op, d)' /\ d \in Calls \ {c}
    BY <2>1 DEF Ended
  <2>4. Counted'
    <3> SUFFICES ASSUME NEW d \in Calls, NEW v \in others'[d]
                 PROVE  ctx'[d] \in Founded' /\ v \in founders'[ctx'[d]] /\ v # Caller[d]
      BY DEF Counted
    <3>1. CASE d # c
      BY <2>1, <3>1 DEF Leavers, Counted
    <3>2. CASE d = c /\ others'[c] = others[c]
      <4>1. ctx[c] \in Founded /\ v \in founders[ctx[c]] /\ v # Caller[c] /\ ctx[c] # NoFamily
        BY <3>2, FamilyAssumption DEF Leavers, Counted, Founded
      <4>2. ctx'[c] = ctx[c]
        <5>1. pc[c] = "new" => ctx[c] = NoFamily
          BY DEF Leavers, Leaving
        <5> QED BY <1>5, <4>1, <5>1, CtxChange
      <4> QED BY <2>1, <3>2, <4>1, <4>2
    <3>3. CASE d = c /\ others'[c] # others[c]
      <4>1. pc[c] = "ready" /\ ctx'[c] = ctx[c] /\ others'[c] = Remaining(c)
        BY <1>5, <3>3, CountChange
      <4>2. ctx[c] \in Families /\ ctx[c] \in Founded
        BY <4>1, FamilyAssumption DEF TypeOK, Inhabited, Acting
      <4>3. v \in Users \ {Caller[c]} /\ member[v] = ctx[c]
        BY <3>3, <4>1 DEF Remaining
      <4> QED BY <2>1, <3>3, <4>1, <4>2, <4>3, FamilyAssumption DEF Belonging
    <3> QED BY <3>1, <3>2, <3>3
  <2>5. ASSUME NEW f \in Founded', NEW u \in founders'[f], member'[u] # f
        PROVE  Gone(f, u)'
    <3>0. f \in Families /\ f \in Founded /\ f # NoFamily /\ u \in founders[f] /\ u \in Users
      BY <2>1, <2>2, <2>5, FamilyAssumption DEF Founded, TypeOK
    <3>1. CASE member[u] # f
      <4>1. Gone(f, u)
        BY <3>0, <3>1 DEF Leavers
      <4>2. CASE Strayed(f)
        BY <2>1, <2>3, <4>2 DEF Strayed, Gone
      <4>3. ASSUME NEW d \in Calls, LeftBy(f, u, d)  PROVE Gone(f, u)'
        <5>1. d # c /\ Ended("leave", d)' /\ ctx'[d] = f /\ others'[d] = others[d]
          BY <2>1, <2>3, <4>3 DEF LeftBy
        <5>2. Restored(f) => Restored(f)'
          BY <2>1, <2>3 DEF Restored
        <5>3. status[f] # "ACTIVE" => status'[f] # "ACTIVE" \/ Restored(f)'
          BY <1>5, <3>0, LeaveChange DEF Leavers, Restored, Ended
        <5> QED BY <4>3, <5>1, <5>2, <5>3 DEF LeftBy, Gone
      <4> QED BY <4>1, <4>2, <4>3 DEF Gone
    <3>2. CASE member[u] = f
      <4>1. /\ u = Caller[c] /\ Op[c] = "leave" /\ pc'[c] = "done" /\ ctx'[c] = ctx[c]
            /\ others'[c] # {} \/ (ctx[c] \in Families => status'[ctx[c]] # "ACTIVE")
        BY <1>5, <2>5, <3>0, <3>2, LeaveChange DEF Leavers
      <4>2. CASE ctx[c] = f
        BY <3>0, <4>1, <4>2 DEF Gone, LeftBy, Ended
      <4>3. CASE ctx[c] # f
        BY <2>1, <3>0, <4>1, <4>3 DEF Gone, Strayed, Ended
      <4> QED BY <4>2, <4>3
    <3> QED BY <3>1, <3>2
  <2> QED BY <1>5, <2>4, <2>5, LeavingKept DEF Leavers
<1> QED BY <1>2, <1>3, <1>4, <1>5 DEF Next

\* An active family has members, unless its partners left at the same time, it was
\* restored, or a late leave took somebody out of it (EmptyAccounted).
THEOREM EmptyFamiliesAccounted == Spec => []EmptyAccounted
<1>1. Init => FoundedSoFar /\ Inhabited /\ Belonging /\ Leavers
  <2> SUFFICES ASSUME Init PROVE FoundedSoFar /\ Inhabited /\ Belonging /\ Leavers
    OBVIOUS
  <2>1. Accepted = {} /\ Founded = {}
    BY DEF Init, Accepted, Founded
  <2>2. FoundedSoFar /\ Inhabited
    BY <2>1, FS_EmptySet DEF Init, FoundedSoFar, Inhabited, Acting
  <2> QED BY <2>1, <2>2 DEF Init, Belonging, Leavers, Counted, Leaving
<1>2. TypeOK /\ FoundedSoFar /\ Leavers => EmptyAccounted
  <2> SUFFICES ASSUME TypeOK, FoundedSoFar, Leavers,
                      NEW f \in Families, status[f] = "ACTIVE", \A u \in Users : member[u] # f,
                      ~Restored(f), ~Strayed(f)
               PROVE  \E c, d \in {c \in Calls : Op[c] = "leave" /\ pc[c] = "done"} :
                        /\ c # d /\ ctx[c] = f /\ ctx[d] = f
                        /\ Caller[d] \in others[c] /\ Caller[c] \in others[d]
    BY DEF EmptyAccounted, Restored, Strayed, Ended
  <2>1. f \in Founded
    BY DEF Founded
  <2>2. PICK i \in Invites : founders[f] = Parties(i)
    BY <2>1 DEF FoundedSoFar, Accepted
  <2>3. /\ Sender[i] \in Users /\ Recipient[i] \in Users /\ Sender[i] # Recipient[i]
        /\ founders[f] = {Sender[i], Recipient[i]}
    BY <2>2, FamilyAssumption DEF Parties
  <2>4. PICK c \in Calls : LeftBy(f, Sender[i], c)
    BY <2>1, <2>3 DEF Leavers, Gone
  <2>5. PICK d \in Calls : LeftBy(f, Recipient[i], d)
    BY <2>1, <2>3 DEF Leavers, Gone
  <2>6. others[c] = {Recipient[i]} /\ others[d] = {Sender[i]}
    BY <2>3, <2>4, <2>5 DEF Leavers, Counted, LeftBy
  <2> QED BY <2>3, <2>4, <2>5, <2>6 DEF LeftBy, Ended
<1> QED BY <1>1, <1>2, InhabitedKept, FoundedKept, BelongingKept, LeaversKept,
           FamilyTypeCorrect, PTL DEF Spec

-----------------------------------------------------------------------------
(***************************************************************************)
(* Accounts.  A link of recovery lasts as long as the grace period, so     *)
(* that there is one whenever there is time left; what the worker has      *)
(* found stays expired, but for a late recovery.  A picture in storage is  *)
(* the row's, or a call is about to write or to delete it; and a new one   *)
(* is known to nobody but the call that uploads it.                        *)
(***************************************************************************)
Steps == 0 .. Horizon

LoginCalls   == [op : {"login"}, secret : Nat]
ChangeCalls  == [op : {"change", "email", "delete"}, by : Sessions, secret : Nat, at : Steps]
ResetCalls   == [op : {"password"}, secret : Nat, at : Steps]
ApplyCalls   == [op : {"apply"}, is : Tokens, kind : {"password", "email"}, at : Steps]
RecoverCalls == [op : {"recover"}, is : Tokens, at : Steps]
AvatarCalls  == [op : {"upload"}, old : Pictures \union {NoPicture}, new : Pictures]
                \union [op : {"write", "drop"}, old : Pictures \union {NoPicture},
                        new : Pictures \union {NoPicture}]
AccountCalls == {Idle} \union LoginCalls \union ChangeCalls \union ResetCalls \union ApplyCalls
                \union RecoverCalls \union AvatarCalls

CallsInTime ==
  /\ busy \in [Requests -> AccountCalls]
  /\ \A q \in Requests :
       busy[q].op \in {"change", "email", "delete", "password", "apply", "recover"} => busy[q].at <= now
  /\ expiring \subseteq Pictures \union {NoPicture}

\* While the grace period lasts, the link that was sent recovers the account.
LinkLasts == ~active /\ ~erased /\ due > now =>
  \E t \in Tokens : token[t].kind = "recovery" /\ ~token[t].used /\ token[t].until = due

\* What was found to have expired has not been recovered in time.
FoundExpired == expiring # {} => (~active /\ due <= now) \/ "recovery" \in late

\* A call that ends deletes this picture, or writes it to the row.
Handles(q, p) == \/ busy[q].op = "drop" /\ busy[q].old = p
                 \/ busy[q].op = "write" /\ busy[q].new = p

PicturesHandled ==
  /\ avatar \in stored \union lost \union {NoPicture}
  /\ avatar \notin erasing
  /\ expiring = {} \/ erasing = {}
  /\ \A p \in stored : \/ p = avatar
                       \/ p \in erasing
                       \/ p \in LeftOver
                       \/ \E q \in Requests : Handles(q, p)

\* A new picture is in no row and in no other call.
NewIsOwn == \A q \in Requests :
  /\ busy[q].op \in {"upload", "write"} /\ busy[q].new # NoPicture =>
       /\ avatar # busy[q].new /\ busy[q].new \notin expiring \union erasing
       /\ busy[q].old # busy[q].new
       /\ \A d \in Requests \ {q} : busy[d].op \in {"upload", "write", "drop"} =>
            busy[d].old # busy[q].new /\ busy[d].new # busy[q].new
  /\ busy[q].op = "write" => busy[q].new \in stored \union {NoPicture}
  /\ busy[q].op = "drop" /\ busy[q].old # NoPicture => avatar # busy[q].old

AccountInv ==
  /\ SessionsOfPassword /\ DeletionHolds
  /\ CallsInTime /\ LinkLasts /\ FoundExpired /\ PicturesHandled /\ NewIsOwn

-----------------------------------------------------------------------------
LEMMA AccountBounds ==
  /\ Horizon \in Nat /\ MaxCalls \in Nat /\ Grace \in Nat \ {0} /\ Lifetime \in Nat \ {0}
  /\ SessionTime \in Nat \ {0} /\ NoPicture \notin Pictures
  /\ 0 \in Moments /\ 0 \in Steps
  /\ \A n \in Steps : /\ n \in Nat /\ n + Grace \in Moments /\ n + Lifetime \in Moments
                      /\ n + SessionTime \in Moments
  /\ \A n \in Moments : n \in Nat
<1>1. /\ Horizon \in Nat /\ MaxCalls \in Nat /\ Grace \in Nat \ {0} /\ Lifetime \in Nat \ {0}
      /\ SessionTime \in Nat \ {0} /\ NoPicture \notin Pictures
  BY AccountAssumption
<1> QED BY <1>1 DEF Moments, Steps

\* A call has the fields of its operation.
LEMMA AccountCallKinds ==
  ASSUME NEW k \in AccountCalls
  PROVE  /\ k.op \in {"idle", "login", "change", "email", "delete", "password", "apply", "recover",
                      "upload", "write", "drop"}
         /\ k.op = "idle" => k = Idle
         /\ k.op = "login" => k \in LoginCalls
         /\ k.op \in {"change", "email", "delete"} => k \in ChangeCalls
         /\ k.op = "password" => k \in ResetCalls
         /\ k.op = "apply" => k \in ApplyCalls
         /\ k.op = "recover" => k \in RecoverCalls
         /\ k.op \in {"upload", "write", "drop"} => k \in AvatarCalls
  BY DEF AccountCalls, LoginCalls, ChangeCalls, ResetCalls, ApplyCalls, RecoverCalls, AvatarCalls, Idle

\* A call that begins, goes on or ends.
LEMMA BusyKept ==
  ASSUME CallsInTime, NEW q \in Requests, NEW k \in AccountCalls,
         busy' = [busy EXCEPT ![q] = k], now' = now,
         expiring' \subseteq Pictures \union {NoPicture},
         k.op \in {"change", "email", "delete", "password", "apply", "recover"} => k.at <= now
  PROVE  /\ CallsInTime'
         /\ busy'[q] = k
         /\ \A d \in Requests \ {q} : busy'[d] = busy[d]
<1>1. /\ busy' \in [Requests -> AccountCalls] /\ busy'[q] = k
      /\ \A d \in Requests \ {q} : busy'[d] = busy[d]
  BY DEF CallsInTime
<1>2. \A d \in Requests :
        busy'[d].op \in {"change", "email", "delete", "password", "apply", "recover"}
          => busy'[d].at <= now
  BY <1>1 DEF CallsInTime
<1> QED BY <1>1, <1>2 DEF CallsInTime

LEMMA EndKept ==
  ASSUME CallsInTime, NEW q \in Requests, End(q), expiring' = expiring
  PROVE  /\ CallsInTime' /\ busy' = [busy EXCEPT ![q] = Idle]
         /\ busy'[q] = Idle
         /\ \A d \in Requests \ {q} : busy'[d] = busy[d]
<1>1. PICK k \in AccountCalls : k = Idle
  BY DEF AccountCalls
<1>2. busy' = [busy EXCEPT ![q] = k] /\ now' = now
  BY <1>1 DEF End, Continue
<1>3. k.op = "idle"
  BY <1>1 DEF Idle
<1> QED BY <1>1, <1>2, <1>3, BusyKept DEF CallsInTime

\* The calls that begin.
BeginsCall ==
  \E q \in Requests :
    \/ ReadForLogin(q) \/ ReadForReset(q)
    \/ \E s \in Sessions : ReadForChange(q, s) \/ ReadForAvatar(q, s)
    \/ \E t \in Tokens : ReadToken(q, t) \/ ReadForRecovery(q, t)

LEMMA BeginTyped ==
  ASSUME ATypeOK, CallsInTime, NEW q \in Requests, NEW k \in AccountCalls, Begin(q, k),
         k.op \in {"change", "email", "delete", "password", "apply", "recover"} => k.at <= now
  PROVE  ATypeOK' /\ CallsInTime'
<1>1. calls' \in 0 .. MaxCalls /\ UNCHANGED <<now, user, keys, picture, worker, history>>
  BY AccountBounds DEF ATypeOK, Begin
<1>2. ATypeOK'
  BY <1>1 DEF ATypeOK, user, keys, picture, worker, history, losses, LeftOver
<1>3. busy' = [busy EXCEPT ![q] = k] /\ expiring' \subseteq Pictures \union {NoPicture} /\ now' = now
  BY <1>1 DEF Begin, CallsInTime, worker
<1> QED BY <1>2, <1>3, BusyKept

LEMMA BeginsTyped ==
  ASSUME ATypeOK, CallsInTime, BeginsCall
  PROVE  ATypeOK' /\ CallsInTime'
<1>0. /\ now \in Steps /\ now <= now /\ secret \in Nat
      /\ avatar \in Pictures \union {NoPicture}
  BY AccountBounds DEF ATypeOK, Steps
<1>1. ASSUME NEW q \in Requests, ReadForLogin(q) PROVE ATypeOK' /\ CallsInTime'
  <2>1. PICK k : k = [op |-> "login", secret |-> secret]
    OBVIOUS
  <2>2. k \in AccountCalls /\ k.op = "login"
    BY <1>0, <2>1 DEF AccountCalls, LoginCalls
  <2> QED BY <1>1, <2>1, <2>2, BeginTyped DEF ReadForLogin
<1>2. ASSUME NEW q \in Requests, ReadForReset(q) PROVE ATypeOK' /\ CallsInTime'
  <2>1. PICK k : k = [op |-> "password", secret |-> secret, at |-> now]
    OBVIOUS
  <2>2. k \in AccountCalls /\ k.at = now
    BY <1>0, <2>1 DEF AccountCalls, ResetCalls
  <2> QED BY <1>0, <1>2, <2>1, <2>2, BeginTyped DEF ReadForReset
<1>3. ASSUME NEW q \in Requests, NEW s \in Sessions, ReadForChange(q, s)
      PROVE  ATypeOK' /\ CallsInTime'
  <2>1. PICK op \in {"change", "email", "delete"} :
          Begin(q, [op |-> op, by |-> s, secret |-> secret, at |-> now])
    BY <1>3 DEF ReadForChange
  <2>2. PICK k : k = [op |-> op, by |-> s, secret |-> secret, at |-> now]
    OBVIOUS
  <2>3. k \in AccountCalls /\ k.at = now
    BY <1>0, <2>2 DEF AccountCalls, ChangeCalls
  <2> QED BY <1>0, <2>1, <2>2, <2>3, BeginTyped
<1>4. ASSUME NEW q \in Requests, NEW s \in Sessions, ReadForAvatar(q, s)
      PROVE  ATypeOK' /\ CallsInTime'
  <2>1. PICK op \in {"upload", "write"}, p \in Pictures \union {NoPicture} :
          /\ op = "upload" => p \in Pictures
          /\ Begin(q, [op |-> op, old |-> avatar, new |-> p])
    BY <1>4 DEF ReadForAvatar, Fresh
  <2>2. PICK k : k = [op |-> op, old |-> avatar, new |-> p]
    OBVIOUS
  <2>3. k \in AccountCalls /\ k.op \in {"upload", "write"}
    BY <1>0, <2>1, <2>2 DEF AccountCalls, AvatarCalls
  <2> QED BY <2>1, <2>2, <2>3, BeginTyped
<1>5. ASSUME NEW q \in Requests, NEW t \in Tokens, ReadToken(q, t)
      PROVE  ATypeOK' /\ CallsInTime'
  <2>1. PICK kind \in {"password", "email"} :
          Begin(q, [op |-> "apply", is |-> t, kind |-> kind, at |-> now])
    BY <1>5 DEF ReadToken
  <2>2. PICK k : k = [op |-> "apply", is |-> t, kind |-> kind, at |-> now]
    OBVIOUS
  <2>3. k \in AccountCalls /\ k.at = now
    BY <1>0, <2>2 DEF AccountCalls, ApplyCalls
  <2> QED BY <1>0, <2>1, <2>2, <2>3, BeginTyped
<1>6. ASSUME NEW q \in Requests, NEW t \in Tokens, ReadForRecovery(q, t)
      PROVE  ATypeOK' /\ CallsInTime'
  <2>2. PICK k : k = [op |-> "recover", is |-> t, at |-> now]
    OBVIOUS
  <2>3. k \in AccountCalls /\ k.at = now
    BY <1>0, <2>2 DEF AccountCalls, RecoverCalls
  <2> QED BY <1>0, <1>6, <2>2, <2>3, BeginTyped DEF ReadForRecovery
<1> QED BY <1>1, <1>2, <1>3, <1>4, <1>5, <1>6 DEF BeginsCall

\* Revoked sessions and new tokens keep the shape of the tables.
LEMMA WithoutRows ==
  ASSUME session \in [Sessions -> SessionRows], NEW gone
  PROVE  Without(gone) \in [Sessions -> SessionRows]
<1>1. NoRow \in SessionRows
  BY AccountBounds DEF NoRow, SessionRows
<1> QED BY <1>1 DEF Without

LEMMA IssuedRows ==
  ASSUME token \in [Tokens -> TokenRows], NEW kinds, NEW kind \in {"password", "email", "recovery"},
         NEW until \in Moments, NEW issued \in Issued(kinds, kind, until)
  PROVE  issued \in [Tokens -> TokenRows]
<1>1. PICK n \in Vacant :
        issued = [t \in Tokens |-> IF t = n THEN [kind |-> kind, used |-> FALSE, until |-> until]
                                   ELSE IF t \in Unused(kinds) THEN NoToken ELSE token[t]]
  BY DEF Issued
<1>2. NoToken \in TokenRows /\ [kind |-> kind, used |-> FALSE, until |-> until] \in TokenRows
  BY AccountBounds DEF NoToken, TokenRows
<1> QED BY <1>1, <1>2

-----------------------------------------------------------------------------
\* The clock, the workers and the sessions that are ended.
LEMMA WorkersTyped ==
  ASSUME ATypeOK, CallsInTime,
         Advance \/ Cleanup \/ FindExpired \/ Anonymize
         \/ DropErased \/ WorkerStops \/ \E s \in Sessions : Logout(s)
  PROVE  ATypeOK' /\ CallsInTime'
<1>0. NoRow \in SessionRows /\ NoToken \in TokenRows
  BY AccountBounds DEF NoRow, SessionRows, NoToken, TokenRows
<1>1. CASE Advance
  <2>1. now \in Nat /\ now' = now + 1 /\ now' \in 0 .. Horizon
    BY <1>1, AccountBounds DEF Advance, ATypeOK
  <2>2. UNCHANGED <<user, keys, picture, busy, calls, worker, history>>
    BY <1>1 DEF Advance
  <2>3. ATypeOK'
    BY <2>1, <2>2 DEF ATypeOK, user, keys, picture, worker, history, losses, LeftOver
  <2>4. \A q \in Requests :
         busy[q].op \in {"change", "email", "delete", "password", "apply", "recover"}
           => busy[q].at <= now'
    <3> SUFFICES ASSUME NEW q \in Requests,
                        busy[q].op \in {"change", "email", "delete", "password", "apply", "recover"}
                 PROVE  busy[q].at <= now'
      OBVIOUS
    <3>1. busy[q].at \in Steps
      BY AccountCallKinds DEF CallsInTime, ChangeCalls, ResetCalls, ApplyCalls, RecoverCalls
    <3>2. busy[q].at \in Nat /\ busy[q].at <= now
      BY <3>1, AccountBounds DEF CallsInTime
    <3> QED BY <2>1, <3>2
  <2> QED BY <2>2, <2>3, <2>4 DEF CallsInTime, worker
<1>2. CASE Cleanup
  <2>1. session' \in [Sessions -> SessionRows] /\ token' \in [Tokens -> TokenRows]
    BY <1>0, <1>2 DEF Cleanup, ATypeOK
  <2> QED BY <1>2, <2>1 DEF Cleanup, ATypeOK, CallsInTime, user, picture, worker, history, losses, LeftOver
<1>3. CASE FindExpired
  BY <1>3 DEF FindExpired, ATypeOK, CallsInTime, user, keys, picture, worker, history, losses, LeftOver
<1>4. CASE Anonymize
  <2>1. /\ {active', erased', purged'} \subseteq BOOLEAN
        /\ avatar' \in Pictures \union {NoPicture} /\ stored' \subseteq Pictures
    BY <1>4 DEF Anonymize, ATypeOK
  <2>2. erasing' \subseteq Pictures /\ LeftOver' \subseteq Pictures
    BY <1>4 DEF Anonymize, ATypeOK, CallsInTime, LeftOver
  <2>3. expiring' \subseteq Pictures /\ UNCHANGED <<now, secret, due, keys, busy, calls>>
    BY <1>4 DEF Anonymize, Nothing
  <2> QED BY <2>1, <2>2, <2>3 DEF ATypeOK, CallsInTime, keys
<1>5. ASSUME NEW s \in Sessions, Logout(s) PROVE ATypeOK' /\ CallsInTime'
  <2>1. session' \in [Sessions -> SessionRows]
    BY <1>5, WithoutRows DEF Logout, ATypeOK
  <2> QED BY <1>5, <2>1 DEF Logout, ATypeOK, CallsInTime, user, picture, worker, history, losses, LeftOver
<1>6. CASE DropErased
  BY <1>6 DEF DropErased, ATypeOK, CallsInTime, user, keys, history, losses, LeftOver
<1>7. CASE WorkerStops
  BY <1>7 DEF WorkerStops, ATypeOK, CallsInTime, Nothing, user, keys, picture, LeftOver
<1> QED BY <1>1, <1>2, <1>3, <1>4, <1>5, <1>6, <1>7

\* Calls that write sessions and tokens.
LEMMA KeysTyped ==
  ASSUME ATypeOK, CallsInTime, NEW q \in Requests,
         Login(q) \/ ChangePassword(q) \/ SendToken(q) \/ ApplyToken(q)
  PROVE  ATypeOK' /\ CallsInTime'
<1>0. /\ now \in Steps /\ secret \in Nat \ {0} /\ session \in [Sessions -> SessionRows]
      /\ token \in [Tokens -> TokenRows] /\ busy[q] \in AccountCalls
      /\ NoRow \in SessionRows
  BY AccountBounds DEF ATypeOK, Steps, CallsInTime, NoRow, SessionRows
<1>1. CASE Login(q)
  <2>1. busy[q].secret \in Nat
    BY <1>0, <1>1, AccountCallKinds DEF Login, LoginCalls
  <2>2. [under |-> busy[q].secret, until |-> now + SessionTime] \in SessionRows
    BY <1>0, <2>1, AccountBounds DEF SessionRows
  <2>3. session' \in [Sessions -> SessionRows]
    BY <1>0, <1>1, <2>2 DEF Login
  <2>4. End(q) /\ UNCHANGED <<now, calls, user, token, picture, worker, late, losses>>
    BY <1>1 DEF Login, End, Continue
  <2> QED BY <2>3, <2>4, EndKept DEF ATypeOK, user, picture, worker, losses, LeftOver
<1>2. CASE ChangePassword(q)
  <2>1. PICK s \in Sessions : s = busy[q].by
    BY <1>0, <1>2, AccountCallKinds DEF ChangePassword, ChangeCalls
  <2>2. PICK kept : kept = Without(Revoked(s))
    OBVIOUS
  <2>3. kept \in [Sessions -> SessionRows]
    BY <1>0, <2>2, WithoutRows
  <2>4. session' = [kept EXCEPT ![s] = IF @ = NoRow THEN @ ELSE [@ EXCEPT !.under = secret + 1]]
    BY <1>2, <2>1, <2>2 DEF ChangePassword
  <2>5. [kept[s] EXCEPT !.under = secret + 1] \in SessionRows
    BY <1>0, <2>3 DEF SessionRows
  <2>6. session' \in [Sessions -> SessionRows]
    BY <2>3, <2>4, <2>5
  <2>7. End(q) /\ secret' \in Nat \ {0}
        /\ UNCHANGED <<now, calls, active, due, erased, purged, token, picture, worker, late, losses>>
    BY <1>0, <1>2 DEF ChangePassword, End, Continue
  <2> QED BY <2>6, <2>7, EndKept DEF ATypeOK, picture, worker, losses, LeftOver
<1>3. CASE SendToken(q)
  <2>1. PICK k \in {"password", "email"} : k = busy[q].op
    BY <1>3 DEF SendToken
  <2>2. token' \in Issued({k}, k, now + Lifetime)
    BY <1>3, <2>1 DEF SendToken
  <2>3. now + Lifetime \in Moments
    BY <1>0, AccountBounds
  <2>4. token' \in [Tokens -> TokenRows]
    BY <1>0, <2>2, <2>3, IssuedRows
  <2>5. End(q) /\ UNCHANGED <<now, calls, user, session, picture, worker, history>>
    BY <1>3 DEF SendToken, End, Continue
  <2> QED BY <2>4, <2>5, EndKept DEF ATypeOK, user, picture, worker, history, losses, LeftOver
<1>4. CASE ApplyToken(q)
  <2>1. PICK t \in Tokens : t = busy[q].is
    BY <1>0, <1>4, AccountCallKinds DEF ApplyToken, ApplyCalls
  <2>2. token' = token \/ token' = [token EXCEPT ![t] = [token[t] EXCEPT !.used = TRUE]]
    BY <1>4, <2>1 DEF ApplyToken, keys
  <2>3. [token[t] EXCEPT !.used = TRUE] \in TokenRows
    BY <1>0 DEF TokenRows
  <2>4. token' \in [Tokens -> TokenRows]
    BY <1>0, <2>2, <2>3
  <2>5. session' \in [Sessions -> SessionRows] /\ secret' \in Nat \ {0}
    BY <1>0, <1>4, WithoutRows DEF ApplyToken, keys
  <2>6. End(q) /\ UNCHANGED <<now, calls, active, due, erased, purged, picture, worker, history>>
    BY <1>4 DEF ApplyToken, End, Continue
  <2> QED BY <2>4, <2>5, <2>6, EndKept DEF ATypeOK, picture, worker, history, losses, LeftOver
<1> QED BY <1>1, <1>2, <1>3, <1>4

\* Calls that delete and recover.
LEMMA DeletionTyped ==
  ASSUME ATypeOK, CallsInTime, NEW q \in Requests, RequestDeletion(q) \/ CancelDeletion(q)
  PROVE  ATypeOK' /\ CallsInTime'
<1>0. /\ session \in [Sessions -> SessionRows] /\ due \in Moments
      /\ token \in [Tokens -> TokenRows] /\ busy[q] \in AccountCalls
      /\ NoToken \in TokenRows /\ 0 \in Moments
  BY AccountBounds DEF ATypeOK, CallsInTime, NoToken, TokenRows
<1>1. CASE RequestDeletion(q)
  <2>1. busy[q].at \in Steps
    BY <1>0, <1>1, AccountCallKinds DEF RequestDeletion, ChangeCalls
  <2>2. PICK until \in Moments : until = busy[q].at + Grace
    BY <2>1, AccountBounds
  <2>3. token' \in [Tokens -> TokenRows]
    <3>1. CASE token' = token
      BY <1>0, <3>1
    <3>2. CASE token' \in Issued({"password", "email", "recovery"}, "recovery", until)
      BY <1>0, <3>2, IssuedRows
    <3> QED BY <1>1, <2>2, <3>1, <3>2 DEF RequestDeletion, keys
  <2>4. session' \in [Sessions -> SessionRows] /\ due' \in Moments
    BY <1>0, <1>1, <2>2, WithoutRows DEF RequestDeletion, keys
  <2>5. {active', erased', purged'} \subseteq BOOLEAN
    BY <1>1 DEF RequestDeletion, ATypeOK
  <2>6. End(q) /\ UNCHANGED <<now, calls, secret, picture, worker, history>>
    BY <1>1 DEF RequestDeletion, End, Continue
  <2> QED BY <2>3, <2>4, <2>5, <2>6, EndKept DEF ATypeOK, picture, worker, history, losses, LeftOver
<1>2. CASE CancelDeletion(q)
  <2>1. PICK u \in Tokens : u = busy[q].is
    BY <1>0, <1>2, AccountCallKinds DEF CancelDeletion, RecoverCalls
  <2>2. \A t \in Tokens : [token[t] EXCEPT !.used = TRUE] \in TokenRows
    BY <1>0 DEF TokenRows
  <2>3. token' \in [Tokens -> TokenRows]
    BY <1>0, <1>2, <2>2 DEF CancelDeletion
  <2>4. {active', erased', purged'} \subseteq BOOLEAN /\ due' \in Moments
    BY <1>0, <1>2 DEF CancelDeletion, ATypeOK
  <2>5. End(q) /\ UNCHANGED <<now, calls, secret, session, picture, worker, overlap, losses>>
    BY <1>2 DEF CancelDeletion, End, Continue
  <2> QED BY <2>3, <2>4, <2>5, EndKept DEF ATypeOK, picture, worker, losses, LeftOver
<1> QED BY <1>1, <1>2

\* Calls that write the avatar, and crashes.
LEMMA AvatarTyped ==
  ASSUME ATypeOK, CallsInTime, NEW q \in Requests,
         Upload(q) \/ WriteAvatar(q) \/ WriteFails(q) \/ DropOld(q) \/ Crash(q)
  PROVE  ATypeOK' /\ CallsInTime'
<1>0. busy[q] \in AccountCalls
  BY DEF CallsInTime
<1>1. CASE Crash(q)
  <2>1. LeftOver' \subseteq Pictures
    BY <1>1 DEF Crash, Leaves, ATypeOK, LeftOver
  <2>2. End(q) /\ UNCHANGED <<now, calls, user, keys, picture, worker, overlap, late, replaced, forgotten>>
    BY <1>1 DEF Crash, End, Continue
  <2> QED BY <2>1, <2>2, EndKept DEF ATypeOK, user, keys, picture, worker
<1>2. CASE DropOld(q)
  <2>1. busy[q] \in AvatarCalls
    BY <1>0, <1>2, AccountCallKinds DEF DropOld
  <2>2. LeftOver' \subseteq Pictures /\ stored' \subseteq Pictures
    BY <1>2, <2>1 DEF DropOld, ATypeOK, AvatarCalls, LeftOver
  <2>3. End(q) /\ UNCHANGED <<now, calls, user, keys, avatar, worker, overlap, late, replaced, forgotten>>
    BY <1>2 DEF DropOld, End, Continue
  <2> QED BY <2>2, <2>3, EndKept DEF ATypeOK, user, keys, worker
<1>3. CASE Upload(q) \/ WriteAvatar(q)
  <2>1. PICK c \in AvatarCalls : c = busy[q]
    BY <1>0, <1>3, AccountCallKinds DEF Upload, WriteAvatar
  <2>2. c.new \in Pictures \union {NoPicture} /\ NoPicture \notin Pictures
    BY AccountBounds DEF AvatarCalls
  <2>3. avatar' \in Pictures \union {NoPicture} /\ LeftOver' \subseteq Pictures
    BY <1>3, <2>1, <2>2 DEF Upload, WriteAvatar, ATypeOK, picture, history, losses, LeftOver
  <2>4. [c EXCEPT !.op = "write"] \in AccountCalls /\ [c EXCEPT !.op = "drop"] \in AccountCalls
        /\ [c EXCEPT !.op = "write"].op = "write" /\ [c EXCEPT !.op = "drop"].op = "drop"
    BY DEF AccountCalls, AvatarCalls
  <2>5. PICK k \in AccountCalls : /\ Continue(q, k)
                                  /\ k.op \in {"write", "drop", "idle"}
    <3>1. Idle \in AccountCalls /\ Idle.op = "idle"
      BY DEF AccountCalls, Idle
    <3> QED BY <1>3, <2>1, <2>4, <3>1 DEF Upload, WriteAvatar, End
  <2>6. /\ busy' = [busy EXCEPT ![q] = k]
        /\ UNCHANGED <<now, calls, user, keys, worker, overlap>>
    BY <1>3, <2>5 DEF Upload, WriteAvatar, Continue, worker, history
  <2>7. CallsInTime'
    <3>1. expiring' \subseteq Pictures \union {NoPicture} /\ now' = now
      BY <2>6 DEF CallsInTime, worker
    <3> QED BY <2>5, <2>6, <3>1, BusyKept
  <2>8. stored' \subseteq Pictures
    BY <1>3, <2>1 DEF Upload, WriteAvatar, ATypeOK, AvatarCalls
  <2> QED BY <2>3, <2>6, <2>7, <2>8 DEF ATypeOK, user, keys, worker
<1>4. CASE WriteFails(q)
  <2>1. End(q) /\ stored' \subseteq Pictures /\ UNCHANGED <<now, calls, user, keys, avatar, worker, history>>
    BY <1>4 DEF WriteFails, End, Continue, ATypeOK
  <2> QED BY <2>1, EndKept DEF ATypeOK, user, keys, worker, history, losses, LeftOver
<1> QED BY <1>1, <1>2, <1>3, <1>4

LEMMA AccountTyped ==
  ASSUME ATypeOK, CallsInTime, ANext
  PROVE  ATypeOK' /\ CallsInTime'
BY BeginsTyped, WorkersTyped, KeysTyped, DeletionTyped, AvatarTyped DEF ANext, BeginsCall

-----------------------------------------------------------------------------
\* Every step but those of the sessions leaves them to their account.
LEMMA SessionsKept ==
  ASSUME ATypeOK, CallsInTime, SessionsOfPassword, ANext
  PROVE  SessionsOfPassword'
<1>0. session \in [Sessions -> SessionRows] /\ secret \in Nat
  BY DEF ATypeOK
<1>1. CASE UNCHANGED <<session, secret, active, overlap>>
  BY <1>1 DEF SessionsOfPassword
<1>2. CASE Cleanup
  BY <1>0, <1>2 DEF SessionsOfPassword, Cleanup, user, history
<1>3. ASSUME NEW s \in Sessions, Logout(s) PROVE SessionsOfPassword'
  BY <1>0, <1>3 DEF SessionsOfPassword, Logout, Without, user, history
<1>4. ASSUME NEW q \in Requests, Login(q) PROVE SessionsOfPassword'
  <2>1. PICK s \in Sessions :
          /\ session' = [session EXCEPT ![s] = [under |-> busy[q].secret, until |-> now + SessionTime]]
          /\ overlap' = IF busy[q].secret = secret /\ active THEN overlap \ {s}
                        ELSE overlap \union {s}
    BY <1>4 DEF Login
  <2>2. UNCHANGED <<secret, active>>
    BY <1>4 DEF Login, user
  <2> QED BY <1>0, <2>1, <2>2 DEF SessionsOfPassword
<1>5. ASSUME NEW q \in Requests, ChangePassword(q) PROVE SessionsOfPassword'
  <2>1. PICK c \in ChangeCalls : c = busy[q]
    BY <1>5, AccountCallKinds DEF ChangePassword, CallsInTime
  <2>2. PICK s \in Sessions : s = c.by
    BY DEF ChangeCalls
  <2>3. PICK kept : kept = Without(Sessions \ {s})
    OBVIOUS
  <2>4. kept \in [Sessions -> SessionRows] /\ \A t \in Sessions \ {s} : kept[t] = NoRow
        /\ kept[s] = session[s]
    BY <1>0, <2>3, WithoutRows DEF Without
  <2>5. /\ session' = [kept EXCEPT ![s] = IF @ = NoRow THEN @ ELSE [@ EXCEPT !.under = secret + 1]]
        /\ overlap' = IF c.secret = secret /\ active THEN overlap ELSE overlap \union {s}
        /\ secret' = secret + 1 /\ active' = active
    BY <1>5, <2>1, <2>2, <2>3 DEF ChangePassword, Revoked
  <2>6. \A t \in Sessions \ {s} : session'[t] = NoRow
    BY <2>4, <2>5
  <2>7. session'[s] # NoRow => session'[s].under = secret'
    <3>1. [session[s] EXCEPT !.under = secret + 1].under = secret + 1
      BY <1>0 DEF SessionRows
    <3>2. PICK r : r = IF kept[s] = NoRow THEN kept[s] ELSE [kept[s] EXCEPT !.under = secret + 1]
      OBVIOUS
    <3>3. session' = [kept EXCEPT ![s] = r]
      BY <2>5, <3>2
    <3>4. session'[s] = r
      BY <2>4, <3>3
    <3> QED BY <2>4, <2>5, <3>1, <3>2, <3>4
  <2>8. session'[s] # NoRow => s \in overlap' \/ active'
    BY <2>5
  <2> QED BY <2>6, <2>7, <2>8 DEF SessionsOfPassword
<1>6. ASSUME NEW q \in Requests, ApplyToken(q) PROVE SessionsOfPassword'
  <2>1. CASE session' = Without(Sessions)
    BY <2>1 DEF SessionsOfPassword, Without
  <2>2. CASE UNCHANGED <<session, secret>>
    BY <1>6, <2>2 DEF SessionsOfPassword, ApplyToken, history
  <2> QED BY <1>6, <2>1, <2>2 DEF ApplyToken, keys
<1>7. ASSUME NEW q \in Requests, RequestDeletion(q) PROVE SessionsOfPassword'
  <2>1. CASE session' = Without(Sessions)
    BY <2>1 DEF SessionsOfPassword, Without
  <2>2. CASE UNCHANGED <<session, active>>
    BY <1>7, <2>2 DEF SessionsOfPassword, RequestDeletion, history
  <2> QED BY <1>7, <2>1, <2>2 DEF RequestDeletion, keys
<1>8. ASSUME NEW q \in Requests, CancelDeletion(q) PROVE SessionsOfPassword'
  BY <1>8 DEF SessionsOfPassword, CancelDeletion
<1>9. Advance \/ FindExpired \/ Anonymize \/ DropErased \/ WorkerStops
        => UNCHANGED <<session, secret, active, overlap>>
  BY DEF Advance, FindExpired, Anonymize, DropErased, WorkerStops, user, keys, history
<1>10. ASSUME NEW q \in Requests
       PROVE  /\ SendToken(q) \/ Upload(q) \/ WriteAvatar(q) \/ WriteFails(q) \/ DropOld(q) \/ Crash(q)
                   => UNCHANGED <<session, secret, active, overlap>>
              /\ ReadForLogin(q) \/ ReadForReset(q)
                   => UNCHANGED <<session, secret, active, overlap>>
  BY DEF SendToken, Upload, WriteAvatar, WriteFails, DropOld, Crash, ReadForLogin, ReadForReset, Begin, user, keys,
         history
<1>11. ASSUME NEW q \in Requests
       PROVE  /\ \A s \in Sessions : ReadForChange(q, s) \/ ReadForAvatar(q, s)
                   => UNCHANGED <<session, secret, active, overlap>>
              /\ \A t \in Tokens : ReadToken(q, t) \/ ReadForRecovery(q, t)
                   => UNCHANGED <<session, secret, active, overlap>>
  BY DEF ReadForChange, ReadForAvatar, ReadToken, ReadForRecovery, Begin, user, keys, history
<1> QED BY <1>1, <1>2, <1>3, <1>4, <1>5, <1>6, <1>7, <1>8, <1>9, <1>10, <1>11 DEF ANext

-----------------------------------------------------------------------------
\* Every step but a deletion and a recovery leaves the link there is while there is time left.
LEMMA LinkStays ==
  ASSUME ATypeOK, LinkLasts, UNCHANGED <<active, due>>, now' \in Nat, now <= now', erased => erased',
         \A t \in Tokens : token[t].kind = "recovery" /\ token[t].until > now => token'[t] = token[t]
  PROVE  LinkLasts'
<1>0. now \in Nat /\ due \in Nat
  BY AccountBounds DEF ATypeOK
<1> SUFFICES ASSUME ~active, ~erased, due > now'
             PROVE  \E t \in Tokens : /\ token'[t].kind = "recovery" /\ ~token'[t].used
                                      /\ token'[t].until = due
  BY DEF LinkLasts
<1>1. due > now
  BY <1>0
<1>2. PICK t \in Tokens : token[t].kind = "recovery" /\ ~token[t].used /\ token[t].until = due
  BY <1>1 DEF LinkLasts
<1>3. token'[t] = token[t]
  BY <1>1, <1>2
<1> QED BY <1>2, <1>3

LEMMA LinkKept ==
  ASSUME ATypeOK, CallsInTime, LinkLasts, ANext
  PROVE  LinkLasts'
<1>0. /\ now \in Nat /\ now <= now /\ now + Lifetime \in Moments
      /\ token \in [Tokens -> TokenRows] /\ now \in Steps
  BY AccountBounds DEF ATypeOK, Steps
<1>1. CASE now' = now /\ UNCHANGED <<active, due, erased, token>>
  BY <1>0, <1>1, LinkStays
<1>2. CASE Advance
  <2>1. now' \in Nat /\ now <= now' /\ UNCHANGED <<active, due, erased, token>>
    BY <1>0, <1>2 DEF Advance, user, keys
  <2> QED BY <2>1, LinkStays
<1>3. CASE Cleanup
  <2>1. now' = now /\ UNCHANGED <<active, due, erased>>
    BY <1>3 DEF Cleanup, user
  <2>2. \A t \in Tokens : token[t].until > now => token'[t] = token[t]
    BY <1>0, <1>3, AccountBounds DEF Cleanup, TokenRows
  <2> QED BY <1>0, <2>1, <2>2, LinkStays
<1>4. CASE Anonymize
  <2>1. now' = now /\ UNCHANGED <<active, due, token>> /\ (erased => erased')
    BY <1>4 DEF Anonymize, keys
  <2> QED BY <1>0, <2>1, LinkStays
<1>5. ASSUME NEW q \in Requests, SendToken(q) PROVE LinkLasts'
  <2>1. PICK kind \in {"password", "email"} : kind = busy[q].op
    BY <1>5 DEF SendToken
  <2>2. token' \in Issued({kind}, kind, now + Lifetime)
    BY <1>5, <2>1 DEF SendToken
  <2>3. \A t \in Tokens : token[t].kind = "recovery" => token'[t] = token[t]
    BY <2>2 DEF Issued, Vacant, Unused
  <2>4. now' = now /\ UNCHANGED <<active, due, erased>>
    BY <1>5 DEF SendToken, End, Continue, user
  <2> QED BY <1>0, <2>3, <2>4, LinkStays
<1>6. ASSUME NEW q \in Requests, ApplyToken(q) PROVE LinkLasts'
  <2>1. now' = now /\ UNCHANGED <<active, due, erased>>
    BY <1>6 DEF ApplyToken, End, Continue
  <2>2. PICK c \in ApplyCalls : c = busy[q]
    BY <1>6, AccountCallKinds DEF ApplyToken, CallsInTime
  <2>3. PICK n \in Tokens : n = c.is
    BY DEF ApplyCalls
  <2>4. \A t \in Tokens : token[t].kind = "recovery" => token'[t] = token[t]
    <3>1. CASE token' = token
      BY <3>1
    <3>2. CASE token' = [token EXCEPT ![n].used = TRUE] /\ token[n].kind = c.kind
      BY <1>0, <3>2 DEF ApplyCalls
    <3> QED BY <1>6, <2>2, <2>3, <3>1, <3>2 DEF ApplyToken, Valid, keys
  <2> QED BY <1>0, <2>1, <2>4, LinkStays
<1>7. ASSUME NEW q \in Requests, RequestDeletion(q) PROVE LinkLasts'
  <2>1. PICK c \in ChangeCalls : c = busy[q]
    BY <1>7, AccountCallKinds DEF RequestDeletion, CallsInTime
  <2>2. PICK until \in Moments : until = c.at + Grace
    BY AccountBounds DEF ChangeCalls
  <2>3. CASE active
    <3>1. token' \in Issued({"password", "email", "recovery"}, "recovery", until)
      BY <1>7, <2>1, <2>2, <2>3 DEF RequestDeletion
    <3>2. \E n \in Tokens : token'[n] = [kind |-> "recovery", used |-> FALSE, until |-> until]
      BY <3>1 DEF Issued, Vacant
    <3>3. due' = until
      BY <1>7, <2>1, <2>2, <2>3 DEF RequestDeletion
    <3> QED BY <3>2, <3>3 DEF LinkLasts
  <2>4. CASE ~active
    <3>1. now' = now /\ UNCHANGED <<active, due, erased, token>>
      BY <1>7, <2>4 DEF RequestDeletion, End, Continue, keys
    <3> QED BY <1>1, <3>1
  <2> QED BY <2>3, <2>4
<1>8. ASSUME NEW q \in Requests, CancelDeletion(q) PROVE LinkLasts'
  <2>1. CASE active'
    BY <2>1 DEF LinkLasts
  <2>2. CASE now' = now /\ UNCHANGED <<active, due, erased, token>>
    BY <1>1, <2>2
  <2> QED BY <1>8, <2>1, <2>2 DEF CancelDeletion, End, Continue
<1>9. FindExpired \/ DropErased \/ WorkerStops \/ (\E s \in Sessions : Logout(s))
        => now' = now /\ UNCHANGED <<active, due, erased, token>>
  BY DEF FindExpired, DropErased, WorkerStops, Logout, user, keys
<1>10. ASSUME NEW q \in Requests
       PROVE  /\ Login(q) \/ ChangePassword(q) \/ Upload(q) \/ WriteAvatar(q) \/ DropOld(q) \/ Crash(q)
                 \/ WriteFails(q)
                   => now' = now /\ UNCHANGED <<active, due, erased, token>>
              /\ ReadForLogin(q) \/ ReadForReset(q)
                   => now' = now /\ UNCHANGED <<active, due, erased, token>>
  BY DEF Login, ChangePassword, Upload, WriteAvatar, WriteFails, DropOld, Crash, ReadForLogin, ReadForReset, Begin,
         End, Continue, user, keys
<1>11. ASSUME NEW q \in Requests
       PROVE  /\ \A s \in Sessions : ReadForChange(q, s) \/ ReadForAvatar(q, s)
                   => now' = now /\ UNCHANGED <<active, due, erased, token>>
              /\ \A t \in Tokens : ReadToken(q, t) \/ ReadForRecovery(q, t)
                   => now' = now /\ UNCHANGED <<active, due, erased, token>>
  BY DEF ReadForChange, ReadForAvatar, ReadToken, ReadForRecovery, Begin, user, keys
<1> QED BY <1>1, <1>2, <1>3, <1>4, <1>5, <1>6, <1>7, <1>8, <1>9, <1>10, <1>11 DEF ANext

\* What is erased was due, or recovered too late; and stays erased.
ErasedWasDue ==
  /\ erased => (~active /\ due <= now) \/ "recovery" \in late
  /\ purged => erased \/ "recovery" \in late
  /\ erased => avatar = NoPicture \/ late # {}

LEMMA ErasedKept ==
  ASSUME ATypeOK, CallsInTime, FoundExpired, ErasedWasDue, ANext
  PROVE  FoundExpired' /\ ErasedWasDue'
<1>0. now \in Nat /\ due \in Nat
  BY AccountBounds DEF ATypeOK
<1>1. CASE UNCHANGED <<now, active, due, erased, purged, avatar, expiring, late>>
  BY <1>1 DEF FoundExpired, ErasedWasDue
<1>2. CASE Advance
  BY <1>0, <1>2 DEF FoundExpired, ErasedWasDue, Advance, user, picture, worker, history
<1>3. CASE FindExpired
  BY <1>3 DEF FoundExpired, ErasedWasDue, FindExpired, Expired, user, picture, history
<1>4. CASE Anonymize
  <2>1. /\ (~active /\ due <= now) \/ "recovery" \in late
        /\ UNCHANGED <<now, active, due, late>> /\ expiring' = {} /\ purged' = TRUE
    BY <1>4 DEF FoundExpired, Anonymize, Nothing
  <2>2. CASE ~active /\ ~erased
    BY <1>4, <2>1, <2>2 DEF FoundExpired, ErasedWasDue, Anonymize
  <2>3. CASE active \/ erased
    BY <1>4, <2>1, <2>3 DEF FoundExpired, ErasedWasDue, Anonymize
  <2> QED BY <2>2, <2>3
<1>5. ASSUME NEW q \in Requests, RequestDeletion(q) PROVE FoundExpired' /\ ErasedWasDue'
  <2>1. UNCHANGED <<now, erased, purged, avatar, expiring, late>>
    BY <1>5 DEF RequestDeletion, End, Continue, picture, worker, history
  <2>2. CASE active
    BY <2>1, <2>2 DEF FoundExpired, ErasedWasDue
  <2>3. CASE ~active
    BY <1>1, <1>5, <2>1, <2>3 DEF RequestDeletion
  <2> QED BY <2>2, <2>3
<1>6. ASSUME NEW q \in Requests, CancelDeletion(q) PROVE FoundExpired' /\ ErasedWasDue'
  <2>1. UNCHANGED <<now, erased, purged, avatar, expiring>>
    BY <1>6 DEF CancelDeletion, End, Continue, picture, worker
  <2>2. CASE late' = IF due <= now THEN late \union {"recovery"} ELSE late
    BY <1>0, <2>1, <2>2 DEF FoundExpired, ErasedWasDue
  <2>3. CASE UNCHANGED <<active, due, late>>
    BY <1>1, <2>1, <2>3
  <2> QED BY <1>6, <2>2, <2>3 DEF CancelDeletion
<1>7. ASSUME NEW q \in Requests, WriteAvatar(q) PROVE FoundExpired' /\ ErasedWasDue'
  <2>1. /\ UNCHANGED <<now, active, due, erased, purged, expiring>>
        /\ late' = IF active THEN late ELSE late \union {"avatar"}
    BY <1>7 DEF WriteAvatar, Continue, user, worker
  <2> QED BY <2>1 DEF FoundExpired, ErasedWasDue
<1>8. Cleanup \/ DropErased \/ (\E s \in Sessions : Logout(s))
        => UNCHANGED <<now, active, due, erased, purged, avatar, expiring, late>>
  BY DEF Cleanup, DropErased, Logout, user, picture, worker, history
<1>9. ASSUME NEW q \in Requests
      PROVE  /\ Login(q) \/ ChangePassword(q) \/ SendToken(q) \/ ApplyToken(q)
                  => UNCHANGED <<now, active, due, erased, purged, avatar, expiring, late>>
             /\ Upload(q) \/ DropOld(q) \/ Crash(q) \/ WriteFails(q) \/ ReadForLogin(q) \/ ReadForReset(q)
                  => UNCHANGED <<now, active, due, erased, purged, avatar, expiring, late>>
  BY DEF Login, ChangePassword, SendToken, ApplyToken, Upload, DropOld, Crash, WriteFails, ReadForLogin,
         ReadForReset, Begin, End, Continue, user, picture, worker, history
<1>10. ASSUME NEW q \in Requests
       PROVE  /\ \A s \in Sessions : ReadForChange(q, s) \/ ReadForAvatar(q, s)
                   => UNCHANGED <<now, active, due, erased, purged, avatar, expiring, late>>
              /\ \A t \in Tokens : ReadToken(q, t) \/ ReadForRecovery(q, t)
                   => UNCHANGED <<now, active, due, erased, purged, avatar, expiring, late>>
  BY DEF ReadForChange, ReadForAvatar, ReadToken, ReadForRecovery, Begin, user, picture, worker, history
<1>11. CASE WorkerStops
  <2>1. UNCHANGED <<now, active, due, erased, purged, avatar, late>> /\ expiring' = {}
    BY <1>11 DEF WorkerStops, Nothing, user, picture
  <2> QED BY <2>1 DEF FoundExpired, ErasedWasDue
<1> QED BY <1>1, <1>2, <1>3, <1>4, <1>5, <1>6, <1>7, <1>8, <1>9, <1>10, <1>11 DEF ANext

-----------------------------------------------------------------------------
AvatarOps == {"upload", "write", "drop"}

\* A call that has nothing to do with pictures leaves them where they are.
LEMMA PicturesOther ==
  ASSUME PicturesHandled, NewIsOwn, NEW q \in Requests, busy[q].op \notin AvatarOps,
         busy'[q].op \notin AvatarOps, \A d \in Requests \ {q} : busy'[d] = busy[d],
         UNCHANGED <<avatar, stored, lost, LeftOver, expiring, erasing>>
  PROVE  PicturesHandled' /\ NewIsOwn'
<1>1. PicturesHandled'
  BY DEF PicturesHandled, Handles, AvatarOps
<1>2. NewIsOwn'
  BY DEF NewIsOwn, AvatarOps
<1> QED BY <1>1, <1>2

LEMMA PicturesBegin ==
  ASSUME ATypeOK, CallsInTime, PicturesHandled, NewIsOwn, NEW q \in Requests, NEW s \in Sessions,
         ReadForAvatar(q, s)
  PROVE  PicturesHandled' /\ NewIsOwn'
<1>1. PICK op \in {"upload", "write"}, p \in Pictures \union {NoPicture} :
        /\ (op = "upload" /\ p \in Fresh) \/ (op = "write" /\ p = NoPicture)
        /\ Begin(q, [op |-> op, old |-> avatar, new |-> p])
  BY DEF ReadForAvatar, Fresh
<1>2. PICK k : k = [op |-> op, old |-> avatar, new |-> p]
  OBVIOUS
<1>3. k \in AccountCalls /\ k.op = op /\ k.old = avatar /\ k.new = p
  BY <1>1, <1>2 DEF AccountCalls, AvatarCalls, ReadForAvatar, Fresh, ATypeOK
<1>4. /\ busy[q] = Idle /\ busy' = [busy EXCEPT ![q] = k] /\ now' = now
      /\ UNCHANGED <<avatar, stored, lost, LeftOver, expiring, erasing>>
  BY <1>1, <1>2 DEF Begin, picture, worker, history, losses, LeftOver
<1>5. /\ busy[q].op = "idle" /\ busy'[q] = k /\ \A d \in Requests \ {q} : busy'[d] = busy[d]
  BY <1>4 DEF CallsInTime, Idle
<1>6. PicturesHandled'
  BY <1>3, <1>4, <1>5 DEF PicturesHandled, Handles
<1>7. p # NoPicture => /\ p \notin stored \union lost \union expiring \union erasing \union {avatar}
                       /\ \A d \in Requests : busy[d].op \in AvatarOps => busy[d].old # p /\ busy[d].new # p
  <2> SUFFICES ASSUME p # NoPicture
               PROVE  /\ p \notin stored \union lost \union expiring \union erasing \union {avatar}
                      /\ \A d \in Requests : busy[d].op \in AvatarOps => busy[d].old # p /\ busy[d].new # p
    OBVIOUS
  <2>1. p \in Fresh
    BY <1>1
  <2>2. p \notin stored \union lost \union expiring \union erasing \union {avatar}
    BY <2>1 DEF Fresh, LeftOver, PicturesHandled
  <2>3. ASSUME NEW d \in Requests, busy[d].op \in AvatarOps PROVE busy[d].old # p /\ busy[d].new # p
    <3>1. busy[d] \in AvatarCalls
      BY <2>3, AccountCallKinds DEF CallsInTime, AvatarOps
    <3>2. "old" \in DOMAIN busy[d] /\ "new" \in DOMAIN busy[d]
      BY <3>1 DEF AvatarCalls
    <3>3. busy[d]["old"] \in Named("old") /\ busy[d]["new"] \in Named("new")
      BY <3>2 DEF Named
    <3> QED BY <2>1, <3>3 DEF Fresh
  <2> QED BY <2>2, <2>3
<1>8. NewIsOwn'
  <2>1. ASSUME NEW d \in Requests \ {q}
        PROVE  /\ busy'[d].op \in {"upload", "write"} /\ busy'[d].new # NoPicture =>
                    /\ avatar' # busy'[d].new /\ busy'[d].new \notin expiring' \union erasing'
                    /\ busy'[d].old # busy'[d].new
                    /\ \A e \in Requests \ {d} : busy'[e].op \in {"upload", "write", "drop"} =>
                         busy'[e].old # busy'[d].new /\ busy'[e].new # busy'[d].new
               /\ busy'[d].op = "write" => busy'[d].new \in stored' \union {NoPicture}
               /\ busy'[d].op = "drop" /\ busy'[d].old # NoPicture => avatar' # busy'[d].old
    BY <1>3, <1>4, <1>5, <1>7 DEF NewIsOwn, AvatarOps
  <2>2. /\ busy'[q].new # NoPicture =>
             /\ avatar' # busy'[q].new /\ busy'[q].new \notin expiring' \union erasing'
             /\ busy'[q].old # busy'[q].new
             /\ \A e \in Requests \ {q} : busy'[e].op \in {"upload", "write", "drop"} =>
                  busy'[e].old # busy'[q].new /\ busy'[e].new # busy'[q].new
        /\ busy'[q].op # "drop"
    BY <1>3, <1>4, <1>5, <1>7 DEF AvatarOps
  <2>3. busy'[q].op = "write" => busy'[q].new \in stored' \union {NoPicture}
    BY <1>1, <1>3, <1>5
  <2> QED BY <2>1, <2>2, <2>3 DEF NewIsOwn
<1> QED BY <1>6, <1>8

\* A call that uploads, writes or deletes, at its next step.
LEMMA PicturesStep ==
  ASSUME ATypeOK, CallsInTime, PicturesHandled, NewIsOwn, NEW q \in Requests,
         Upload(q) \/ WriteAvatar(q) \/ WriteFails(q) \/ DropOld(q)
  PROVE  PicturesHandled' /\ NewIsOwn'
<1>0. /\ busy \in [Requests -> AccountCalls] /\ stored \subseteq Pictures /\ erasing \subseteq Pictures
      /\ avatar \in Pictures \union {NoPicture} /\ NoPicture \notin Pictures
  BY AccountBounds DEF CallsInTime, ATypeOK
<1>1. PICK c \in AvatarCalls : c = busy[q]
  BY <1>0, AccountCallKinds DEF Upload, WriteAvatar, WriteFails, DropOld
<1>2. CASE Upload(q)
  <2>1. c.op = "upload" /\ UNCHANGED <<avatar, expiring, erasing, lost, LeftOver>>
    BY <1>1, <1>2 DEF Upload, worker, history, losses, LeftOver
  <2>2. c.new \in Pictures
    BY <2>1 DEF AvatarCalls
  <2>3. CASE stored' = stored \union {c.new} /\ Continue(q, [c EXCEPT !.op = "write"])
    <3>1. PICK k : k = [c EXCEPT !.op = "write"]
      OBVIOUS
    <3>2. k.op = "write" /\ k.old = c.old /\ k.new = c.new
      BY <3>1 DEF AvatarCalls
    <3>3. busy'[q] = k /\ \A d \in Requests \ {q} : busy'[d] = busy[d]
      BY <1>0, <2>3, <3>1 DEF Continue
    <3>4. PicturesHandled'
      BY <1>1, <2>1, <2>3, <3>2, <3>3 DEF PicturesHandled, Handles
    <3>5. NewIsOwn'
      BY <1>1, <2>1, <2>3, <3>2, <3>3 DEF NewIsOwn
    <3> QED BY <3>4, <3>5
  <2>4. CASE UNCHANGED stored /\ End(q)
    <3>1. busy'[q] = Idle /\ \A d \in Requests \ {q} : busy'[d] = busy[d]
      BY <2>1, <2>4, EndKept
    <3>2. busy'[q].op = "idle"
      BY <3>1 DEF Idle
    <3>3. PicturesHandled'
      BY <1>1, <2>1, <2>4, <3>1, <3>2 DEF PicturesHandled, Handles
    <3>4. NewIsOwn'
      BY <2>1, <2>4, <3>1, <3>2 DEF NewIsOwn
    <3> QED BY <3>3, <3>4
  <2> QED BY <1>1, <1>2, <2>3, <2>4 DEF Upload
<1>3. CASE WriteAvatar(q)
  <2>1. /\ c.op = "write" /\ avatar' = c.new /\ lost' = lost
        /\ LeftOver' = LeftOver \union ({avatar} \ {c.old, NoPicture})
        /\ UNCHANGED <<stored, expiring, erasing>> /\ Continue(q, [c EXCEPT !.op = "drop"])
    BY <1>1, <1>3 DEF WriteAvatar, worker, LeftOver
  <2>2. PICK k : k = [c EXCEPT !.op = "drop"]
    OBVIOUS
  <2>3. k.op = "drop" /\ k.old = c.old /\ k.new = c.new
    BY <2>2 DEF AvatarCalls
  <2>4. busy'[q] = k /\ \A d \in Requests \ {q} : busy'[d] = busy[d]
    BY <1>0, <2>1, <2>2 DEF Continue
  <2>5. /\ c.new \in stored \union {NoPicture} /\ c.new \notin erasing
        /\ c.new # NoPicture =>
             /\ c.old # c.new
             /\ \A d \in Requests \ {q} : busy[d].op \in {"upload", "write", "drop"} =>
                  busy[d].old # c.new /\ busy[d].new # c.new
    BY <1>0, <1>1, <2>1 DEF NewIsOwn
  <2>6. PicturesHandled'
    <3>1. /\ avatar' \in stored' \union lost' \union {NoPicture} /\ avatar' \notin erasing'
          /\ expiring' = {} \/ erasing' = {}
      BY <2>1, <2>5 DEF PicturesHandled
    <3>2. ASSUME NEW p \in stored, ~(p = avatar' \/ p \in erasing' \/ p \in LeftOver')
          PROVE  \E d \in Requests : Handles(d, p)'
      <4>1. p = avatar => Handles(q, p)'
        BY <1>0, <2>1, <2>3, <2>4, <3>2 DEF Handles
      <4>2. ASSUME NEW d \in Requests, Handles(d, p) PROVE Handles(d, p)'
        BY <1>1, <2>1, <2>4, <3>2, <4>2 DEF Handles
      <4> QED BY <2>1, <3>2, <4>1, <4>2 DEF PicturesHandled
    <3> QED BY <2>1, <3>1, <3>2 DEF PicturesHandled
  <2>7. NewIsOwn'
    <3>1. ASSUME NEW d \in Requests \ {q}
          PROVE  /\ busy'[d].op \in {"upload", "write"} /\ busy'[d].new # NoPicture =>
                      /\ avatar' # busy'[d].new /\ busy'[d].new \notin expiring' \union erasing'
                      /\ busy'[d].old # busy'[d].new
                      /\ \A e \in Requests \ {d} : busy'[e].op \in {"upload", "write", "drop"} =>
                           busy'[e].old # busy'[d].new /\ busy'[e].new # busy'[d].new
                 /\ busy'[d].op = "write" => busy'[d].new \in stored' \union {NoPicture}
                 /\ busy'[d].op = "drop" /\ busy'[d].old # NoPicture => avatar' # busy'[d].old
      BY <1>1, <2>1, <2>3, <2>4, <2>5 DEF NewIsOwn
    <3>2. /\ busy'[q].op = "drop"
          /\ busy'[q].old # NoPicture => avatar' # busy'[q].old
      BY <2>1, <2>3, <2>4, <2>5
    <3> QED BY <3>1, <3>2 DEF NewIsOwn
  <2> QED BY <2>6, <2>7
<1>4. CASE DropOld(q)
  <2>1. c.op = "drop" /\ UNCHANGED <<avatar, expiring, erasing>> /\ End(q)
    BY <1>1, <1>4 DEF DropOld, worker
  <2>2. busy'[q] = Idle /\ \A d \in Requests \ {q} : busy'[d] = busy[d]
    BY <2>1, EndKept
  <2>3. busy'[q].op = "idle"
    BY <2>2 DEF Idle
  <2>4. c.old # NoPicture => avatar # c.old
    BY <1>1, <2>1 DEF NewIsOwn
  <2>5. \/ stored' = stored \ {c.old} /\ lost' = lost /\ LeftOver' = LeftOver
        \/ /\ stored' \in {stored \ {c.new}, stored}
           /\ lost' = lost \union ({c.old, c.new} \ {NoPicture})
           /\ LeftOver' = LeftOver \union ({c.old, c.new} \ {NoPicture})
    BY <1>1, <1>4 DEF DropOld, Superseded, LeftOver
  <2>6. PicturesHandled'
    <3>1. /\ avatar' \in stored' \union lost' \union {NoPicture} /\ avatar' \notin erasing'
          /\ expiring' = {} \/ erasing' = {}
      BY <2>1, <2>4, <2>5 DEF PicturesHandled
    <3>2. ASSUME NEW p \in stored', ~(p = avatar' \/ p \in erasing' \/ p \in LeftOver')
          PROVE  \E d \in Requests : Handles(d, p)'
      <4>1. p \in stored /\ p # c.old /\ p # avatar /\ p \notin erasing /\ p \notin LeftOver
        BY <1>0, <2>1, <2>5, <3>2
      <4>2. PICK d \in Requests : Handles(d, p)
        BY <4>1 DEF PicturesHandled
      <4>3. d # q
        BY <1>1, <2>1, <4>1, <4>2 DEF Handles
      <4> QED BY <2>2, <4>2, <4>3 DEF Handles
    <3> QED BY <3>1, <3>2 DEF PicturesHandled
  <2>7. ASSUME NEW d \in Requests, busy[d].op \in {"upload", "write"}, busy[d].new # NoPicture
        PROVE  busy[d].new # c.old /\ busy[d].new # c.new
    <3>1. d # q
      BY <1>1, <2>1, <2>7
    <3> QED BY <1>1, <2>1, <2>7, <3>1 DEF NewIsOwn
  <2>8. NewIsOwn'
    BY <2>1, <2>2, <2>3, <2>5, <2>7 DEF NewIsOwn
  <2> QED BY <2>6, <2>8
<1>5. CASE WriteFails(q)
  <2>1. /\ c.op = "write" /\ stored' = stored \ {c.new} /\ End(q)
        /\ UNCHANGED <<avatar, expiring, erasing, lost, LeftOver>>
    BY <1>1, <1>5 DEF WriteFails, worker, history, losses, LeftOver
  <2>2. busy'[q] = Idle /\ \A d \in Requests \ {q} : busy'[d] = busy[d]
    BY <2>1, EndKept
  <2>3. busy'[q].op = "idle"
    BY <2>2 DEF Idle
  <2>4. c.new # NoPicture => avatar # c.new
    BY <1>1, <2>1 DEF NewIsOwn
  <2>5. PicturesHandled'
    <3>1. /\ avatar' \in stored' \union lost' \union {NoPicture} /\ avatar' \notin erasing'
          /\ expiring' = {} \/ erasing' = {}
      BY <2>1, <2>4 DEF PicturesHandled
    <3>2. ASSUME NEW p \in stored', ~(p = avatar' \/ p \in erasing' \/ p \in LeftOver')
          PROVE  \E d \in Requests : Handles(d, p)'
      <4>1. PICK d \in Requests : Handles(d, p)
        BY <2>1, <3>2 DEF PicturesHandled
      <4>2. d # q
        BY <1>1, <2>1, <3>2, <4>1 DEF Handles
      <4> QED BY <2>2, <4>1, <4>2 DEF Handles
    <3> QED BY <3>1, <3>2 DEF PicturesHandled
  <2>6. ASSUME NEW d \in Requests \ {q}, busy[d].op \in {"upload", "write"}, busy[d].new # NoPicture
        PROVE  busy[d].new # c.new
    BY <1>1, <2>1, <2>6 DEF NewIsOwn
  <2>7. NewIsOwn'
    BY <2>1, <2>2, <2>3, <2>6 DEF NewIsOwn
  <2> QED BY <2>5, <2>7
<1> QED BY <1>2, <1>3, <1>4, <1>5

LEMMA PicturesKept ==
  ASSUME ATypeOK, CallsInTime, PicturesHandled, NewIsOwn, ANext
  PROVE  PicturesHandled' /\ NewIsOwn'
<1>0. /\ busy \in [Requests -> AccountCalls] /\ stored \subseteq Pictures /\ erasing \subseteq Pictures
      /\ avatar \in Pictures \union {NoPicture} /\ NoPicture \notin Pictures
  BY AccountBounds DEF CallsInTime, ATypeOK
<1>1. CASE UNCHANGED <<avatar, stored, lost, LeftOver, erasing, busy>>
           /\ expiring' \subseteq expiring \union {avatar} /\ (expiring' = {} \/ erasing = {})
  <2>1. PicturesHandled'
    BY <1>1 DEF PicturesHandled, Handles
  <2>2. NewIsOwn'
    BY <1>1 DEF NewIsOwn
  <2> QED BY <2>1, <2>2
<1>2. CASE Anonymize
  <2>1. UNCHANGED <<stored, lost, busy>> /\ expiring' = {}
    BY <1>2 DEF Anonymize, Nothing
  <2>2. CASE UNCHANGED <<avatar, erasing, replaced>>
    <3>1. LeftOver' = LeftOver
      BY <1>2, <2>2 DEF Anonymize, LeftOver
    <3> QED BY <1>1, <2>1, <2>2, <3>1
  <2>3. CASE /\ avatar' = NoPicture /\ erasing' = expiring \ {NoPicture}
             /\ replaced' = replaced \union ({avatar} \ (expiring \union {NoPicture}))
    <3>1. erasing = {} /\ LeftOver' = LeftOver \union ({avatar} \ (expiring \union {NoPicture}))
      BY <1>0, <1>2, <2>3 DEF Anonymize, LeftOver, PicturesHandled, Nothing
    <3>2. PicturesHandled'
      BY <1>0, <2>1, <2>3, <3>1 DEF PicturesHandled, Handles
    <3>3. NewIsOwn'
      BY <2>1, <2>3 DEF NewIsOwn
    <3> QED BY <3>2, <3>3
  <2> QED BY <1>2, <2>2, <2>3 DEF Anonymize
<1>3. ASSUME NEW q \in Requests, Crash(q) PROVE PicturesHandled' /\ NewIsOwn'
  <2>1. /\ lost' = lost \union Leaves(busy[q]) /\ LeftOver' = LeftOver \union Leaves(busy[q])
        /\ UNCHANGED <<avatar, stored, expiring, erasing>> /\ End(q)
    BY <1>3 DEF Crash, picture, worker, LeftOver
  <2>2. busy'[q] = Idle /\ \A d \in Requests \ {q} : busy'[d] = busy[d]
    BY <2>1, EndKept
  <2>3. busy'[q].op = "idle"
    BY <2>2 DEF Idle
  <2>4. \A p \in Pictures : Handles(q, p) => p \in LeftOver'
    BY <2>1 DEF Handles, Leaves
  <2>5. PicturesHandled'
    <3>1. ASSUME NEW p \in stored, ~(p = avatar' \/ p \in erasing' \/ p \in LeftOver')
          PROVE  \E d \in Requests : Handles(d, p)'
      <4>1. PICK d \in Requests : Handles(d, p)
        BY <2>1, <3>1 DEF PicturesHandled
      <4>2. d # q
        BY <1>0, <2>4, <3>1, <4>1
      <4> QED BY <2>2, <4>1, <4>2 DEF Handles
    <3>2. /\ avatar' \in stored' \union lost' \union {NoPicture} /\ avatar' \notin erasing'
          /\ expiring' = {} \/ erasing' = {}
      BY <2>1 DEF PicturesHandled
    <3> QED BY <2>1, <3>1, <3>2 DEF PicturesHandled
  <2>6. NewIsOwn'
    BY <2>1, <2>2, <2>3 DEF NewIsOwn
  <2> QED BY <2>5, <2>6
<1>4. ASSUME NEW q \in Requests,
             \/ Login(q) \/ ChangePassword(q) \/ SendToken(q) \/ ApplyToken(q) \/ RequestDeletion(q)
             \/ CancelDeletion(q)
      PROVE  PicturesHandled' /\ NewIsOwn'
  <2>1. busy[q].op \notin AvatarOps /\ End(q) /\ UNCHANGED <<avatar, stored, lost, LeftOver, expiring, erasing>>
    BY <1>4 DEF AvatarOps, Login, ChangePassword, SendToken, ApplyToken, RequestDeletion, CancelDeletion,
                picture, worker, history, losses, LeftOver
  <2>2. busy'[q] = Idle /\ \A d \in Requests \ {q} : busy'[d] = busy[d]
    BY <2>1, EndKept
  <2>3. busy'[q].op \notin AvatarOps
    BY <2>2 DEF Idle, AvatarOps
  <2> QED BY <2>1, <2>2, <2>3, PicturesOther
<1>5. ASSUME NEW q \in Requests, NEW k \in AccountCalls, Begin(q, k), k.op \notin AvatarOps
      PROVE  PicturesHandled' /\ NewIsOwn'
  <2>1. /\ busy[q] = Idle /\ busy' = [busy EXCEPT ![q] = k]
        /\ UNCHANGED <<avatar, stored, lost, LeftOver, expiring, erasing>>
    BY <1>5 DEF Begin, picture, worker, history, losses, LeftOver
  <2>2. /\ busy[q].op \notin AvatarOps /\ busy'[q].op \notin AvatarOps
        /\ \A d \in Requests \ {q} : busy'[d] = busy[d]
    BY <1>0, <1>5, <2>1 DEF Idle, AvatarOps
  <2> QED BY <2>1, <2>2, PicturesOther
<1>6. now \in Steps /\ secret \in Nat
  BY DEF ATypeOK, Steps
<1>7. ASSUME NEW q \in Requests, ReadForLogin(q) PROVE PicturesHandled' /\ NewIsOwn'
  <2>1. PICK k : k = [op |-> "login", secret |-> secret]
    OBVIOUS
  <2>2. k \in AccountCalls /\ k.op \notin AvatarOps
    BY <1>6, <2>1 DEF AccountCalls, LoginCalls, AvatarOps
  <2> QED BY <1>5, <1>7, <2>1, <2>2 DEF ReadForLogin
<1>8. ASSUME NEW q \in Requests, ReadForReset(q) PROVE PicturesHandled' /\ NewIsOwn'
  <2>1. PICK k : k = [op |-> "password", secret |-> secret, at |-> now]
    OBVIOUS
  <2>2. k \in AccountCalls /\ k.op \notin AvatarOps
    BY <1>6, <2>1 DEF AccountCalls, ResetCalls, AvatarOps
  <2> QED BY <1>5, <1>8, <2>1, <2>2 DEF ReadForReset
<1>9. ASSUME NEW q \in Requests, NEW s \in Sessions, ReadForChange(q, s)
      PROVE  PicturesHandled' /\ NewIsOwn'
  <2>1. PICK op \in {"change", "email", "delete"} :
          Begin(q, [op |-> op, by |-> s, secret |-> secret, at |-> now])
    BY <1>9 DEF ReadForChange
  <2>2. PICK k : k = [op |-> op, by |-> s, secret |-> secret, at |-> now]
    OBVIOUS
  <2>3. k \in AccountCalls /\ k.op \notin AvatarOps
    BY <1>6, <2>2 DEF AccountCalls, ChangeCalls, AvatarOps
  <2> QED BY <1>5, <2>1, <2>2, <2>3
<1>10. ASSUME NEW q \in Requests, NEW t \in Tokens, ReadToken(q, t)
       PROVE  PicturesHandled' /\ NewIsOwn'
  <2>1. PICK kind \in {"password", "email"} :
          Begin(q, [op |-> "apply", is |-> t, kind |-> kind, at |-> now])
    BY <1>10 DEF ReadToken
  <2>2. PICK k : k = [op |-> "apply", is |-> t, kind |-> kind, at |-> now]
    OBVIOUS
  <2>3. k \in AccountCalls /\ k.op \notin AvatarOps
    BY <1>6, <2>2 DEF AccountCalls, ApplyCalls, AvatarOps
  <2> QED BY <1>5, <2>1, <2>2, <2>3
<1>11. ASSUME NEW q \in Requests, NEW t \in Tokens, ReadForRecovery(q, t)
       PROVE  PicturesHandled' /\ NewIsOwn'
  <2>1. PICK k : k = [op |-> "recover", is |-> t, at |-> now]
    OBVIOUS
  <2>2. k \in AccountCalls /\ k.op \notin AvatarOps
    BY <1>6, <2>1 DEF AccountCalls, RecoverCalls, AvatarOps
  <2> QED BY <1>5, <1>11, <2>1, <2>2 DEF ReadForRecovery
<1>12. Advance \/ Cleanup \/ FindExpired \/ (\E s \in Sessions : Logout(s))
         => /\ UNCHANGED <<avatar, stored, lost, LeftOver, erasing, busy>>
            /\ expiring' \subseteq expiring \union {avatar} /\ (expiring' = {} \/ erasing = {})
  BY DEF Advance, Cleanup, FindExpired, Logout, picture, worker, history, losses, LeftOver, PicturesHandled,
         Nothing
<1>13. CASE DropErased
  <2>1. /\ stored' = stored \ erasing /\ erasing' = {}
        /\ UNCHANGED <<avatar, lost, LeftOver, expiring, busy>>
    BY <1>13 DEF DropErased, history, losses, LeftOver
  <2>2. PicturesHandled'
    BY <2>1 DEF PicturesHandled, Handles
  <2>3. NewIsOwn'
    BY <1>0, <2>1 DEF NewIsOwn
  <2> QED BY <2>2, <2>3
<1>14. CASE WorkerStops
  <2>1. /\ expiring' = {} /\ erasing' = {} /\ LeftOver' = LeftOver \union erasing
        /\ UNCHANGED <<avatar, stored, lost, busy>>
    BY <1>14 DEF WorkerStops, Nothing, picture, LeftOver
  <2>2. PicturesHandled'
    BY <2>1 DEF PicturesHandled, Handles
  <2>3. NewIsOwn'
    BY <2>1 DEF NewIsOwn
  <2> QED BY <2>2, <2>3
<1> QED BY <1>1, <1>2, <1>3, <1>4, <1>7, <1>8, <1>9, <1>10, <1>11, <1>12, <1>13, <1>14, PicturesBegin, PicturesStep
    DEF ANext

-----------------------------------------------------------------------------
LEMMA AccountInit == AInit => AccountInv
<1> SUFFICES ASSUME AInit PROVE AccountInv
  OBVIOUS
<1>1. /\ NoRow \in SessionRows /\ NoToken \in TokenRows /\ Idle \in AccountCalls /\ Idle.op = "idle"
      /\ 0 \in 0 .. Horizon /\ 0 \in 0 .. MaxCalls /\ 0 \in Moments
  BY AccountBounds DEF NoRow, SessionRows, NoToken, TokenRows, Idle, AccountCalls
<1>2. ATypeOK
  <2>1. session \in [Sessions -> SessionRows] /\ token \in [Tokens -> TokenRows]
    BY <1>1 DEF AInit
  <2>2. secret \in Nat \ {0}
    BY DEF AInit
  <2>3. active \in BOOLEAN /\ erased \in BOOLEAN /\ purged \in BOOLEAN
    BY Zenon DEF AInit
  <2> QED BY <1>1, <2>1, <2>2, <2>3 DEF AInit, ATypeOK, LeftOver
<1>3. SessionsOfPassword /\ DeletionHolds /\ LinkLasts /\ FoundExpired
  BY <1>2 DEF AInit, SessionsOfPassword, DeletionHolds, LinkLasts, FoundExpired, NoRow, Nothing
<1>4. CallsInTime /\ PicturesHandled /\ NewIsOwn
  BY <1>1 DEF AInit, CallsInTime, PicturesHandled, NewIsOwn, Nothing
<1> QED BY <1>3, <1>4 DEF AccountInv

LEMMA AccountStep == AccountInv /\ [ANext]_avars => AccountInv'
<1> SUFFICES ASSUME AccountInv, [ANext]_avars PROVE AccountInv'
  OBVIOUS
<1>0. /\ ATypeOK /\ CallsInTime /\ SessionsOfPassword /\ LinkLasts /\ FoundExpired /\ PicturesHandled
      /\ NewIsOwn /\ ErasedWasDue
  BY DEF AccountInv, DeletionHolds, ErasedWasDue
<1>1. CASE ANext
  <2>1. ATypeOK' /\ CallsInTime'
    BY <1>0, <1>1, AccountTyped
  <2>2. SessionsOfPassword' /\ LinkLasts' /\ FoundExpired' /\ ErasedWasDue'
    BY <1>0, <1>1, SessionsKept, LinkKept, ErasedKept
  <2>3. PicturesHandled' /\ NewIsOwn'
    BY <1>0, <1>1, PicturesKept
  <2>4. DeletionHolds'
    <3>1. ~active' /\ ~erased' /\ due' > now' => \E t \in Tokens : Valid(t, "recovery", now)'
      BY <2>2 DEF LinkLasts, Valid
    <3> QED BY <2>1, <2>2, <3>1 DEF DeletionHolds, ErasedWasDue
  <2> QED BY <2>1, <2>2, <2>3, <2>4 DEF AccountInv
<1>2. CASE UNCHANGED avars
  <2>1. UNCHANGED <<now, secret, active, due, erased, purged, session, token, avatar, stored, busy, calls,
                    expiring, erasing, overlap, late, replaced, lost, forgotten, LeftOver>>
    BY <1>2 DEF avars, user, keys, picture, worker, history, losses, LeftOver
  <2>2. ATypeOK' /\ SessionsOfPassword'
    BY <1>0, <2>1 DEF ATypeOK, SessionsOfPassword
  <2>3. DeletionHolds'
    BY <2>1, <2>2 DEF AccountInv, DeletionHolds, Valid
  <2>4. CallsInTime' /\ LinkLasts' /\ FoundExpired'
    BY <1>0, <2>1 DEF CallsInTime, LinkLasts, FoundExpired
  <2>5. PicturesHandled' /\ NewIsOwn'
    BY <1>0, <2>1 DEF PicturesHandled, Handles, NewIsOwn
  <2> QED BY <2>2, <2>3, <2>4, <2>5 DEF AccountInv
<1> QED BY <1>1, <1>2

LEMMA AccountAlways == ASpec => []AccountInv
  BY AccountInit, AccountStep, PTL DEF ASpec

\* The state of an account keeps its types, whatever its calls and the workers do.
THEOREM AccountTypeCorrect == ASpec => []ATypeOK
<1>1. AccountInv => ATypeOK
  BY DEF AccountInv, DeletionHolds
<1> QED BY <1>1, AccountAlways, PTL

\* changePassword, resetPassword, requestAccountDeletion: a session that is left was opened with, or
\* has chosen, the credentials there are, unless a call that verified the old ones ended later.
THEOREM SessionsHoldPassword == ASpec => []SessionsOfPassword
<1>1. AccountInv => SessionsOfPassword
  BY DEF AccountInv
<1> QED BY <1>1, AccountAlways, PTL

\* requestAccountDeletion, cancelAccountDeletion, anonymizeExpiredAccounts: recoverable while there is
\* time, erased only afterwards, for any grace period.
THEOREM DeletionAlwaysHolds == ASpec => []DeletionHolds
<1>1. AccountInv => DeletionHolds
  BY DEF AccountInv
<1> QED BY <1>1, AccountAlways, PTL

\* uploadAvatar, removeAvatar and anonymizeExpiredAccounts: in any interleaving of any number of calls, and
\* wherever one of them or the worker dies, a picture that is left to nobody was written over by a
\* call that had not read it, or belonged to a call that died or to an erasure after its commit.
THEOREM AvatarAlwaysStands == ASpec => []AvatarStands
<1>1. AccountInv => AvatarStands
  <2> SUFFICES ASSUME AccountInv PROVE AvatarStands
    OBVIOUS
  <2>1. PicturesHandled /\ CallsInTime
    BY DEF AccountInv
  <2>2. ASSUME NEW p \in Pictures, NEW q \in Requests, Handles(q, p) PROVE p \in InHand
    BY <2>2 DEF Handles, InHand, Leaves
  <2>3. stored \subseteq Pictures
    BY DEF AccountInv, DeletionHolds, ATypeOK
  <2> QED BY <2>1, <2>2, <2>3 DEF PicturesHandled, AvatarStands
<1> QED BY <1>1, AccountAlways, PTL
=============================================================================
