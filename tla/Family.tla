------------------------------- MODULE Family -------------------------------
(***************************************************************************)
(* The life cycle of families (modules/families): invitations, membership, *)
(* leaving, archive and restore, and dissolution by both partners.         *)
(*                                                                         *)
(* The invitation commands run in SERIALIZABLE transactions and are single *)
(* steps.  The family commands read the caller's membership first and act  *)
(* on that context in a later READ COMMITTED transaction: they are calls   *)
(* that other calls interleave with.  A family only ever gets members when *)
(* it is founded, and both of them are partners.                           *)
(***************************************************************************)
EXTENDS Naturals, FiniteSets

CONSTANTS
  Users,
  Invites,     \* invitations that may be created
  Sender, Recipient,
  Private,     \* the invitations made by e-mail and token
  Families,    \* families that may be founded
  Calls,       \* calls of the family commands
  Caller, Op,
  NoFamily, NoCall

Ops == {"leave", "archive", "restore", "request", "confirm", "cancel"}

ASSUME FamilyAssumption ==
  /\ Sender \in [Invites -> Users]
  /\ Recipient \in [Invites -> Users]
  /\ \A i \in Invites : Sender[i] # Recipient[i]
  /\ Private \subseteq Invites
  /\ Caller \in [Calls -> Users]
  /\ Op \in [Calls -> Ops]
  /\ NoFamily \notin Families
  /\ NoCall \notin Calls

VARIABLES
  status,     \* Family.status, "none" before it is founded
  member,     \* the family of each user's FamilyMember row
  founders,   \* history: who founded the family
  invite,     \* status of each invitation
  petition,   \* FamilyDissolutionRequest.status, named by the call that made it
  confirmer,  \* confirmedById, by call
  pc,         \* where each call is
  ctx,        \* the family it read for its caller
  found,      \* the petition a confirmation has read
  others      \* the other members a leaving caller has counted

family == <<status, member, founders>>
call   == <<pc, ctx, found, others>>
vars   == <<family, invite, petition, confirmer, call>>

Statuses == {"none", "ACTIVE", "ARCHIVED", "DISSOLVED"}
Outcomes == {"ACCEPTED", "REJECTED", "CANCELLED", "EXPIRED"}
Labels   == {"new", "ready", "deleted", "found", "done"}

Parties(i) == {Sender[i], Recipient[i]}
Pending    == {i \in Invites : invite[i] = "PENDING"}
Free(u)    == member[u] = NoFamily

Init ==
  /\ status    = [f \in Families |-> "none"]
  /\ member    = [u \in Users |-> NoFamily]
  /\ founders  = [f \in Families |-> {}]
  /\ invite    = [i \in Invites |-> "none"]
  /\ petition  = [c \in Calls |-> "none"]
  /\ confirmer = [c \in Calls |-> NoCall]
  /\ pc        = [c \in Calls |-> "new"]
  /\ ctx       = [c \in Calls |-> NoFamily]
  /\ found     = [c \in Calls |-> NoCall]
  /\ others    = [c \in Calls |-> {}]

\* The status of the invitations in S becomes s.
Settle(S, s) == [i \in Invites |-> IF i \in S THEN s ELSE invite[i]]

-----------------------------------------------------------------------------
(***************************************************************************)
(* Invitations.                                                            *)
(***************************************************************************)

\* create: neither is in a family, and the pair has no other pending invitation
\* in either direction (a partial unique index).
Create(i) ==
  /\ i \notin Private
  /\ invite[i] = "none"
  /\ \A u \in Parties(i) : Free(u)
  /\ \A j \in Pending \ Private : Parties(j) # Parties(i)
  /\ invite' = Settle({i}, "PENDING")
  /\ UNCHANGED <<family, petition, confirmer, call>>

\* createPrivate: a newer invitation to the same address replaces the pending one.
CreatePrivate(i) ==
  /\ i \in Private
  /\ invite[i] = "none"
  /\ Free(Sender[i])
  /\ invite' = [j \in Invites |->
       IF j = i THEN "PENDING"
       ELSE IF /\ j \in Pending \intersect Private
               /\ Sender[j] = Sender[i] /\ Recipient[j] = Recipient[i]
            THEN "CANCELLED" ELSE invite[j]]
  /\ UNCHANGED <<family, petition, confirmer, call>>

\* The family and both member rows are inserted together.
Found(i) ==
  /\ \A u \in Parties(i) : Free(u)
  /\ \E f \in Families :
       /\ status[f] = "none"
       /\ status'   = [status EXCEPT ![f] = "ACTIVE"]
       /\ founders' = [founders EXCEPT ![f] = Parties(i)]
       /\ member'   = [u \in Users |-> IF u \in Parties(i) THEN f ELSE member[u]]

\* Mutant: only the invitations that the partners sent compete.
Competing_Sent(i) == {j \in (Pending \ Private) \ {i} : Sender[j] \in Parties(i)}

\* Pending public invitations from or to one of the partners of i.
Competing(i) == {j \in (Pending \ Private) \ {i} : Parties(j) \intersect Parties(i) # {}}

\* The private ones are told apart by sender and by address.
CompetingPrivate(i) ==
  {j \in (Pending \intersect Private) \ {i} :
     Sender[j] \in Parties(i) \/ Recipient[j] \in Parties(i)}

\* Mutant: an invitation is accepted whatever its status.
Accept_AnyStatus(i) ==
  /\ i \in Invites \ Private
  /\ invite[i] # "none"
  /\ Found(i)
  /\ invite' = [Settle(Competing(i), "CANCELLED") EXCEPT ![i] = "ACCEPTED"]
  /\ UNCHANGED <<petition, confirmer, call>>

\* respond(ACCEPTED) cancels the public invitations that compete with it.
Accept(i) ==
  /\ i \in Pending \ Private
  /\ Found(i)
  /\ invite' = [Settle(Competing(i), "CANCELLED") EXCEPT ![i] = "ACCEPTED"]
  /\ UNCHANGED <<petition, confirmer, call>>

\* acceptPrivate cancels the public and the private ones.
AcceptPrivate(i) ==
  /\ i \in Pending \intersect Private
  /\ Found(i)
  /\ invite' = [Settle(Competing(i) \union CompetingPrivate(i), "CANCELLED")
                  EXCEPT ![i] = "ACCEPTED"]
  /\ UNCHANGED <<petition, confirmer, call>>

\* reject: respond(REJECTED).  There is no such command for the private ones.
Reject(i) ==
  /\ i \in Pending \ Private
  /\ invite' = Settle({i}, "REJECTED")
  /\ UNCHANGED <<family, petition, confirmer, call>>

\* cancel and revokePrivate: updateMany where the invitation is still pending.
Revoke(i) ==
  /\ i \in Pending
  /\ invite' = Settle({i}, "CANCELLED")
  /\ UNCHANGED <<family, petition, confirmer, call>>

\* expirePending, which every invitation command calls first.
Expire(i) ==
  /\ i \in Pending
  /\ invite' = Settle({i}, "EXPIRED")
  /\ UNCHANGED <<family, petition, confirmer, call>>

\* Leaving and archiving cancel the public invitations the caller has sent.
CancelSent(u) == Settle({i \in Pending \ Private : Sender[i] = u}, "CANCELLED")

-----------------------------------------------------------------------------
(***************************************************************************)
(* Family commands.                                                        *)
(***************************************************************************)

Goto(c, label) == pc' = [pc EXCEPT ![c] = label]
Done(c)        == Goto(c, "done") /\ UNCHANGED <<ctx, found, others>>

\* requireMembership (all members are partners), or for a restore the read of
\* an archived family.  A call that finds no such family is refused.
Start(c) ==
  LET u == Caller[c]
      f == member[u]
      wanted == IF Op[c] = "restore" THEN "ARCHIVED" ELSE "ACTIVE"
  IN
  /\ pc[c] = "new"
  /\ IF f # NoFamily /\ status[f] = wanted
     THEN /\ ctx' = [ctx EXCEPT ![c] = f]
          /\ Goto(c, "ready")
          /\ UNCHANGED <<found, others>>
     ELSE Done(c)
  /\ UNCHANGED <<family, invite, petition, confirmer>>

\* Mutant: the caller, whose row is deleted in the transaction, is counted too.
Remaining_WithCaller(c) == {v \in Users : member[v] = ctx[c]}

\* The members that leave() counts after it has deleted the caller's row.
Remaining(c) == {v \in Users \ {Caller[c]} : member[v] = ctx[c]}

\* leave: the delete names the user, not the family that was read; the count
\* of remaining members does not see the uncommitted deletes of other calls.
LeaveDelete(c) ==
  LET u == Caller[c] IN
  /\ Op[c] = "leave"
  /\ pc[c] = "ready"
  /\ \A d \in Calls \ {c} : ~(Caller[d] = u /\ pc[d] = "deleted")
  /\ IF Free(u)
     THEN Done(c)
     ELSE /\ others' = [others EXCEPT ![c] = Remaining(c)]
          /\ Goto(c, "deleted")
          /\ UNCHANGED <<ctx, found>>
  /\ UNCHANGED <<family, invite, petition, confirmer>>

\* The check constraint families_lifecycle_timestamps_check does not let a
\* dissolved family become archived: the whole transaction rolls back.
MayArchive(f) == status[f] # "DISSOLVED"

LeaveCommit(c) ==
  LET u == Caller[c]  alone == others[c] = {} IN
  /\ pc[c] = "deleted"
  /\ IF alone /\ ~MayArchive(ctx[c])
     THEN UNCHANGED <<family, invite>>
     ELSE /\ member' = [member EXCEPT ![u] = NoFamily]
          /\ status' = IF alone THEN [status EXCEPT ![ctx[c]] = "ARCHIVED"] ELSE status
          /\ invite' = CancelSent(u)
          /\ UNCHANGED founders
  /\ Done(c)
  /\ UNCHANGED <<petition, confirmer>>

\* archive: updateMany where the family is still active.
Archive(c) ==
  /\ Op[c] = "archive"
  /\ pc[c] = "ready"
  /\ IF status[ctx[c]] = "ACTIVE"
     THEN /\ status' = [status EXCEPT ![ctx[c]] = "ARCHIVED"]
          /\ invite' = CancelSent(Caller[c])
     ELSE UNCHANGED <<status, invite>>
  /\ Done(c)
  /\ UNCHANGED <<member, founders, petition, confirmer>>

\* restore: updateMany where the family is still archived.
Restore(c) ==
  /\ Op[c] = "restore"
  /\ pc[c] = "ready"
  /\ status' = IF status[ctx[c]] = "ARCHIVED" THEN [status EXCEPT ![ctx[c]] = "ACTIVE"]
                                              ELSE status
  /\ Done(c)
  /\ UNCHANGED <<member, founders, invite, petition, confirmer>>

RequestDissolution(c) ==
  /\ Op[c] = "request"
  /\ pc[c] = "ready"
  /\ petition' = [petition EXCEPT ![c] = "PENDING"]
  /\ Done(c)
  /\ UNCHANGED <<family, invite, confirmer>>

\* Mutant: the family is left out of the search.
Petitions_AnyFamily(c) == {d \in Calls : petition[d] = "PENDING"}

\* The pending petitions of the family that call c acts on.
Petitions(c) == {d \in Calls : petition[d] = "PENDING" /\ ctx[d] = ctx[c]}

\* confirmDissolution takes any pending petition and refuses the caller's own.
ConfirmFind(c) ==
  /\ Op[c] = "confirm"
  /\ pc[c] = "ready"
  /\ \/ /\ \E d \in Petitions(c) : /\ Caller[d] # Caller[c]
                                   /\ found' = [found EXCEPT ![c] = d]
        /\ Goto(c, "found")
        /\ UNCHANGED <<ctx, others>>
     \/ /\ Petitions(c) = {} \/ \E d \in Petitions(c) : Caller[d] = Caller[c]
        /\ Done(c)
  /\ UNCHANGED <<family, invite, petition, confirmer>>

\* Petition and family are updated by id, whatever has become of them.
ConfirmCommit(c) ==
  /\ pc[c] = "found"
  /\ petition'  = [petition EXCEPT ![found[c]] = "CONFIRMED"]
  /\ confirmer' = [confirmer EXCEPT ![found[c]] = c]
  /\ status'    = [status EXCEPT ![ctx[c]] = "DISSOLVED"]
  /\ Done(c)
  /\ UNCHANGED <<member, founders, invite>>

CancelDissolution(c) ==
  /\ Op[c] = "cancel"
  /\ pc[c] = "ready"
  /\ petition' = [d \in Calls |-> IF d \in Petitions(c) THEN "CANCELLED" ELSE petition[d]]
  /\ Done(c)
  /\ UNCHANGED <<family, invite, confirmer>>

\* The transaction of a call fails and is rolled back.
Abort(c) ==
  /\ pc[c] \notin {"new", "done"}
  /\ Done(c)
  /\ UNCHANGED <<family, invite, petition, confirmer>>

Next ==
  \/ \E i \in Invites : \/ Create(i) \/ CreatePrivate(i) \/ Accept(i) \/ AcceptPrivate(i)
                        \/ Reject(i) \/ Revoke(i) \/ Expire(i)
  \/ \E c \in Calls : \/ Start(c) \/ LeaveDelete(c) \/ LeaveCommit(c)
                      \/ Archive(c) \/ Restore(c) \/ RequestDissolution(c)
                      \/ ConfirmFind(c) \/ ConfirmCommit(c) \/ CancelDissolution(c)
                      \/ Abort(c)

Spec == Init /\ [][Next]_vars

-----------------------------------------------------------------------------
(***************************************************************************)
(* Properties.                                                             *)
(***************************************************************************)

\* The shape of the rows and of the calls' local state; a call that is under way
\* acts on a family.
TypeOK ==
  /\ status    \in [Families -> Statuses]
  /\ member    \in [Users -> Families \union {NoFamily}]
  /\ founders  \in [Families -> SUBSET Users]
  /\ invite    \in [Invites -> {"none", "PENDING"} \union Outcomes]
  /\ petition  \in [Calls -> {"none", "PENDING", "CONFIRMED", "CANCELLED"}]
  /\ confirmer \in [Calls -> Calls \union {NoCall}]
  /\ pc        \in [Calls -> Labels]
  /\ ctx       \in [Calls -> Families \union {NoFamily}]
  /\ found     \in [Calls -> Calls \union {NoCall}]
  /\ others    \in [Calls -> SUBSET Users]
  /\ \A c \in Calls : pc[c] \in {"ready", "deleted", "found"} => ctx[c] \in Families

\* Someone who is in a family neither has nor gets a pending public invitation:
\* what create checks and what an accept cancels leave no gap between them.
MembersAreNotInvited ==
  /\ TypeOK
  /\ \A u \in Users, i \in Pending \ Private : u \in Parties(i) => Free(u)

\* Every family was founded by an accepted invitation between its founders, and
\* an invitation founds at most one family, whoever left and came back meanwhile.
FoundedByInvitation ==
  LET Accepted == {i \in Invites : invite[i] = "ACCEPTED"}
      Founded  == {f \in Families : status[f] # "none"}
  IN
  /\ \A f \in Founded : \E i \in Accepted : Parties(i) = founders[f]
  /\ Cardinality(Accepted) = Cardinality(Founded)

\* Nobody dissolves a family alone: behind DISSOLVED there are a request and a
\* confirmation by two different founders of that family
\* (docs/IMPLEMENTATION_STATUS.md:756, a mandatory second partner).
DissolutionNeedsBoth ==
  \A f \in Families : status[f] = "DISSOLVED" =>
    \E d \in Calls : /\ petition[d] = "CONFIRMED" /\ ctx[d] = f
                     /\ confirmer[d] # NoCall
                     /\ founders[f] = {Caller[d], Caller[confirmer[d]]}

\* What has ended stays ended: a dissolved family (docs/IMPLEMENTATION_STATUS.md:394),
\* even under the calls that read it while it was active, and an invitation, which
\* no cancellation that comes with a leave, an archive or a competing accept
\* rewrites.
EndsAreFinal ==
  [][/\ \A f \in Families : status[f] = "DISSOLVED" => status'[f] = "DISSOLVED"
     /\ \A i \in Invites : invite[i] \in Outcomes => invite'[i] = invite[i]]_vars

\* docs/IMPLEMENTATION_STATUS.md:384: leaving takes the member out and, when no
\* members are left, archives the family.  An active family without members
\* comes about only if its partners left at the same time and each counted the
\* other, if a restore read it before the last one left, or if a late leave took
\* its caller out of another family than the one it had read.
EmptyAccounted ==
  \A f \in Families : status[f] = "ACTIVE" /\ (\A u \in Users : member[u] # f) =>
    LET Ended(op) == {c \in Calls : Op[c] = op /\ pc[c] = "done"} IN
    \/ \E c, d \in Ended("leave") : /\ c # d /\ ctx[c] = f /\ ctx[d] = f
                                    /\ Caller[d] \in others[c] /\ Caller[c] \in others[d]
    \/ \E c \in Ended("restore") : ctx[c] = f
    \/ \E c \in Ended("leave") : ctx[c] # f /\ Caller[c] \in founders[f]
=============================================================================
