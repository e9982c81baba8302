------------------------------- MODULE Account -------------------------------
(***************************************************************************)
(* The life of one account (modules/auth, modules/users): sessions, the    *)
(* password and the email, the tokens that are sent by email, deletion     *)
(* with its grace period, recovery and erasure, and the avatar.            *)
(*                                                                         *)
(* Passwords are hashed and verified between a read and the transaction    *)
(* that writes, and a call uses the time it took at its beginning.  What a *)
(* transaction does is one step.                                           *)
(***************************************************************************)
EXTENDS Naturals, FiniteSets

CONSTANTS
  Requests,     \* clients: each sends one call at a time
  Sessions, Tokens,     \* rows
  Pictures,     \* objects of avatars
  NoPicture,
  Horizon,      \* bound: the clock stops there
  Grace,        \* ACCOUNT_DELETION_GRACE_PERIOD
  Lifetime,     \* PASSWORD_RESET_EXPIRES_IN and EMAIL_CHANGE_EXPIRES_IN
  SessionTime,  \* JWT_ACCESS_EXPIRES_IN
  MaxCalls      \* bound: calls

ASSUME AccountAssumption ==
  /\ NoPicture \notin Pictures
  /\ {Horizon, MaxCalls} \subseteq Nat
  /\ {Grace, Lifetime, SessionTime} \subseteq Nat \ {0}

Moments == 0 .. Horizon + Grace + Lifetime + SessionTime

\* A session and the credentials that were verified for it; 0 for no session.
SessionRows == [under : Nat, until : Moments]
TokenRows   == [kind : {"none", "password", "email", "recovery"}, used : BOOLEAN, until : Moments]

VARIABLES
  now,
  secret,    \* how often email or password have changed: the current credentials
  active, due,       \* isActive, deletionScheduledAt (0 for none)
  erased,    \* retentionAnonymizedAt is set
  purged,    \* what belongs to the account in other tables has been deleted
  session, token,
  avatar, stored,    \* the object the row names, and the objects there are
  busy, calls,
  expiring,  \* what anonymizeExpiredAccounts has found: nothing or the avatar
  erasing,   \* objects of an erased account that it is about to delete
  overlap,   \* history: sessions that a call made or kept by credentials which had changed,
             \* or of an account which had been deactivated
  late,      \* history: what was written by a call too slow for its checks
  replaced,  \* history: pictures that a write has taken out of the row, which had read another
  lost,      \* history: pictures that a call which died or failed to clean up has left
             \* without a row, or a row without them
  forgotten  \* history: pictures of an erased account that the worker did not get to

user    == <<secret, active, due, erased, purged>>
keys    == <<session, token>>
picture == <<avatar, stored>>
worker  == <<expiring, erasing>>
losses  == <<replaced, lost, forgotten>>
history == <<overlap, late, losses>>
avars   == <<now, user, keys, picture, busy, calls, worker, history>>

Idle      == [op |-> "idle"]
NoRow     == [under |-> 0, until |-> 0]
NoToken   == [kind |-> "none", used |-> FALSE, until |-> 0]
Nothing   == {}

AInit ==
  /\ now     = 0
  /\ secret  = 1
  /\ active  = TRUE
  /\ due     = 0
  /\ erased  = FALSE
  /\ purged  = FALSE
  /\ session = [s \in Sessions |-> NoRow]
  /\ token   = [t \in Tokens |-> NoToken]
  /\ avatar  = NoPicture
  /\ stored  = {}
  /\ busy    = [q \in Requests |-> Idle]
  /\ calls   = 0
  /\ expiring  = Nothing
  /\ erasing   = {}
  /\ overlap   = {}
  /\ late      = {}
  /\ replaced  = {}
  /\ lost      = {}
  /\ forgotten = {}

Advance ==
  /\ now < Horizon
  /\ now' = now + 1
  /\ UNCHANGED <<user, keys, picture, busy, calls, worker, history>>

\* JwtStrategy.validate
Usable(s) == session[s].until > now /\ active

Begin(q, c) ==
  /\ busy[q] = Idle
  /\ calls < MaxCalls
  /\ calls' = calls + 1
  /\ busy'  = [busy EXCEPT ![q] = c]
  /\ UNCHANGED <<now, user, keys, picture, worker, history>>

Continue(q, c) == busy' = [busy EXCEPT ![q] = c] /\ UNCHANGED <<now, calls>>
End(q)         == Continue(q, Idle)

(***************************************************************************)
(* Sessions and credentials.                                               *)
(***************************************************************************)

\* login has verified the password.
ReadForLogin(q) == active /\ Begin(q, [op |-> "login", secret |-> secret])

\* A new row is not one that a call has in mind.
Named(field) == {busy[q][field] : q \in {x \in Requests : field \in DOMAIN busy[x]}}

\* issueAccessToken
Login(q) ==
  /\ busy[q].op = "login"
  /\ \E s \in Sessions :
       /\ session[s] = NoRow /\ s \notin Named("by")
       /\ session' = [session EXCEPT ![s] = [under |-> busy[q].secret, until |-> now + SessionTime]]
       /\ overlap' = IF busy[q].secret = secret /\ active THEN overlap \ {s}
                     ELSE overlap \union {s}
  /\ End(q)
  /\ UNCHANGED <<user, token, picture, worker, late, losses>>

\* logout and revokeSession delete one session, revokeOtherSessions all others.
Without(gone) == [s \in Sessions |-> IF s \in gone THEN NoRow ELSE session[s]]

Logout(s) ==
  /\ Usable(s)
  /\ \/ \E t \in Sessions : session[t] # NoRow /\ session' = Without({t})
     \/ session' = Without(Sessions \ {s})
  /\ UNCHANGED <<now, user, token, picture, busy, calls, worker, history>>

\* changePassword, requestEmailChange and requestAccountDeletion verify the
\* password in a request that comes with session s.
ReadForChange(q, s) ==
  /\ Usable(s)
  /\ \E op \in {"change", "email", "delete"} :
       Begin(q, [op |-> op, by |-> s, secret |-> secret, at |-> now])

\* Mutant: no session is revoked.
Revoked_None(s) == {}

\* The session that asks for the change is kept.
Revoked(s) == Sessions \ {s}

ChangePassword(q) ==
  LET c == busy[q] IN
  /\ c.op = "change"
  /\ secret'  = secret + 1
  /\ session' = [Without(Revoked(c.by)) EXCEPT
                   ![c.by] = IF @ = NoRow THEN @ ELSE [@ EXCEPT !.under = secret + 1]]
  /\ overlap' = IF c.secret = secret /\ active THEN overlap ELSE overlap \union {c.by}
  /\ End(q)
  /\ UNCHANGED <<active, due, erased, purged, token, picture, worker, late, losses>>

\* Rows of a kind that are still unused make room for a new one.
Unused(kinds) == {t \in Tokens : token[t].kind \in kinds /\ ~token[t].used}
Vacant == {t \in Tokens : token[t].kind = "none" /\ t \notin Named("is")}
Issued(kinds, kind, until) ==
  {[t \in Tokens |-> IF t = n THEN [kind |-> kind, used |-> FALSE, until |-> until]
                     ELSE IF t \in Unused(kinds) THEN NoToken ELSE token[t]] :
     n \in Vacant}

\* requestPasswordReset has found the user; no session is needed.
ReadForReset(q) == active /\ Begin(q, [op |-> "password", secret |-> secret, at |-> now])

SendToken(q) ==
  LET c == busy[q] IN
  /\ c.op \in {"password", "email"}
  /\ token' \in Issued({c.op}, c.op, now + Lifetime)
  /\ End(q)
  /\ UNCHANGED <<user, session, picture, worker, history>>

Valid(t, kind, at) == token[t].kind = kind /\ ~token[t].used /\ token[t].until > at

\* resetPassword and confirmEmailChange have found their token and an active user.
ReadToken(q, t) ==
  /\ active
  /\ \E kind \in {"password", "email"} :
       /\ Valid(t, kind, now)
       /\ Begin(q, [op |-> "apply", is |-> t, kind |-> kind, at |-> now])

ApplyToken(q) ==
  LET c == busy[q] IN
  /\ c.op = "apply"
  /\ IF Valid(c.is, c.kind, c.at)
     THEN /\ token'   = [token EXCEPT ![c.is].used = TRUE]
          /\ secret'  = secret + 1
          /\ session' = Without(Sessions)
     ELSE UNCHANGED <<keys, secret>>
  /\ End(q)
  /\ UNCHANGED <<active, due, erased, purged, picture, worker, history>>

(***************************************************************************)
(* Deletion.                                                               *)
(***************************************************************************)

RequestDeletion(q) ==
  LET c == busy[q] IN
  /\ c.op = "delete"
  /\ IF active
     THEN /\ active'  = FALSE
          /\ due'     = c.at + Grace
          /\ session' = Without(Sessions)
          /\ token' \in Issued({"password", "email", "recovery"}, "recovery", c.at + Grace)
     ELSE UNCHANGED <<active, due, keys>>
  /\ End(q)
  /\ UNCHANGED <<secret, erased, purged, picture, worker, history>>

\* cancelAccountDeletion has taken the time, and then found the token and the user.
ReadForRecovery(q, t) ==
  /\ Valid(t, "recovery", now) /\ ~active /\ due > now
  /\ Begin(q, [op |-> "recover", is |-> t, at |-> now])

CancelDeletion(q) ==
  LET c == busy[q] IN
  /\ c.op = "recover"
  /\ IF Valid(c.is, "recovery", c.at) /\ ~active /\ due > c.at
     THEN /\ active' = TRUE
          /\ due'    = 0
          /\ token'  = [t \in Tokens |-> IF t = c.is THEN [token[t] EXCEPT !.used = TRUE]
                                         ELSE IF t \in Unused({"recovery"}) THEN NoToken
                                         ELSE token[t]]
          /\ late'   = IF due <= now THEN late \union {"recovery"} ELSE late
     ELSE UNCHANGED <<active, due, token, late>>
  /\ End(q)
  /\ UNCHANGED <<secret, erased, purged, session, picture, worker, overlap, losses>>

\* cleanupExpiredSecurityArtifacts
Cleanup ==
  /\ session' = [s \in Sessions |-> IF session[s].until <= now THEN NoRow ELSE session[s]]
  /\ token'   = [t \in Tokens |-> IF token[t].until <= now THEN NoToken ELSE token[t]]
  /\ UNCHANGED <<now, user, picture, busy, calls, worker, history>>

\* Mutant: every deletion that was confirmed counts as expired.
Expired_Requested == ~active /\ ~erased

\* anonymizeExpiredAccounts: the search with its time ...
Expired == ~active /\ ~erased /\ due <= now

FindExpired ==
  /\ worker = <<Nothing, {}>>
  /\ Expired
  /\ expiring' = {avatar}
  /\ UNCHANGED <<now, user, keys, picture, busy, calls, erasing, history>>

\* ... and the transaction: what it deletes stays deleted when the user is not
\* erased after all.
Anonymize ==
  /\ expiring # Nothing
  /\ purged' = TRUE
  /\ IF ~active /\ ~erased
     THEN /\ erased'   = TRUE
          /\ avatar'   = NoPicture
          /\ erasing'  = expiring \ {NoPicture}
          /\ replaced' = replaced \union ({avatar} \ (expiring \union {NoPicture}))
     ELSE UNCHANGED <<erased, avatar, erasing, replaced>>
  /\ expiring' = Nothing
  /\ UNCHANGED <<now, secret, active, due, keys, stored, busy, calls, overlap, late, lost, forgotten>>

\* The objects the search has found go after the commit, by a cleanup task if need be.
DropErased ==
  /\ erasing # {}
  /\ stored'  = stored \ erasing
  /\ erasing' = {}
  /\ UNCHANGED <<now, user, keys, avatar, busy, calls, expiring, history>>

\* The process stops, the transaction fails, or neither the deletion nor its task
\* succeeds.  The next search passes over a row that is erased.
WorkerStops ==
  /\ worker # <<Nothing, {}>>
  /\ expiring'  = Nothing
  /\ erasing'   = {}
  /\ forgotten' = forgotten \union erasing
  /\ UNCHANGED <<now, user, keys, picture, busy, calls, overlap, late, replaced, lost>>

(***************************************************************************)
(* The avatar.                                                             *)
(***************************************************************************)

\* Nobody will delete these, whether they are in storage or not.
LeftOver == replaced \union lost \union forgotten

\* Object keys are random and never used again.
Fresh == Pictures \ (stored \union expiring \union erasing \union LeftOver
                     \union Named("old") \union Named("new"))

\* uploadAvatar and removeAvatar have read the previous avatar.
ReadForAvatar(q, s) ==
  /\ Usable(s)
  /\ \/ \E p \in Fresh : Begin(q, [op |-> "upload", old |-> avatar, new |-> p])
     \/ Begin(q, [op |-> "write", old |-> avatar, new |-> NoPicture])

\* The objects are put to storage, or what is there of them is deleted again.
Upload(q) ==
  LET c == busy[q] IN
  /\ c.op = "upload"
  /\ \/ stored' = stored \union {c.new} /\ Continue(q, [c EXCEPT !.op = "write"])
     \/ UNCHANGED stored /\ End(q)
  /\ UNCHANGED <<user, keys, avatar, worker, history>>

\* The row is written by id, whatever it names now and whatever became of the user.
WriteAvatar(q) ==
  LET c == busy[q] IN
  /\ c.op = "write"
  /\ avatar' = c.new
  /\ replaced' = replaced \union ({avatar} \ {c.old, NoPicture})
  /\ late'   = IF active THEN late ELSE late \union {"avatar"}
  /\ Continue(q, [c EXCEPT !.op = "drop"])
  /\ UNCHANGED <<user, keys, stored, worker, overlap, lost, forgotten>>

\* The update throws: uploadAvatar deletes the new objects.
WriteFails(q) ==
  LET c == busy[q] IN
  /\ c.op = "write"
  /\ stored' = stored \ {c.new}
  /\ End(q)
  /\ UNCHANGED <<user, keys, avatar, worker, history>>

\* Mutant: the replaced objects are forgotten.
Superseded_None(c) == {}

\* The previous objects are deleted, by a cleanup task if need be.  When that
\* fails as well, uploadAvatar deletes the new ones, though the row names them;
\* which may fail again.
Superseded(c) == {c.old}

DropOld(q) ==
  LET c == busy[q] IN
  /\ c.op = "drop"
  /\ \/ stored' = stored \ Superseded(c) /\ UNCHANGED lost
     \/ /\ stored' \in {stored \ {c.new}, stored}
        /\ lost' = lost \union ({c.old, c.new} \ {NoPicture})
  /\ End(q)
  /\ UNCHANGED <<user, keys, avatar, worker, overlap, late, replaced, forgotten>>

\* What the call has put in storage or taken from the row, and not dealt with.
Leaves(c) == {p \in Pictures : (c.op = "write" /\ c.new = p) \/ (c.op = "drop" /\ c.old = p)}

\* The process stops.
Crash(q) ==
  /\ busy[q] # Idle
  /\ lost' = lost \union Leaves(busy[q])
  /\ End(q)
  /\ UNCHANGED <<user, keys, picture, worker, overlap, late, replaced, forgotten>>

-----------------------------------------------------------------------------
ANext ==
  \/ Advance \/ Cleanup \/ FindExpired \/ Anonymize \/ DropErased \/ WorkerStops
  \/ \E s \in Sessions : Logout(s)
  \/ \E q \in Requests :
       \/ ReadForLogin(q) \/ Login(q)
       \/ \E s \in Sessions : ReadForChange(q, s) \/ ReadForAvatar(q, s)
       \/ \E t \in Tokens : ReadToken(q, t) \/ ReadForRecovery(q, t)
       \/ ReadForReset(q) \/ ChangePassword(q) \/ SendToken(q) \/ ApplyToken(q)
       \/ RequestDeletion(q) \/ CancelDeletion(q)
       \/ Upload(q) \/ WriteAvatar(q) \/ WriteFails(q) \/ DropOld(q) \/ Crash(q)

ASpec == AInit /\ [][ANext]_avars

(***************************************************************************)
(* Properties.                                                             *)
(***************************************************************************)

ATypeOK ==
  /\ now \in 0 .. Horizon
  /\ secret \in Nat \ {0}
  /\ {active, erased, purged} \subseteq BOOLEAN
  /\ due \in Moments
  /\ session \in [Sessions -> SessionRows]
  /\ token \in [Tokens -> TokenRows]
  /\ avatar \in Pictures \union {NoPicture}
  /\ stored \subseteq Pictures
  /\ erasing \subseteq Pictures
  /\ LeftOver \subseteq Pictures
  /\ calls \in 0 .. MaxCalls

\* Every session belongs to an active account and was opened with, or has chosen,
\* the password and email there are now: a change, a reset and a deletion end all
\* others.  Only a call that verified the old ones and finished later escapes.
SessionsOfPassword ==
  \A s \in Sessions : session[s] # NoRow => s \in overlap \/ (active /\ session[s].under = secret)

\* docs/IMPLEMENTATION_STATUS.md:372-373, 481-486: a deleted account can be recovered during
\* the grace period with the link that was sent, and afterwards is erased, with
\* its avatar, and stays so: unless a recovery that began in time ended after it,
\* or an upload that began before the deletion.
DeletionHolds ==
  /\ ATypeOK
  /\ ~active /\ ~erased /\ due > now => \E t \in Tokens : Valid(t, "recovery", now)
  /\ erased => (~active /\ due <= now) \/ "recovery" \in late
  /\ purged => erased \/ "recovery" \in late
  /\ erased => avatar = NoPicture \/ late # {}

\* Pictures that a call will delete, or will name in the row.
InHand == {p \in Pictures : \E q \in Requests : p \in Leaves(busy[q])}

\* The row names an object that is there, and every other object is about to be
\* deleted, however uploads, removals and erasure interleave and wherever they
\* fail.  Three things leave an object to nobody, and each is named: a write by id
\* over a picture it has not read, a call that dies or cannot clean up, and a
\* worker that dies after the commit of the erasure.
AvatarStands ==
  /\ avatar \in stored \union lost \union {NoPicture}
  /\ stored \subseteq {avatar} \union InHand \union erasing \union LeftOver
=============================================================================
