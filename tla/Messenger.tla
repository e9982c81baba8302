------------------------------ MODULE Messenger ------------------------------
(***************************************************************************)
(* The family messenger (modules/messenger/messenger.service.ts):          *)
(* conversations and the roles of their members, messages with their media *)
(* and push events, and the read cursors.                                  *)
(*                                                                         *)
(* Every call first reads what requireConversation returns, decides by it, *)
(* and writes later by key.  A message takes its createdAt when it is      *)
(* inserted and is seen when its transaction commits, so messages appear   *)
(* in another order than they are numbered in.                             *)
(***************************************************************************)
EXTENDS Naturals, FiniteSets

CONSTANTS
  People,
  Requests,     \* clients: each sends one call at a time
  Convs,        \* rows of conversations
  Keys,         \* clientMessageId values
  Media,
  Reserved,     \* media uploaded for another domain (scope RECIPE, LEDGER...)
  MaxStamp,     \* bound: messages that are inserted
  MaxCalls      \* bound: calls, and changes of the family

ASSUME MessengerAssumption ==
  /\ Cardinality(People) >= 2
  /\ Reserved \subseteq Media
  /\ MaxStamp \in Nat
  /\ MaxCalls \in Nat

Roles  == {"none", "MEMBER", "ADMIN", "OWNER"}
Stamps == 1 .. MaxStamp
Texts  == 0 .. 2             \* 0: no text
Scopes == {"ALBUM", "CHAT", "OTHER", "gone"}

ConvRows == [kind : {"none", "DIRECT", "GROUP"}, key : SUBSET People,
             role : [People -> Roles], read : [People -> 0 .. MaxStamp]]
Messages == [at : Stamps, conv : Convs, by : People, key : Keys, text : Texts,
             gone : BOOLEAN, media : SUBSET Media, push : SUBSET People]

VARIABLES
  family,    \* the partners of the family; they come and go in Family
  conv,      \* conversations and their conversation_members
  message,   \* committed messages; at is their createdAt
  clock,     \* the last createdAt given out
  scope,     \* scope of each medium
  removing,  \* media that MediaService.remove has found and will delete
  call,      \* what each client has under way: the operation and what it has read
  calls,     \* how many there were
  told,      \* history: who was answered with which direct conversation for whom
  replied,   \* history: who was answered with which message for which client id
  left,      \* history: who has left which conversation
  raced,     \* history: groups where a call decided by roles that had changed
  late,      \* history: messages that appeared after a younger one, and those edited by
             \* a call that had not seen their deletion
  shown      \* history: messages each partner was shown before he marked one as read

rows    == <<family, conv, message, clock, scope, removing>>
history == <<told, replied, left, raced, late, shown>>
vars    == <<rows, call, calls, history>>

Idle == [op |-> "idle"]

Init ==
  /\ family   \in {f \in SUBSET People : Cardinality(f) = 2}
  /\ conv     = [c \in Convs |-> [kind |-> "none", key |-> {}, role |-> [p \in People |-> "none"],
                                  read |-> [p \in People |-> 0]]]
  /\ message  = {}
  /\ clock    = 0
  /\ scope    = [m \in Media |-> IF m \in Reserved THEN "OTHER" ELSE "ALBUM"]
  /\ removing = {}
  /\ call     = [q \in Requests |-> Idle]
  /\ calls    = 0
  /\ told     = {}
  /\ replied  = {}
  /\ left     = {}
  /\ raced    = {}
  /\ late     = {}
  /\ shown    = [p \in People |-> {}]

Members(c) == {p \in People : conv[c].role[p] # "none"}

\* requireConversation: a member of the conversation who is in its family.
MayUse(p, c) == p \in family /\ p \in Members(c)

Count       == calls < MaxCalls /\ calls' = calls + 1
Begin(q, c) == call[q] = Idle /\ Count /\ call' = [call EXCEPT ![q] = c]
End(q)      == call' = [call EXCEPT ![q] = Idle] /\ UNCHANGED calls

\* Somebody leaves the family, and later somebody else joins.  The rows of
\* conversation_members stay.
Move(p) ==
  /\ \/ p \in family /\ Cardinality(family) = 2 /\ family' = family \ {p}
     \/ p \notin family /\ Cardinality(family) < 2 /\ family' = family \union {p}
  /\ Count
  /\ UNCHANGED <<conv, message, clock, scope, removing, call, history>>

(***************************************************************************)
(* Conversations.                                                          *)
(***************************************************************************)

WithKey(k) == {c \in Convs : conv[c].kind = "DIRECT" /\ conv[c].key = k}

Tell(p, k, c) == told' = told \union {[who |-> p, of |-> k, is |-> c]}

\* createConversation up to the insert: an existing direct one is the answer.
ReadForCreate(q, p, o) ==
  /\ {p, o} \subseteq family /\ p # o
  /\ \E kind \in {"DIRECT", "GROUP"} :
       IF kind = "DIRECT" /\ WithKey({p, o}) # {}
       THEN /\ \E c \in WithKey({p, o}) : Tell(p, {p, o}, c)
            /\ call[q] = Idle /\ UNCHANGED <<call, calls>>
       ELSE Begin(q, [op |-> "create", by |-> p, to |-> o, kind |-> kind]) /\ UNCHANGED told
  /\ UNCHANGED <<rows, replied, left, raced, late, shown>>

\* Mutant: there is no such index.
Taken_Never(k, kind) == FALSE

\* The unique index on (family_id, direct_key), which is NULL for a group.
Taken(k, kind) == kind = "DIRECT" /\ WithKey(k) # {}

Create(q) ==
  LET c == call[q]  k == {c.by, c.to} IN
  /\ c.op = "create"
  /\ IF Taken(k, c.kind)
     THEN \E d \in WithKey(k) : Tell(c.by, k, d) /\ UNCHANGED conv
     ELSE \E d \in Convs :
            /\ conv[d].kind = "none"
            /\ conv' = [conv EXCEPT ![d].kind = c.kind,
                                    ![d].key = IF c.kind = "DIRECT" THEN k ELSE {},
                                    ![d].role[c.by] = "OWNER", ![d].role[c.to] = "MEMBER"]
            /\ IF c.kind = "DIRECT" THEN Tell(c.by, k, d) ELSE UNCHANGED told
  /\ End(q)
  /\ UNCHANGED <<family, message, clock, scope, removing, replied, left, raced, late, shown>>

\* What addMember, removeMember, leaveConversation and transferOwnership check.
MayChange(p, op, t, c) ==
  LET mine == conv[c].role[p]  his == conv[c].role[t] IN
  CASE op = "add"      -> conv[c].kind = "GROUP" /\ mine # "MEMBER" /\ t \in family
    [] op = "remove"   -> /\ conv[c].kind = "GROUP" /\ mine # "MEMBER"
                          /\ his \notin {"none", "OWNER"}
                          /\ mine # "OWNER" => his # "ADMIN"
    [] op = "leave"    -> t = p /\ mine # "OWNER"       \* of a direct one, too
    [] op = "transfer" -> /\ conv[c].kind = "GROUP" /\ mine = "OWNER"
                          /\ his # "none" /\ t # p

ReadForChange(q, p, t, c) ==
  /\ MayUse(p, c)
  /\ \E op \in {"add", "remove", "leave", "transfer"} :
       /\ MayChange(p, op, t, c)
       /\ Begin(q, [op |-> op, by |-> p, to |-> t, conv |-> c,
                    mine |-> conv[c].role[p], his |-> conv[c].role[t]])
  /\ UNCHANGED <<rows, history>>

\* Mutant: the previous owner is not demoted.
Changed_NotDemoted(role, c) ==
  IF c.op = "transfer" /\ role[c.to] # "none" THEN [role EXCEPT ![c.to] = "OWNER"]
  ELSE IF c.op \in {"remove", "leave"} THEN [role EXCEPT ![c.to] = "none"]
  ELSE IF role[c.to] = "none" THEN [role EXCEPT ![c.to] = "MEMBER"] ELSE role

\* The roles after the write.  delete and the transaction of transferOwnership
\* fail as a whole when a row is missing.
Changed(role, c) ==
  CASE c.op = "add" /\ role[c.to] = "none"       -> [role EXCEPT ![c.to] = "MEMBER"]
    [] c.op \in {"remove", "leave"}              -> [role EXCEPT ![c.to] = "none"]
    [] c.op = "transfer" /\ role[c.by] # "none"
                         /\ role[c.to] # "none"  -> [role EXCEPT ![c.by] = "ADMIN", ![c.to] = "OWNER"]
    [] OTHER                                     -> role

Change(q) ==
  LET c == call[q]  old == conv[c.conv].role  new == Changed(old, c) IN
  /\ c.op \in {"add", "remove", "leave", "transfer"}
  /\ conv' = [conv EXCEPT ![c.conv].role = new,
                          ![c.conv].read = [p \in People |-> IF new[p] = "none" THEN 0 ELSE @[p]]]
  /\ raced' = IF new # old /\ <<old[c.by], old[c.to]>> # <<c.mine, c.his>>
              THEN raced \union {c.conv} ELSE raced
  /\ left' = IF c.op = "leave" THEN left \union {<<c.by, c.conv>>} ELSE left
  /\ End(q)
  /\ UNCHANGED <<family, message, clock, scope, removing, told, replied, late, shown>>

(***************************************************************************)
(* Messages.                                                               *)
(***************************************************************************)

\* Mutant: the client id is looked up whoever sent it.
SentWith_AnySender(p, k) == {m \in message : m.key = k}

\* The message of p with this client id; createMessage looks in no conversation.
SentWith(p, k) == {m \in message : m.by = p /\ m.key = k}

Reply(p, k, m) == replied' = replied \union {<<p, k, m.at>>}

Sendable(m) == scope[m] \in {"ALBUM", "CHAT"}

\* createMessage up to its transaction: a retry is answered with the message that
\* there is, media have to be free, and the members are the recipients.
ReadForSend(q, p, c, k) ==
  /\ MayUse(p, c)
  /\ IF SentWith(p, k) # {}
     THEN /\ \E m \in SentWith(p, k) : Reply(p, k, m)
          /\ call[q] = Idle /\ UNCHANGED <<call, calls>>
     ELSE /\ \E ms \in SUBSET {m \in Media : Sendable(m)} :
               Begin(q, [op |-> "send", by |-> p, conv |-> c, key |-> k, media |-> ms,
                         to |-> Members(c) \ {p}])
          /\ UNCHANGED replied
  /\ UNCHANGED <<rows, told, left, raced, late, shown>>

\* An uncommitted insert with the same client id holds its index entry.
Inserting(p, k) == \E q \in Requests : call[q].op = "insert" /\ call[q].by = p /\ call[q].key = k

\* The insert into messages and message_media: the unique index on (sender_id,
\* client_message_id) and the foreign keys may refuse it.
Insert(q) ==
  LET c == call[q] IN
  /\ c.op = "send"
  /\ ~Inserting(c.by, c.key)
  /\ IF SentWith(c.by, c.key) # {} \/ \E m \in c.media : scope[m] = "gone"
     THEN End(q) /\ UNCHANGED clock
     ELSE /\ clock < MaxStamp
          /\ clock' = clock + 1
          /\ UNCHANGED calls
          /\ call' = [call EXCEPT ![q] = [op |-> "insert", by |-> c.by, conv |-> c.conv,
                       key |-> c.key, media |-> c.media, to |-> c.to, at |-> clock + 1]]
  /\ UNCHANGED <<family, conv, message, scope, removing, history>>

\* The rest of the transaction: the media become the chat's, or it is rolled
\* back; the push event is written with the message.
Claimed(m, ms) == IF m \in ms THEN "CHAT" ELSE scope[m]

Commit(q) ==
  LET c == call[q] IN
  /\ c.op = "insert"
  /\ IF \A m \in c.media : Sendable(m)
     THEN /\ message' = message \union
               {[at |-> c.at, conv |-> c.conv, by |-> c.by, key |-> c.key,
                 text |-> IF c.media = {} THEN 1 ELSE 0, gone |-> FALSE,
                 media |-> c.media, push |-> c.to]}
          /\ scope' = [m \in Media |-> Claimed(m, c.media)]
          /\ late' = IF \E m \in message : m.at > c.at THEN late \union {c.at} ELSE late
          /\ replied' = replied \union {<<c.by, c.key, c.at>>}
     ELSE UNCHANGED <<message, scope, late, replied>>
  /\ End(q)
  /\ UNCHANGED <<family, conv, clock, removing, told, left, raced, shown>>

\* The connection is lost and the transaction rolled back; the client may retry.
Abort(q) ==
  /\ call[q].op = "insert"
  /\ End(q)
  /\ UNCHANGED <<rows, history>>

\* updateMessage and deleteMessage find a message that is not deleted ...
ReadForEdit(q, m) ==
  /\ MayUse(m.by, m.conv)
  /\ ~m.gone
  /\ \/ m.media = {} /\ Begin(q, [op |-> "edit", is |-> m.at])
     \/ Begin(q, [op |-> "delete", is |-> m.at])
  /\ UNCHANGED <<rows, history>>

\* ... and write it by id.
Edited(m, op) ==
  IF op = "edit" THEN [m EXCEPT !.text = 2] ELSE [m EXCEPT !.gone = TRUE, !.text = 0]

Edit(q) ==
  LET c == call[q] IN
  /\ c.op \in {"edit", "delete"}
  /\ \E m \in message :
       /\ m.at = c.is
       /\ message' = (message \ {m}) \union {Edited(m, c.op)}
       /\ late' = IF m.gone THEN late \union {m.at} ELSE late
  /\ End(q)
  /\ UNCHANGED <<family, conv, clock, scope, removing, told, replied, left, raced, shown>>

\* The pages of getMessages that end with m.
PagesTo(m) == {n \in message : n.conv = m.conv /\ n.at <= m.at}

\* markRead: the partner has those pages in front of him.
ReadForMark(q, p, m) ==
  /\ MayUse(p, m.conv)
  /\ Begin(q, [op |-> "mark", by |-> p, conv |-> m.conv, is |-> m.at])
  /\ shown' = [shown EXCEPT ![p] = @ \union {n.at : n \in PagesTo(m)}]
  /\ UNCHANGED <<rows, told, replied, left, raced, late>>

\* Mutant: the cursor is the time of the write.
Cursor_Clock(at) == clock

Cursor(at) == at

\* The cursor is written by key, whatever it was; without the row this fails.
Mark(q) ==
  LET c == call[q] IN
  /\ c.op = "mark"
  /\ conv' = IF c.by \in Members(c.conv)
             THEN [conv EXCEPT ![c.conv].read[c.by] = Cursor(c.is)] ELSE conv
  /\ End(q)
  /\ UNCHANGED <<family, message, clock, scope, removing, history>>

\* MediaService.remove finds a medium of the album and deletes it by id, which
\* the foreign key of message_media forbids for one that a message holds.
FindForRemoval(m) ==
  /\ scope[m] = "ALBUM"
  /\ removing' = removing \union {m}
  /\ UNCHANGED <<family, conv, message, clock, scope, call, calls, history>>

Held(m) == \E n \in message : m \in n.media

RemoveMedium(m) ==
  /\ m \in removing
  /\ \A q \in Requests : call[q].op = "insert" => m \notin call[q].media   \* it waits
  /\ scope' = IF Held(m) THEN scope ELSE [scope EXCEPT ![m] = "gone"]
  /\ removing' = removing \ {m}
  /\ UNCHANGED <<family, conv, message, clock, call, calls, history>>

-----------------------------------------------------------------------------
Next ==
  \/ \E p \in People : Move(p)
  \/ \E q \in Requests, p \in People :
       \/ \E o \in People : ReadForCreate(q, p, o)
       \/ \E t \in People, c \in Convs : ReadForChange(q, p, t, c)
       \/ \E c \in Convs, k \in Keys : ReadForSend(q, p, c, k)
       \/ \E m \in message : ReadForMark(q, p, m)
  \/ \E q \in Requests :
       \/ Create(q) \/ Change(q) \/ Insert(q) \/ Commit(q) \/ Abort(q) \/ Edit(q) \/ Mark(q)
       \/ \E m \in message : ReadForEdit(q, m)
  \/ \E m \in Media : FindForRemoval(m) \/ RemoveMedium(m)

Spec == Init /\ [][Next]_vars

(***************************************************************************)
(* Properties.                                                             *)
(***************************************************************************)

TypeOK ==
  /\ family \subseteq People
  /\ conv \in [Convs -> ConvRows]
  /\ message \subseteq Messages
  /\ clock \in 0 .. MaxStamp
  /\ scope \in [Media -> Scopes]
  /\ removing \subseteq Media
  /\ shown \in [People -> SUBSET Stamps]
  /\ left \subseteq People \X Convs
  /\ raced \subseteq Convs
  /\ late \subseteq Stamps

\* A group has one owner (docs/IMPLEMENTATION_STATUS.md:134), whoever is added,
\* removed, leaves or is handed it, in whatever order: the calls decide by the
\* roles they have read, and only one whose roles have changed since can break it.
GroupIsOwned ==
  \A c \in Convs \ raced :
    conv[c].kind = "GROUP" => Cardinality({p \in People : conv[c].role[p] = "OWNER"}) = 1

\* "direct conversations are idempotent per pair" (docs/IMPLEMENTATION_STATUS.md:116):
\* of all calls, overlapping or not, one creates the conversation, all are
\* answered with it, and the caller is a member of it unless he has left it.
DirectIsShared ==
  \A s, t \in told :
    /\ conv[s.is].key = s.of
    /\ s.of = t.of => s.is = t.is
    /\ s.who \in Members(s.is) \/ <<s.who, s.is>> \in left

\* A client id names one message, which every retry is answered with; its push
\* event is not for the sender; a deleted one has no text, unless a slower edit
\* brought it back; and what is attached to one is out of the album for good.
MessagesStand ==
  /\ TypeOK
  /\ \A r \in replied : \E m \in message : r = <<m.by, m.key, m.at>>
  /\ \A m \in message :
       /\ \A n \in message : n.by = m.by /\ n.key = m.key => n = m
       /\ m.gone /\ m.at \notin late => m.text = 0
       /\ m.by \notin m.push
       /\ \A x \in m.media : scope[x] = "CHAT"

\* What toConversationResponse counts as unread.
Unread(p, c) == {m \in message : /\ m.conv = c /\ m.by # p /\ ~m.gone
                                 /\ m.at > conv[c].read[p]}

\* A message is no longer counted as unread by a member only if it was among
\* those he was shown, or if it appeared behind a younger one, or is deleted.
ReadWasSeen ==
  \A c \in Convs : \A p \in Members(c) :
    \A m \in {n \in message : n.conv = c /\ n.by # p /\ ~n.gone} \ Unread(p, c) :
      m.at \in shown[p] \union late
=============================================================================
