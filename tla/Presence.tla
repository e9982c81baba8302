------------------------------ MODULE Presence ------------------------------
(***************************************************************************)
(* Presence and typing signals of the messenger's WebSocket gateway        *)
(* (modules/messenger/messenger.gateway.ts).                               *)
(*                                                                         *)
(* The gateway is one Node process: a handler runs without interruption    *)
(* between two awaits.  It awaits the socket's authentication, then the    *)
(* membership query, and then acts; the socket may disconnect, and other   *)
(* handlers of the same socket may act, in between.                        *)
(*                                                                         *)
(* The signals are kept nowhere: what counts is what a client that is in   *)
(* the room all along has last been told.  Presence and typing are two     *)
(* events, and neither says anything of the other.                         *)
(***************************************************************************)
EXTENDS FiniteSets

CONSTANTS
  Sockets,
  Users,
  Owner,      \* the user of the token each socket presents
  Rooms,
  Handlers    \* calls of the four handlers, each made once

Kinds == {"join", "leave", "typing.start", "typing.stop"}

ASSUME PresenceAssumption == Owner \in [Sockets -> Users]

VARIABLES
  link,       \* "none", "authenticating", "in" or "gone"
  user,       \* sockets whose socket.user is set
  mapped,     \* keys of socketConversations
  tracked,    \* its values: <<socket, conversation>>
  timers,     \* typingTimers: <<socket, conversation>>
  member,     \* <<person, conversation>> for which getFamilyId succeeds
  handler,    \* what each handler has under way: kind, socket, conversation, stage
  online,     \* <<person, conversation>> whose last presence was `online'
  typing,     \* <<person, conversation>> last shown as typing
  overtaken,  \* history: of the online, the `online' was sent by a socket then gone
  silenced    \* history: of the typing, a leave or a disconnection has cleared the last timer

sockets == <<link, user, mapped, tracked>>
signals == <<online, typing, overtaken, silenced>>
pvars   == <<sockets, timers, member, handler, signals>>

Free == [stage |-> "none"]

PInit ==
  /\ link    = [s \in Sockets |-> "none"]
  /\ user    = {}
  /\ mapped  = {}
  /\ tracked = {}
  /\ timers  = {}
  /\ member  = Users \X Rooms
  /\ handler = [r \in Handlers |-> Free]
  /\ online  = {}
  /\ typing  = {}
  /\ overtaken = {}
  /\ silenced = {}

Tracks(s) == {c \in Rooms : <<s, c>> \in tracked}

\* socketConversations.get(id)?.add(conversation)
Track(s, c) == tracked' = IF s \in mapped THEN tracked \union {<<s, c>>} ELSE tracked

\* presence.updated, emitted to the rooms of the conversations in C.
Online(s, c) ==
  /\ online' = online \union {<<Owner[s], c>>}
  /\ overtaken' = IF link[s] = "gone" THEN overtaken \union {<<Owner[s], c>>}
                                      ELSE overtaken \ {<<Owner[s], c>>}
  /\ UNCHANGED <<typing, silenced>>
Offline(s, C) ==
  /\ online'    = online \ ({Owner[s]} \X C)
  /\ overtaken' = overtaken \ ({Owner[s]} \X C)
  /\ UNCHANGED typing

\* Sockets of the person that will say that the typing has ended.
Timed(p, c) == {s \in Sockets : Owner[s] = p /\ <<s, c>> \in timers}

\* clearTyping, in the conversations in C and without a typing.updated.
ClearTyping(s, C) ==
  /\ timers'   = timers \ ({s} \X C)
  /\ silenced' = silenced \union
       {t \in typing : t[1] = Owner[s] /\ t[2] \in C /\ Timed(t[1], t[2]) = {s}}

-----------------------------------------------------------------------------
(***************************************************************************)
(* Connections.                                                            *)
(***************************************************************************)

\* handleConnection: the promise of authenticateSocket is kept and awaited.
Connect(s) ==
  /\ link[s] = "none"
  /\ link' = [link EXCEPT ![s] = "authenticating"]
  /\ UNCHANGED <<user, mapped, tracked, timers, member, handler, signals>>

\* Token and session are good.  The socket may have disconnected meanwhile.
Authenticated(s) ==
  /\ link[s] \in {"authenticating", "gone"}
  /\ s \notin user
  /\ link'   = [link EXCEPT ![s] = IF @ = "gone" THEN "gone" ELSE "in"]
  /\ user'   = user \union {s}
  /\ mapped' = mapped \union {s}
  /\ UNCHANGED <<tracked, timers, member, handler, signals>>

\* No token, no session or an inactive user: the socket is disconnected.
Refused(s) ==
  /\ link[s] = "authenticating"
  /\ link' = [link EXCEPT ![s] = "gone"]
  /\ UNCHANGED <<user, mapped, tracked, timers, member, handler, signals>>

\* Mutant: the entry is dropped before it is read.
Left_Dropped(s) == {}

\* The conversations handleDisconnect goes through.
Left(s) == Tracks(s)

\* handleDisconnect: offline in every tracked conversation.
Disconnect(s) ==
  /\ link[s] \in {"authenticating", "in"}
  /\ link'    = [link EXCEPT ![s] = "gone"]
  /\ mapped'  = mapped \ {s}
  /\ tracked' = tracked \ ({s} \X Rooms)
  /\ Offline(s, Left(s))
  /\ ClearTyping(s, Left(s))
  /\ UNCHANGED <<user, member, handler>>

\* A membership ends (MessengerService); the gateway is not told.
MembershipEnds(p, c) ==
  /\ <<p, c>> \in member
  /\ member' = member \ {<<p, c>>}
  /\ UNCHANGED <<sockets, timers, handler, signals>>

-----------------------------------------------------------------------------
(***************************************************************************)
(* Handlers.                                                               *)
(***************************************************************************)

Receive(r, k, s, c) ==
  /\ handler[r] = Free
  /\ link[s] \in {"authenticating", "in"}
  /\ handler' = [handler EXCEPT ![r] = [stage |-> "asked", kind |-> k, socket |-> s, conv |-> c]]
  /\ UNCHANGED <<sockets, timers, member, signals>>

\* requireAuthenticated and getFamilyId.
Admit(r) ==
  /\ handler[r].stage = "asked"
  /\ handler[r].socket \in user
  /\ <<Owner[handler[r].socket], handler[r].conv>> \in member
  /\ handler' = [handler EXCEPT ![r].stage = "admitted"]
  /\ UNCHANGED <<sockets, timers, member, signals>>

\* Either of them throws.
Reject(r) ==
  /\ handler[r].stage = "asked"
  /\ \/ handler[r].socket \notin user /\ link[handler[r].socket] = "gone"
     \/ /\ handler[r].socket \in user
        /\ <<Owner[handler[r].socket], handler[r].conv>> \notin member
  /\ handler' = [handler EXCEPT ![r] = [stage |-> "done"]]
  /\ UNCHANGED <<sockets, timers, member, signals>>

Acts(r, k, s, c) ==
  /\ handler[r] = [stage |-> "admitted", kind |-> k, socket |-> s, conv |-> c]
  /\ handler' = [handler EXCEPT ![r] = [stage |-> "done"]]
  /\ UNCHANGED <<link, user, mapped, member>>

Join(r, s, c) ==
  /\ Acts(r, "join", s, c)
  /\ Track(s, c)
  /\ Online(s, c)
  /\ UNCHANGED timers

Leave(r, s, c) ==
  /\ Acts(r, "leave", s, c)
  /\ tracked' = tracked \ {<<s, c>>}
  /\ ClearTyping(s, {c})
  /\ Offline(s, {c})

\* Mutant: the timer is set before the old one is cleared, under the same key.
Rearmed_ClearedLast(s, c) == timers \ {<<s, c>>}

\* The old timer is cleared and a new one of five seconds set.
Rearmed(s, c) == (timers \ {<<s, c>>}) \union {<<s, c>>}

TypingStart(r, s, c) ==
  /\ Acts(r, "typing.start", s, c)
  /\ Track(s, c)
  /\ typing'   = typing \union {<<Owner[s], c>>}
  /\ silenced' = silenced \ {<<Owner[s], c>>}
  /\ timers'   = Rearmed(s, c)
  /\ UNCHANGED <<online, overtaken>>

\* emitTyping(false): the timer is cleared and the end of typing is shown.
EndTyping(s, c) ==
  /\ timers'   = timers \ {<<s, c>>}
  /\ typing'   = typing \ {<<Owner[s], c>>}
  /\ silenced' = silenced \ {<<Owner[s], c>>}
  /\ UNCHANGED <<online, overtaken>>

TypingStop(r, s, c) ==
  /\ Acts(r, "typing.stop", s, c)
  /\ EndTyping(s, c)
  /\ UNCHANGED tracked

TimerFires(s, c) ==
  /\ <<s, c>> \in timers
  /\ EndTyping(s, c)
  /\ UNCHANGED <<sockets, member, handler>>

PNext ==
  \/ \E s \in Sockets : Connect(s) \/ Authenticated(s) \/ Refused(s) \/ Disconnect(s)
  \/ \E p \in Users, c \in Rooms : MembershipEnds(p, c)
  \/ \E r \in Handlers : Admit(r) \/ Reject(r)
  \/ \E r \in Handlers, s \in Sockets, c \in Rooms :
       \/ \E k \in Kinds : Receive(r, k, s, c)
       \/ Join(r, s, c) \/ Leave(r, s, c) \/ TypingStart(r, s, c) \/ TypingStop(r, s, c)
  \/ \E s \in Sockets, c \in Rooms : TimerFires(s, c)

PSpec == PInit /\ [][PNext]_pvars

\* Node runs a timer that is due and has not been cleared.
FairSpec == PSpec /\ \A s \in Sockets, c \in Rooms : WF_pvars(TimerFires(s, c))

-----------------------------------------------------------------------------
(***************************************************************************)
(* Properties.                                                             *)
(***************************************************************************)
Calls ==
  {Free, [stage |-> "done"]} \union
  [stage : {"asked", "admitted"}, kind : Kinds, socket : Sockets, conv : Rooms]

\* The shape of the gateway's maps and of what the clients were told.
PTypeOK ==
  /\ link \in [Sockets -> {"none", "authenticating", "in", "gone"}]
  /\ user \subseteq Sockets /\ mapped \subseteq user
  /\ tracked \subseteq mapped \X Rooms
  /\ timers \subseteq Sockets \X Rooms
  /\ member \subseteq Users \X Rooms
  /\ handler \in [Handlers -> Calls]
  /\ online \subseteq Users \X Rooms /\ typing \subseteq Users \X Rooms
  /\ overtaken \subseteq online /\ silenced \subseteq typing

\* Who is shown online is there: one of the person's sockets is connected and
\* in the room, whatever the order of joins, leaves and disconnections of all
\* of them.  The exception the code leaves is the handler that its socket's
\* disconnection overtook: nothing takes back the `online' it sends.
OnlineIsThere ==
  /\ PTypeOK
  /\ \A p \in Users, c \in Rooms : <<p, c>> \in online \ overtaken =>
       \E s \in Sockets : /\ Owner[s] = p
                          /\ link[s] = "in"
                          /\ <<s, c>> \in tracked

\* Nobody is shown as typing for ever, though a person types on two sockets, a start
\* overwrites the timer of another and handlers act after a disconnection; unless a
\* leave or a disconnection has cleared the last timer that would have said so.
TypingEnds ==
  \A p \in Users, c \in Rooms :
    (<<p, c>> \in typing) ~> (<<p, c>> \notin typing \/ <<p, c>> \in silenced)
=============================================================================
