-------------------------------- MODULE Notices --------------------------------
(***************************************************************************)
(* Notices by Telegram: what a domain event queues for its recipients, the *)
(* quiet hours that put a message off, and the chat a user links.          *)
(*                                                                         *)
(* Sources: common/notifications/notification-producer.service.ts and      *)
(* quiet-hours.service.ts, users/telegram.service.ts,                      *)
(* notifications/preferences.service.ts, and the Telegram branch of        *)
(* outbox.service.ts, whose claims and retry limit are in Outbox.          *)
(*                                                                         *)
(* Instants and local times are counted in minutes of the model, of which  *)
(* a day has Day; a local time is one number that stands for its date and  *)
(* minute.  A zone has an offset and one change of it (Zones).             *)
(***************************************************************************)
EXTENDS Integers

CONSTANTS
  Recipients,  \* users; those of one behaviour live in one time zone
  Chats,       \* Telegram accounts, each with its chat
  NoChat,
  Notices,     \* domain events, each told to one recipient
  Callers,     \* requests of users and of the bot that may be under way at once
  Zones,       \* [base, jump, at]: an offset, and by how much it changes when
  Day,         \* minutes of a day
  Window,      \* how far around an instant a missing local time is searched
  Patches,     \* preferences a PATCH may send: functions on some of the fields
  Initial,     \* preferences at the start
  FirstMoment, LastMoment,   \* bound: the moments of a behaviour
  MaxTokens, MaxCommands     \* bounds: unused link tokens of a user, commands

Fields == {"inApp", "telegram", "quiet", "start", "end"}

\* Values a field may have.
ValuesOf(f) == IF f \in {"start", "end"} THEN 0 .. Day - 1 ELSE BOOLEAN

Valid(s) == DOMAIN s = Fields /\ \A f \in Fields : s[f] \in ValuesOf(f)

\* A change of the offset is not larger than the window, and what it skips does
\* not reach into the next date: so it is in the zones with daylight saving time.
ASSUME NoticesAssumption ==
  /\ Day \in Nat \ {0} /\ Window \in Nat
  /\ \A z \in Zones :
       /\ z.base \in -Day .. Day /\ z.jump \in -Window .. Window /\ z.at \in Int
       /\ z.jump > 0 => (z.at + z.base) \div Day = (z.at + z.base + z.jump) \div Day
  /\ NoChat \notin Chats /\ "unsure" \notin Chats /\ NoChat # "unsure"
  /\ \A s \in Initial : Valid(s)
  /\ \A patch \in Patches : \A f \in DOMAIN patch \intersect Fields : patch[f] \in ValuesOf(f)
  /\ FirstMoment \in Int /\ LastMoment \in Int /\ MaxTokens \in Nat /\ MaxCommands \in Nat

VARIABLES
  moment,      \* the clock
  zone,        \* the zone of the recipients
  setting,     \* NotificationPreference of each recipient
  link,        \* TelegramConnection: chat and whether its status is ACTIVE
  tokens,      \* how many link tokens of each recipient are unused and valid
  command,     \* commands under way
  commands,    \* how many have begun
  notice,      \* each notice on its way to the outbox and out of it
  inbox,       \* notices shown in the application
  told         \* the chat a user knows to be linked, NoChat once he has unlinked,
               \* or "unsure" while commands overlap

clockVars == <<moment, zone>>
userVars  == <<setting, link, tokens, command, commands, told>>
nvars     == <<clockVars, userVars, notice, inbox>>

-----------------------------------------------------------------------------
(***************************************************************************)
(* QuietHoursService.                                                      *)
(***************************************************************************)
\* localParts: date and minute in the zone.
Local(t)    == t + zone.base + (IF t >= zone.at THEN zone.jump ELSE 0)
DateOf(l)   == l \div Day
MinuteOf(l) == l % Day

Inside(s, l) ==
  LET minute == MinuteOf(l) IN
  IF s.start > s.end THEN minute >= s.start \/ minute < s.end
                     ELSE minute >= s.start /\ minute < s.end

\* Mutant: the morning of the same date is meant, also in the evening.
TargetOf_Today(s, l) == DateOf(l) * Day + s.end

\* The local time at which the quiet hours around l end.
TargetOf(s, l) ==
  LET tomorrow == s.start > s.end /\ MinuteOf(l) >= s.start IN
  (DateOf(l) + (IF tomorrow THEN 1 ELSE 0)) * Day + s.end

\* localTimeToInstant: a first guess takes the local time for UTC and is corrected
\* up to four times; if three do not suffice, the fourth starts a search.
Corrected(target, t) == t + (target - Local(t))

LocalTimeToInstant(target) ==
  LET third   == Corrected(target, Corrected(target, Corrected(target, target)))
      around  == {Corrected(target, third) + o : o \in -Window .. Window}
      fitting == {t \in around : DateOf(Local(t)) = DateOf(target) /\ Local(t) >= target}
  IN  IF Local(third) = target THEN third
                               ELSE CHOOSE t \in fitting : \A u \in fitting : t <= u

NextAllowedAt(now, s) ==
  IF s.quiet /\ s.start # s.end /\ Inside(s, Local(now))
    THEN LocalTimeToInstant(TargetOf(s, Local(now)))
    ELSE now

-----------------------------------------------------------------------------
NoNotice  == [state |-> "none"]
NoCommand == [at |-> "idle"]

\* The unique index on the chat.
Distinct == \A u, v \in Recipients : u # v /\ link[u].chat = link[v].chat => link[u].chat = NoChat

Linked(chat) == [chat |-> chat, active |-> TRUE]
Unlinked     == [chat |-> NoChat, active |-> FALSE]

NInit ==
  /\ moment = FirstMoment
  /\ zone \in Zones
  /\ \E s \in Initial : setting = [u \in Recipients |-> s]
  /\ link \in [Recipients -> {Unlinked} \union {Linked(chat) : chat \in Chats}]
  /\ Distinct
  /\ tokens = [u \in Recipients |-> 0]
  /\ command = [c \in Callers |-> NoCommand]
  /\ commands = 0
  /\ notice = [n \in Notices |-> NoNotice]
  /\ inbox = {}
  /\ told = [u \in Recipients |-> IF setting[u].telegram /\ link[u].active
                                 THEN link[u].chat ELSE "unsure"]

TimePasses ==
  /\ moment < LastMoment
  /\ moment' = moment + 1
  /\ UNCHANGED <<zone, userVars, notice, inbox>>

-----------------------------------------------------------------------------
(***************************************************************************)
(* TelegramService: the link.                                              *)
(***************************************************************************)
Commence(c, state) ==
  /\ command[c] = NoCommand /\ commands < MaxCommands
  /\ commands' = commands + 1
  /\ command' = [command EXCEPT ![c] = state]

Conclude(c) == command' = [command EXCEPT ![c] = NoCommand] /\ UNCHANGED commands

\* createLinkToken: two statements, so two commands may leave two tokens.
ForgetTokens(c, u) ==
  /\ Commence(c, [at |-> "create", user |-> u])
  /\ tokens' = [tokens EXCEPT ![u] = 0]
  /\ UNCHANGED <<clockVars, notice, inbox, setting, link, told>>

CreateToken(c) ==
  /\ command[c].at = "create"
  /\ tokens[command[c].user] < MaxTokens
  /\ tokens' = [tokens EXCEPT ![command[c].user] = @ + 1]
  /\ Conclude(c)
  /\ UNCHANGED <<clockVars, notice, inbox, setting, link, told>>

TokenExpires(u) ==
  /\ tokens[u] > 0
  /\ tokens' = [tokens EXCEPT ![u] = @ - 1]
  /\ UNCHANGED <<clockVars, notice, inbox, setting, link, command, commands, told>>

\* Somebody may yet take the link or the permission away by a command that has begun.
Threatened(u) == \E c \in Callers : \/ command[c].at \in {"revoke", "disable"} /\ command[c].user = u
                                    \/ command[c].at = "save" /\ command[c].user = u
                                       /\ "telegram" \in DOMAIN command[c].patch

\* exchange: one transaction, whose updates are by unique keys.  A chat is
\* refused to others as long as its row exists, also a revoked one.
Exchange(u, chat) ==
  /\ tokens[u] > 0
  /\ \A v \in Recipients \ {u} : link[v].chat # chat
  /\ tokens'  = [tokens EXCEPT ![u] = @ - 1]
  /\ link'    = [link EXCEPT ![u] = Linked(chat)]
  /\ setting' = [setting EXCEPT ![u].telegram = TRUE]
  /\ told'    = [told EXCEPT ![u] = IF Threatened(u) THEN "unsure" ELSE chat]
  /\ UNCHANGED <<clockVars, notice, inbox, command, commands>>

\* unlinkByTelegram: a read of its own comes first.
FindConnection(c, chat) ==
  /\ \E u \in Recipients :
       /\ link[u].chat = chat
       /\ Commence(c, [at |-> "revoke", user |-> u])
       /\ told' = [told EXCEPT ![u] = "unsure"]
  /\ UNCHANGED <<clockVars, notice, inbox, setting, link, tokens>>

\* unlink: two updates.
RevokeLink(c, u) ==
  /\ \/ /\ Commence(c, [at |-> "disable", user |-> u])
        /\ told' = [told EXCEPT ![u] = "unsure"]
     \/ /\ command[c].at = "revoke" /\ command[c].user = u
        /\ command' = [command EXCEPT ![c].at = "disable"]
        /\ UNCHANGED <<commands, told>>
  /\ link' = [link EXCEPT ![u].active = FALSE]
  /\ UNCHANGED <<clockVars, notice, inbox, setting, tokens>>

Disable(c) ==
  LET u == command[c].user IN
  /\ command[c].at = "disable"
  /\ setting' = [setting EXCEPT ![u].telegram = FALSE]
  /\ told' = [told EXCEPT ![u] = IF link[u].active THEN @ ELSE NoChat]
  /\ Conclude(c)
  /\ UNCHANGED <<clockVars, notice, inbox, link, tokens>>

-----------------------------------------------------------------------------
(***************************************************************************)
(* NotificationPreferencesService.update: the check reads the row, the     *)
(* upsert writes the fields that were sent.                                *)
(***************************************************************************)
CheckSetting(c, u, patch) ==
  LET next == [f \in Fields |-> IF f \in DOMAIN patch THEN patch[f] ELSE setting[u][f]] IN
  /\ next.quiet => next.start # next.end
  /\ Commence(c, [at |-> "save", user |-> u, patch |-> patch])
  /\ told' = [told EXCEPT ![u] = IF "telegram" \in DOMAIN patch /\ @ # NoChat THEN "unsure" ELSE @]
  /\ UNCHANGED <<clockVars, notice, inbox, setting, link, tokens>>

SaveSetting(c) ==
  LET u == command[c].user IN
  /\ command[c].at = "save"
  /\ setting' = [setting EXCEPT ![u] = [f \in Fields |->
                   IF f \in DOMAIN command[c].patch THEN command[c].patch[f] ELSE @[f]]]
  /\ Conclude(c)
  /\ UNCHANGED <<clockVars, notice, inbox, link, tokens, told>>

-----------------------------------------------------------------------------
(***************************************************************************)
(* NotificationProducerService.                                            *)
(***************************************************************************)
\* notifyUserInTransaction: one query reads the connection and the preferences.
\* A worker passes the time of its search (bound: the last moment but one).
ReadRecipient(n, u) ==
  /\ notice[n].state = "none"
  /\ \E now \in {moment - 1, moment} :
       notice' = [notice EXCEPT ![n] = [state |-> "read", user |-> u, active |-> link[u].active,
                                        setting |-> setting[u], now |-> now]]
  /\ UNCHANGED <<clockVars, userVars, inbox>>

\* notifyFamilyMembers: the connections, then the preferences and the time.
ReadMembers(n, u) ==
  /\ notice[n].state = "none"
  /\ notice' = [notice EXCEPT ![n] = [state |-> "members", user |-> u, active |-> link[u].active]]
  /\ UNCHANGED <<clockVars, userVars, inbox>>

ReadPreferences(n) ==
  LET m == notice[n] IN
  /\ m.state = "members"
  /\ notice' = [notice EXCEPT ![n] = [state |-> "read", user |-> m.user, active |-> m.active,
                                      setting |-> setting[m.user], now |-> moment]]
  /\ UNCHANGED <<clockVars, userVars, inbox>>

Queued(m, at) == [state |-> "waiting", user |-> m.user, availableAt |-> at, since |-> m.now,
                  setting |-> m.setting]

\* dispatchToRecipient, up to the commit.
Dispatch(n) ==
  LET m == notice[n] IN
  /\ m.state = "read"
  /\ inbox' = IF m.setting.inApp THEN inbox \union {n} ELSE inbox
  /\ notice' = [notice EXCEPT ![n] =
       IF m.setting.telegram /\ m.active THEN Queued(m, NextAllowedAt(m.now, m.setting))
                                         ELSE [state |-> "done"]]
  /\ UNCHANGED <<clockVars, userVars>>

-----------------------------------------------------------------------------
(***************************************************************************)
(* The Telegram branch of OutboxService.deliver.                           *)
(***************************************************************************)
\* The recipient is looked up, and the quiet hours are asked again.
LookUp(n) ==
  LET u     == notice[n].user
      now   == [user |-> u, setting |-> setting[u], now |-> moment]
      later == NextAllowedAt(moment, setting[u])
  IN
  /\ notice[n].state \in {"waiting", "failed"} /\ notice[n].availableAt <= moment
  /\ notice' = [notice EXCEPT ![n] =
       IF ~(link[u].active /\ setting[u].telegram) THEN [state |-> "done"]
       ELSE IF later > moment THEN Queued(now, later)
       ELSE [state |-> "sending", user |-> u, chat |-> link[u].chat, since |-> moment,
             setting |-> setting[u], expected |-> told[u]]]
  /\ UNCHANGED <<clockVars, userVars, inbox>>

\* The call of the gateway: accepted, or thrown and tried again.
Send(n) ==
  /\ notice[n].state = "sending"
  /\ notice' = [notice EXCEPT ![n].state = "sent"]
  /\ UNCHANGED <<clockVars, userVars, inbox>>

SendFails(n) ==
  LET m == notice[n] IN
  /\ m.state = "sending"
  /\ notice' = [notice EXCEPT ![n] = [state |-> "failed", user |-> m.user, availableAt |-> moment]]
  /\ UNCHANGED <<clockVars, userVars, inbox>>

-----------------------------------------------------------------------------
\* What users do, through the application or the bot.
UserStep ==
  \/ \E c \in Callers, u \in Recipients :
       \/ ForgetTokens(c, u)
       \/ RevokeLink(c, u)
       \/ \E patch \in Patches : CheckSetting(c, u, patch)
  \/ \E c \in Callers : \/ CreateToken(c)
                        \/ Disable(c)
                        \/ SaveSetting(c)
                        \/ \E chat \in Chats : FindConnection(c, chat)
  \/ \E u \in Recipients : TokenExpires(u) \/ \E chat \in Chats : Exchange(u, chat)

\* What becomes of the notices.
NoticeStep ==
  \E n \in Notices : \/ \E u \in Recipients : ReadRecipient(n, u) \/ ReadMembers(n, u)
                     \/ ReadPreferences(n)
                     \/ Dispatch(n)
                     \/ LookUp(n)
                     \/ Send(n)
                     \/ SendFails(n)

NNext == TimePasses \/ UserStep \/ NoticeStep

NSpec == NInit /\ [][NNext]_nvars

-----------------------------------------------------------------------------
(***************************************************************************)
(* Properties.                                                             *)
(***************************************************************************)
\* The clock of the zone shows l twice.
Repeats(l) == zone.jump < 0 /\ l - zone.at - zone.base \in zone.jump .. -1

QuietAt(s, t) == s.quiet /\ s.start # s.end /\ Inside(s, Local(t))

\* A link that was made holds until it is taken back, and what was taken back
\* is no longer in force, whatever else the user has done at the same time.
LinkHolds ==
  \A u \in Recipients :
    /\ told[u] \in Chats => link[u] = Linked(told[u]) /\ setting[u].telegram
    /\ told[u] = NoChat => ~link[u].active

\* A message is handed to Telegram only when its recipient, as far as he can
\* know, is reached in that chat and it is not quiet there, and it waits for the
\* first moment that is not; except where the local time at which the quiet
\* hours begin or end comes twice, or where the clock skips all the time between
\* two of them.
NoticesAreWanted ==
  /\ LinkHolds
  /\ Distinct
  /\ \A n \in Notices :
       LET m     == notice[n]
           end   == TargetOf(m.setting, Local(m.since))
           quiet == (m.setting.end - m.setting.start) % Day
           twice == Repeats(end - quiet) \/ Repeats(end)
       IN
       /\ m.state \in {"sending", "sent"} =>
            /\ m.expected \in {m.chat, "unsure"}
            /\ QuietAt(m.setting, m.since) => twice
       /\ m.state = "waiting" /\ ~twice =>
            /\ m.since <= m.availableAt
            /\ QuietAt(m.setting, m.availableAt) => Day - quiet <= zone.jump
            /\ \A t \in m.since .. m.availableAt - 1 : QuietAt(m.setting, t)
=============================================================================
