# Formal models of the my-love backend

The repository is a NestJS backend for a couple's application over one
PostgreSQL database (Prisma), with object storage, a Telegram gateway, SMTP and
push as external services. Several API processes run at once. Nearly every
query is an `await` under READ COMMITTED, so between two queries any other
request or worker may run: this is what makes the code hard to test and what
the models are about. They are written from the code under `src/`; the map in
`PROJECT.json` gives the lines behind each definition.

## 1. Inventory

| component | state | operations | interacts with | hard behaviour | correct when |
|---|---|---|---|---|---|
| Outbox (`common/outbox`) | `OutboxEvent`: status, attempts, availableAt, lockedAt | enqueue, claim, deliver, defer, fail | every producer inserts in its own transaction; one worker per process; SMTP, Telegram, FCM | competing workers, crashes, lost replies, slow holders | a row is owned by one worker, its outcome is earned and final, nothing is lost |
| Ledger (`modules/finance`) | append-only transactions and entries, command results, wallets, goals | income, expense, transfer, reverse, contribute; life cycle of wallets and goals | unique indexes and triggers of the database | retries racing their first run, competing reversals, checks that precede transactions | one effect per key, one reversal per transaction, nothing behind a refusal |
| Families (`families`, `family-members`) | family status, membership, invitations, dissolution requests | invite (public, private), accept, leave, archive, restore, dissolve | every other module reads the membership first | serializable invitations beside READ COMMITTED commands with a stale context | founded once per invitation, dissolved by both and for good |
| Idempotency (`common/idempotency`) | one record per user, scope and key | reserve, replay, reclaim, undo, save | wraps controllers | crash or failure around the commit of a use case | one run at a time, genuine replays, repetitions accounted for |
| Maintenance (`common/maintenance`) | none of its own | cleanup, reminders, generation, anonymisation | media cleanup, tasks, payments, notifications | several processes tick at once | each reminder once, no live account anonymised |
| Media (`modules/media`) | upload sessions, media rows, cleanup tasks | initiate, complete, abort, expire, delete | object storage | complete against abort, expiry and itself | no row without its object, no object for ever without a row |
| Messenger (`modules/messenger`) | conversations, members and roles, messages, read cursors | create, send, edit, delete, read, change roles, leave | media, push, gateway | concurrent role changes, resent messages, late commits | one owner, one message per client id, nothing skipped unread |
| Gateway (`messenger.gateway.ts`) | maps of one process: sockets, their conversations, typing timers | connect, join, leave, type, disconnect | the messenger for membership | handlers that go on after their socket has gone | who is shown online is there; typing ends |
| Accounts (`auth`, `users`) | password, sessions, tokens, deletion schedule, avatar | login, reset, change, delete, recover, erase | outbox, maintenance, object storage | slow hashes between check and write, recovery against erasure, a crash between a commit and its clean-up | a session lives no longer than its password; a deletion can be undone in time |
| Schedules (`tasks`, `recurring-payments`) | routines, payments, forecasts | create, edit, archive, restore, generate, remind | maintenance, notifications | generation by several processes and by hand | each occurrence and each reminder once, nothing due forgotten |
| Agreements (`family-events`, `family-wishes`, `financial-meetings`, couple meetings of `wellbeing`) | rows with status and version | propose, update, confirm, reject, realize, complete, decide, publish | notifications, maintenance | decision against a change | fields agree, reminders reach the chosen ones, settled once |
| Household (`meals`, `shopping`, tasks) | recipes with ingredients, plans, lists, items, tasks | create, update, archive, generate, check, complete | one another | rewriting of child rows, stale `If-Match` | a recipe is one of its versions, a version guards what it showed |
| Consents (`wellbeing`) | check-ins, consent grants | check in, grant, narrow, revoke, delete, read shared | families, accounts | a reader between two queries | nothing is shown without consent |
| Reports (`finance/*-analytics`, `*-summary`, `expense-statistics`) | none: queries of the ledger | cash flow, balances, actuals of a category, spending by author | ledger, wallet visibility | reversals, readers who see some of the wallets | the reports tell the same of one ledger |
| Notices (`common/notifications`, `users/telegram`, preferences) | preferences, link and link tokens, inbox, queued messages | notify, dispatch, put off, look up, send; link, unlink, change preferences | outbox, Telegram, every producer | time zones and clock changes, preferences and links that change while a message waits, partial updates | handed over where and when its recipient wants it |
| Others | budgets, categories, intimacy, calendar, first date, child profiles, audit | single-row writes and reads | | | |

## 2. Plan

Done, in this order:

1. `Outbox` with `AtLeastOnce` as its abstract specification; `OutboxProofs`.
2. `Ledger` (commands, goals, wallets) with `OnceOnly`; `LedgerProofs`.
3. `Family` (invitations, life cycle, dissolution); `FamilyProofs`, for accounts too.
4. `Idempotency` around a use case; `IdempotencyProofs`.
5. `Media`: uploads, object storage and cleanup leases; `MediaProofs`.
6. `Messenger`: roles, messages with client ids, read cursors; `Presence`: the gateway; `MessengerProofs`.
7. `Account`: sessions, tokens, deletion, recovery, erasure, the avatar.
8. `Schedules`: routines, recurring payments and their reminders under several workers; `SchedulesProofs`.
9. `Agreements`, `Household`, `Wellbeing`: what two partners edit at once; `PlannerProofs`.

10. `Reports` beside the ledger, `Notices` with quiet hours and the Telegram link.
11. In `LedgerProofs`, the sums: balances, goals and reports.

Left: reminders of tasks; intimacy entries; budgets as rows.

Small components share a module and a run, so that the set of runs stays readable.

## 3. Modules and the code

Common conventions. A request, call or worker has a label `pc` naming the query
it is about to make; an action is the code from one `await` to the next.
Several queries are one action only if nobody can see or disturb what lies
between: a SERIALIZABLE transaction, a read whose update compares the version it
read, or rows that become visible at the commit. Clock times appear as the
result of the comparison the code makes with them (due, stale, expired). Text,
currency, visibility, notes, audit rows and logs are left out. Operators whose
name has a suffix (`Claimable_NoRecheck`) are deliberately wrong variants of the
definition above or below them, kept to show what a property would notice; no
specification uses them.

**Outbox** — `status`, `attempts`, `due` (`availableAt <= now`) and `stale`
(`lockedAt` older than the timeout) are the columns of a row; `pc`, `cur`, `seen`
the local state of a worker; `sends`, `skipped`, `failures`, `overrun` are history.
`Find`/`Claim`/`ClaimLost` are `claimNext`, `LookupNone` .. `Throw` the branches of
`deliver`'s try block, `Mark`, `Defer`, `FailRead`/`FailWrite` its ends. `Crash` is the
death of a process at any await. Two assumptions about time are in the guards:
`LockAges` does not fire between the two queries of a claim on that row, and
`LockOverrun` (a lock that expires under a live worker) is counted as a fault.

**AtLeastOnce** — the promise to producers: an entry is waiting, done, dead or
withdrawn; it is done only after a hand-over, dead only after enough failures, and
its outcome changes only if two workers contested it.

**Ledger** — a transaction is named by the request that inserted it and its two
entries follow from the command, so `ledger` and `results` are the committed rows.
An insert that meets an uncommitted row with an equal unique key waits (the guard
`~ReversalPending`, `~IdentityPending`), as PostgreSQL does. `saw` and `reaches` are what a
contribution has read and decided. `closing` are wallets whose archive has passed its
checks at the current version. `target` and `lowest` record the goal's history. A balance is the sum
of a wallet's entries, as `FinancialGoalsService.balance` aggregates them, by the community modules' fold
(`SumFunctionOnSet`). Of the commands it is assumed that a move names a wallet and that a contribution
comes out of one, as their DTOs require.
Remaining refusals (currency, category, private source) and every database error that rolls back
are `Fail`; `CommitUnheard` is a commit whose reply is lost, so that the caller hears an error.

**OnceOnly** — keyed commands executed at most once per identity, each undone at
most once, and answered from what was executed. A caller may be told that a command failed although
it took effect (`ExecuteUnheard`); his repetition is then answered with it.

**Family** — invitation commands are single steps; the family commands are calls that
`Start` with the read of the membership and later write. `leave` has a step of its own
between its count and its commit (`LeaveDelete`, `LeaveCommit`), because the count does
not see deletions that are not committed; `confirmDissolution` has one between finding
the request and updating it. The check constraint on the life cycle columns is
`MayArchive`. The recipient of a private invitation is the user with that address.

**Idempotency** — `record` is the row of a key, `seen` what a request has read of it,
`mine` the id it reserved; a reclaim keeps the id. The use case is `Commit` followed by
`Return` or `RestFails`, as in `FamilyEventsService.create`: an insert, and a notification in
another transaction.

**Media** — `session`, `rows` and `task` are tables, `stored` is what S3 holds: of each upload
the open multipart upload (`parts`), the object (`main`) and the preview. `create`,
`initiateUpload`, `completeUpload`, `abortUpload` and `remove` go from await to await; their catch
blocks and every `deleteOrEnqueue` or `abortOrEnqueue` become a list `todo` that
`SweepOne`/`SweepFails`/`Enqueue` work off in the code's order. A storage call that throws may have
taken effect (`MayPut`, `MayDispose`); deleting an absent object succeeds, while aborting or
completing an absent upload throws, as S3 specifies. `ClaimTask` is both queries of a claim,
because the update repeats the whole condition of the search. `faulted` and `blurred` name the
uploads hit at points the code cannot mend: a crash between a write and what it calls
for, an enqueue that fails, a completion or `headObject` whose reply is lost, a commit
reported as failed. An abort task of an upload that S3 no longer has is retried for ever:
the code does not tell "absent" from "failed" (`object-storage-cleanup.service.ts:105`), so
`StorageSettles` speaks of what is stored and not of tasks. A session's status may be overwritten,
too: an abort that read `INITIATED` writes `ABORTED` over `COMPLETED` or `FAILED`, which no property
forbids, since only the row decides what the API shows.

**Schedules** — `routine`, `payment` and `forecast` are rows, `now` a clock. A tick of a worker keeps
in `at` the time of its search, which the code passes on as `now`, and in `found` the rows it has
got; `GenerateTask`, `GenerateForecast` and `Remind` deal with one of them in one transaction each, and
`TickDies` is an error or a crash in between. Calls keep the row they have read in `seen`. A
transaction that reads a row and writes it where its version is the one read is the step of its
write. An archived payment may stand at the start, "created, and perhaps archived, before the
clock starts". Left out are the wallet and the category of a payment and the status of the
family, which only refuse.

**Agreements** — every call is a read (`ReadForUpdate`, `ReadForMove`, ...) that keeps what it has seen, and a write that compares
what the code compares: always a version, a version only if the client sent it (`checked`), the
conditions again, or the id alone. `blind` names the rows that somebody who sent no version has
overwritten without having read their last change; `tardy` the events whose reminder time
passed while a change of it was under way.

**Household** — an `updateMany` that repeats the conditions of the read before it is one step with it;
`expected` is the version a client sends as `If-Match`. The transaction that rewrites a recipe takes
two steps: it locks the row and deletes the ingredients it sees (`RewriteRecipe`), then adds its own
and commits (`CommitRewrite`). A generated item is named by its source key. `unseen` collects rows changed under a version
that did not show them; what a row showed (`Content`) is its own columns, and the ingredients of a recipe.

**Wellbeing** — `sharedWithMe` goes through three kinds of queries: the family, the grants, and the
check-ins of one owner after the other (`Ask`, `FindGrants`, `FindRows`, `AnswerReader`). `consent` is what owners have been
told, kept apart from the rows; `since` what a reader was allowed to see since he asked.
Families and accounts change as `Family` and `Account` let them.

**Messenger** — every call keeps what `requireConversation` returned, and writes later by key. A message
gets its `createdAt` at its insertion (`Insert`) and is seen from its commit on (`Commit`), so that
messages appear in another order than they are numbered in; unique indexes let one of two equal
insertions wait for the other. `raced`, `late` and `left` name what a call could not have seen.

**Presence** — the gateway is one Node process, so a handler runs from one await to the next without
interruption: `Receive`, `Admit` and the four ends. The maps of the gateway are `mapped`, `tracked` and
`timers`; `online` and `typing` are what a client in the room has been told. Other processes
(the Redis adapter) relay signals and keep maps of their own, which changes nothing for a
socket. A leave and a disconnection clear the timer and send "offline" (`ClearTyping`, `Offline`), and nothing
about typing: `silenced` names who is then still shown as typing with no timer left to end it.

**Account** — one account. A call verifies or hashes a password between its read and its transaction;
`secret` counts the credentials there have been, and a session remembers those it was opened
with. The erasure is its search (`FindExpired`), its transaction (`Anonymize`), whose deletions stay even if
the user is no longer to be erased, and after the commit the deletion of the objects (`DropErased`); the worker
may stop or fail between any two (`WorkerStops`). The avatar goes through the storage as `uploadAvatar` does, which
may fail or die at every await. `LeftOver` are the objects nobody will delete: `replaced` by a write that had read another one,
`lost` by a call that died or could not clean up, `forgotten` by an erasure that got no further than its commit. Left out: an address that is taken in the
meantime, which only refuses, and the invitations a deletion cancels, which are `Family!Revoke`.

**Reports** — functions of `ledger`, the committed rows: each report selects and signs transactions as its
`where` clause and its loop do (`Flow` with `Visible`, `Actual`, `Spending`). A report is one query set of one
ledger; sums per currency are independent of each other, the forecast of recurring
payments and the names of authors are left out. It is assumed that a category is named only by commands of
its kind (`createWalletCommand` refuses others), and that who manages a wallet sees it. `OverallFlow`,
`OverallActual` and `OverallSpent` add up a report over its months, for `ReportsAgree`.

**Notices** — a minute of the model stands for a longer time (`Day` of them make a day), a local time is one number
for date and minute, and a zone is an offset with one change of it. `Inside`, `TargetOf` and
`LocalTimeToInstant` are the functions of `QuietHoursService`, its loop of four corrections and its search included.
A notice has one recipient: the loop over members shares only the moment at which they were read. It goes from
`ReadRecipient` or `ReadMembers`/`ReadPreferences` over `Dispatch` into the outbox, and from there to `LookUp`, which asks for the
link and the quiet hours again, and `Send` or `SendFails`; the limit of retries is in `Outbox`. `told` is
what a user can know of his link: the chat after an exchange, `NoChat` after an unlink,
and "unsure" while a command that may take the link away overlaps. Users whose account is inactive
get no notice and so are left out.

`MC*` modules give the constants their values and state symmetry; `*Proofs`
modules hold the theorems.

## 4. Runs

| run | question | size |
|---|---|---|
| `OutboxDelivery` | Are claims exclusive and repetitions accounted for, is it an at-least-once queue, and does every row settle, also after a crash? | 2 workers, 2 rows (one Telegram), 2 attempts, 1 fault; 354 k states |
| `LedgerCommands` | Retries and reversals under every interleaving; does everybody get an answer, is it once-only, do the reports agree? | 5 requests, 1 wallet; 32 k states |
| `LedgerGoals` | Is an achieved goal funded while targets move, and do reports agree for who does not see every wallet? | 4 requests, 2 wallets, 1 goal, 2 targets; 722 k states |
| `FamilyLifecycle` | Invitations and all seven family commands together: one founding per invitation, two for a dissolution, every empty family accounted for? | 3 users, 3 invitations (one private), 2 families, 7 calls; 3.1 M states |
| `IdempotencyKeys` | Copies of a request, a reclaim, failures at every step | 4 requests, 1 key, 2 expiries; 341 k states |
| `MediaUploads` | Completion against abort, expiry, removal and retry with an unreliable storage | 1 upload of any kind, 2 requests, 2 workers, 1 fault; 1.0 M states |
| `MediaSettles` | Is storage always given back, also after a crash? | 1 upload, 1 request at a time, 1 worker, 1 fault; 57 k states |
| `SchedulesTicks` | Two workers, a dying tick and a person at once: one task per occurrence, one reminder per date, a forecast for every date, nothing due forgotten? | a routine or a payment, 2 workers, 1 call, 3 moments, 1 fault; 447 k states |
| `Planner` | Do versions protect what was seen, do reminders reach the chosen ones, do consents bound what is shown, do notices respect links and quiet hours? | 2 partners, 2 clients, one row of each kind; 5 zones, 1 notice; 1.59 M states |
| `Messenger` | Roles, direct chats, retries, media and read marks under every interleaving | 3 people, 2 requests at a time, 2 conversations, 2 messages, 5 calls; 400 k states |
| `Account` | Sessions, deletion and avatar while two calls overlap | 2 calls at a time, 6 in all, 2 sessions, tokens and pictures; 1.71 M states |
| `PresenceSignals` | Is who is shown online there, and does typing end? | 2 sockets of a person, 3 handlers; 351 k states |

Every run takes less than three minutes with two workers.

Why the bounds are enough. Every race in this code is between two actors on one
row, and a third actor or row shows up only where a history is inherited (a third
worker reclaiming what a second one left). `MaxAttempts = 2` tells the first failure from the
last. Five ledger requests contain a command, its retry, two reversals that compete for it and a
reversal of a reversal. Three users are what a competing invitation needs; two families show
that a user founds another one after leaving. Two expiries let a record be reclaimed
twice. Uploads share nothing but the workers, so one upload suffices; requests are
reused when they end, so two of them make any number of calls, two at a time.
In `SchedulesTicks` routines and payments meet only in a worker's tick, which takes them one after the
other, so one of either suffices (`MaxItems`); with a period of 1, three moments contain a
date that was missed, the next one and a date moved back; a single call against two workers
is every race that compares a version. `Planner` puts four modules that share no row side by side and
uses one of them in a behaviour. `MaxVersion`, `MaxOps`, `MaxSteps` and `MaxCalls` allow each client a call,
a second one that overlaps it, and one that sees the outcome. Its zones lie east and west of UTC,
with a clock that goes forward or back by a quarter of a day of eight minutes, so that a beginning or
an end of quiet hours can fall before, into, at the edge of and after the hour that is skipped or
comes twice; commands of users are given in a zone without changes, since what they do
does not depend on the clock. In `Messenger` the third person is
who enters after another has left; two messages are an earlier and a later one. In `Account` the clock
reaches the end of every period once. In `Presence` the signals of a person do not depend on
others, and two sockets are what one of them can hide of the other.
Deadlock checking is off where the system may come to rest (every call
answered, every row settled).

Fairness is assumed only where the code schedules something. The outbox workers are weakly fair because
`setInterval` restarts each loop and the awaits return; the clock is weakly fair
(`BecomeDue`, `LockExpires`); a lookup that may find quiet hours is strongly fair for its
other outcomes, because quiet hours end and a row is deferred exactly to their end.
Ledger requests are weakly fair, because a started request runs to its answer and a
waiting insert resumes when the other transaction ends. In `Media` requests and worker
steps are weakly fair likewise; taking a task or an expired session is strongly fair,
because both are searched in the order in which they fall due; and so is a successful
deletion, because S3 does not fail for ever on one object. In `Schedules` time passes and a
tick goes on (weak fairness), and a worker that comes to rest again and again starts either kind of
search again and again (strong fairness), because each has a timer of its own; people need not
do anything. In `Presence` a timer that is due and has not been cleared fires.

Type invariants without a line of their own in a `.cfg` are a conjunct of another
property there, or theorems.

## 5. Divergences and surprises

What the models show of the code where a document, a comment or a reader expects something else.
A property that speaks of the same matter names the exception and checks that there is no
other.

* Delivery is at least once, while `docs/BACKEND_IMPLEMENTATION_PLAN_V2.md:129` promises no duplicates on
  a retry: `Outbox!RepeatsAccounted` counts every repetition against a throw, a crash or a lock
  that expired under a live worker.
* An active goal can end with an archived envelope wallet, against
  `docs/IMPLEMENTATION_STATUS.md:545`: the archive checks, the goal is restored, the wallet is archived.
* An active family can be left without members, against `docs/IMPLEMENTATION_STATUS.md:384`: by two
  simultaneous leaves, by a restore that read the family before the last one left, or by a late
  leave that takes its caller out of another family (`EmptyAccounted`).
* A use case that fails after its commit loses its reservation, and the retry that
  `docs/adr/0004-idempotency.md:22` calls safe runs it again (`Idempotency!RepeatsAccounted`).
* A login or a change of the password that has verified the old one may open or keep a session
  after a reset has revoked all (`SessionsOfPassword`, `overlap`). A recovery that began in time may
  end after the erasure (`DeletionHolds`, `late`).
* A transfer of ownership and another change of roles that both decide by what they read can leave a
  group with two owners or none (`GroupIsOwned`, `raced`). An edit that read a message before its
  deletion gives it its text back (`MessagesStand`, `late`).
* A message that commits after a younger one was read counts as read unseen (`ReadWasSeen`, `late`).
* A handler that its socket's disconnection overtook still announces "online", and nobody takes that
  back (`OnlineIsThere`, `overtaken`), against `docs/IMPLEMENTATION_STATUS.md:1199`, by which presence is cleaned up
  on a leave and a disconnection. The first of two sockets of a person
  that goes offline hides the second.
* Who leaves or disconnects while typing stays typing for the others: the gateway clears the timer that would have sent
  `isTyping: false` and sends only `presence.updated` (`messenger.gateway.ts:62-74`, `:99-107`), against the same line,
  by which typing ends after five seconds and is cleaned up on both. Every other start of typing comes to an
  end (`TypingEnds`, `silenced`).
* The erasure of an account commits before it deletes or queues the objects of the avatar, and its search passes over
  rows that are erased: if the process dies in between, or neither the deletion nor its task succeeds, the picture stays
  for ever, against `docs/IMPLEMENTATION_STATUS.md:935-936` (`AvatarStands`, `forgotten`).
* An upload and a removal of the avatar that overlap both deal with the picture they have read before, so that the row
  is empty and the new object stays, against `docs/IMPLEMENTATION_STATUS.md:933-935` (`AvatarStands`, `replaced`).
  So does the object of an upload whose process dies before the write or the clean-up (`lost`).
* A list that is archived under `If-Match` may hold items the client has not seen: they are shown with the list
  (`shopping.service.ts:15-22`), but adding or generating one does not raise its version (`IfMatchHolds` speaks of the row).
* A forecast whose reminder was sent early stays when its payment is moved back; the generator runs
  into the unique index there, and its error ends the tick for all payments behind it
  (`DueIsAdvanced`, `Obstructed`).
* A second generation of shopping items moves an item to the new list without raising its version,
  and after a recipe was rewritten it adds the items again, because the ingredient rows are new.
* The reminder of a family event goes to those its search has read. They are the chosen ones at the
  claim, except under an update slower than the new reminder's time (`ReminderReachesChosen`, `tardy`).
* A check-in written after its owner revoked a consent can still be shown by a reader who asked
  before (`SharedIsGranted` speaks of consents, not of rows); and a consent that lay dormant while its
  owner was elsewhere is in force again when he returns to the family.

* Quiet hours whose end the clock shows twice end, for `nextAllowedAt`, at one of the two moments: west of UTC at one
  that may be past, so that the message goes out at once, east of it an hour late; and where the clock skips all of
  the time between two of them, a message is put off into the next ones (and then again).
  `docs/IMPLEMENTATION_STATUS.md:449-451` names no exception (`NoticesAreWanted`, `twice`).
* Two partial updates of the preferences that each pass the check `start # end` can store equal ones,
  and then nothing is quiet (`preferences.service.ts:29-36`).
* An unlink that finds its user by the old chat, or overlaps an exchange, takes away the new link
  or its permission, against `docs/IMPLEMENTATION_STATUS.md:455-458` (`told`, "unsure"). A chat that
  was linked once is refused to everybody else also after it was unlinked (`telegram.service.ts:30-34`).
* Expense statistics may show under a reversal the member who reversed, when that is the first row met of
  the original's author (`expense-statistics.service.ts:71-73`, against `docs/IMPLEMENTATION_STATUS.md:561`). The
  balance a reader is shown leaves out transfers with wallets he does not see, so it is the sum of his
  cash flow and not what the wallet holds (`ReportsAgree`).

## 6. Proofs

All proofs hold for arbitrary (where they are counted, finite) sets of workers, requests, users, families and any value of
the other constants that satisfies the named ASSUMEs (which the runs evaluate).

* **OutboxProofs.** `ExclusiveClaim` is not inductive alone: a worker that has found but
  not yet claimed a row matters too. `Claimed` adds what `status` and `stale` are while
  somebody holds or is about to take the row. From it follow `OutcomeFinal`, and with
  counting invariants `DeliveredWasHanded` and `DeadLetterEarned` (attempts never exceed
  failures, also in the copy that `fail()` holds).
  `RepeatsAccounted` compares two counters, so it needs a balance (`Paid`): what was
  handed over, what workers in the middle of a delivery may still hand over, and one more for a row that
  is free to be claimed, never exceed one plus the failures and faults so far. The refinement `Spec => QueueSpec` rests on the same invariants: each step of
  the outbox is a step of `AtLeastOnce` on one row, or a stutter.
* **LedgerProofs.** The invariant `Consistent` says that results point at transactions with
  that identity, that transactions between insert and commit are unique per
  `reverses_id` and per identity, and that answers were given from results. It implies
  `ReversedOnce`, `RepliesAgree` and `RefusedLeavesNothing` (a refused command left no transaction, and one that
  failed after its commit is recorded under its key); and each step maps to a step
  or a stutter of `OnceOnly`.
  Balances and reports are sums over sets. A fold takes some member of a set first, and the prover cannot do
  induction with a predicate as a parameter; so the module states induction over the strict subsets of a
  finite set once with a *set* in place of the predicate (`SetInduction`), and derives from it that a sum may
  take any member first (`SumTake`), sums of sums and differences (`SumPlus`, `SumMinus`), parts (`SumPart`) and
  the exchange of rows and columns (`SumExchange`). `BalancesStand` reads a reversal and its original as row and
  column of one table with one entry in each, which is `ReversedOnce` (`ReversalsCancel`). For
  `AchievedWasFunded` a second invariant, `GoalsInv`: a contribution aims at no less than the lowest target
  (`Aiming`), and as nothing leaves a ledger, what it found to have flowed in only grows until its commit
  (`Reaching`). `ReportsAgree` adds that a command past its check names wallets its author manages
  (`Managed`), so that an author is a reader: the months, or the authors, partition one set of transactions
  (`SumPartition`), the balances a reader is shown are what the visible transactions amount to
  (`WalletsAddUp`), and a reversal takes back in the same category and from the same author what it
  reverses (`SpentStands`).
* **FamilyProofs.** What a call may do to rows is stated once (`CallEffect`, `CtxChange`), what an accept does
  likewise (`AcceptShape`, `FoundShape`). `MembersAreNotInvited` is inductive with the types, because an
  accept cancels what competes with it. `FoundedByInvitation` counts: a step adds a founded family
  exactly if it adds an accepted invitation, given that nobody acts on a family that is not there yet
  (`Inhabited`). `DissolutionNeedsBoth` needs to know that whoever acts on a family is one of its founders
  (`Belonging`), that the petition a confirmation has found is of its own family and by somebody
  else (`Answerable`), and that a family has no third founder. `EmptyAccounted` is proved founder by founder
  (`Leavers`): one who is gone was taken out by a leave of his own, and that call had either read another
  family, or counted his partner as still there, or archived the family, which only a restore undoes. Whom
  a call has counted was the other founder (`Counted`), so two who saw each other left at the same time.
  The module also proves about `Account`: a session was opened with the secret in force, or by a call
  whose password was checked before a reset (`SessionsOfPassword` and what the calls under way remember); a deletion
  leaves a link that recovers the account until its period ends (`LinkLasts`), and what the erasure has found to be expired
  was not recovered in time (`FoundExpired`, `CallsInTime`), which is `DeletionHolds`; and `AvatarStands` holds because a call deletes only
  a picture that it has replaced or that is its own and in no row (`PicturesHandled`, `NewIsOwn`), the erasure only
  what its transaction took from the row, and every step that lets go of an object without deleting it is one of the
  three that `LeftOver` names.
* **IdempotencyProofs.** `Reserved` adds the distinctness of ids held by requests inside the
  use case and what a stored response and a remembered one stand for; from it follow
  exclusive runs, genuine replays and that responses are kept. `RepeatsAccounted` rests on the same kind of balance:
  committed changes, runs under way and one more for a key that is free, against expiries and
  failures after a commit.
* **MediaProofs.** `RowHasObjects` rests on `MediaInv`: an upload is in one phase at a time
  (`OnePhase`: not begun, in parts, being stored by one request, shown by a row, to be
  deleted), and the objects of its phase are there (`StoredSoFar`). Most actions are `Calm`:
  they enter no phase and dispose only of what is to be deleted; the others move an
  upload from one phase to the next and are proved one by one; an upload that a lost reply has
  blurred is in order too, except that its row may show what is not there. `ExclusiveLease` is
  inductive together with the types. `NothingLeaks` rests on `LeakInv`: a thing in S3 is held by a session, a row or a
  task (`Held`), or somebody under way will dispose of it or leave a trace of it (`Answers`), so that every step that
  gives up the first has the second ready. The worker that works off a task is not counted on: his crash
  leaves no trace, and the task stays until the thing is gone. It takes three facts more: nothing is stored of an upload
  that has not begun (`Begun`), a preview comes last (`Previews`), and whoever completes an upload has used up its parts (`Spent`).
* **SchedulesProofs.** The idea of all optimistic locking here is stated once, for each kind of row: who finds the
  version he has read finds the row he has read (`SawRoutine`, `SawPayment`, `SawForecast`). `LocalOK` holds that
  of every worker and call under way, so a step that compares versions acts on what is there, and one that
  does not match changes nothing. With it an occurrence from the next date on has
  not been made since that date was last set (`MadeOK`), hence `OccurrenceOnce`; a reminder that went out is recorded by
  a forecast that stays (`RemindedOK`), hence `RemindedOnce`, with the unique index of
  `ForecastsOK`; and whoever moves the next date has made or kept its forecast (`NextOK`), which is `NextIsForecast`.
* **PlannerProofs.** The four modules of the run `Planner`. *Wellbeing*, in three stages, as the reader asks three
  times: a grant in force was consented to by an owner who is still where he was (`GrantIsConsent`), what
  the grants query has found was allowed at some time since the reader asked (`FoundIsAllowed`), and what he has
  collected was found so (`ShownIsAllowed`). *Household*: what a client has read of a row is what it still shows while
  its version is the same (`ClientsFit`, with `StillShown`), and the ingredients change only in a transaction that
  locks their recipe (`DeletesAll`); so a recipe is never a mixture of two, and an `If-Match` that
  succeeds overwrites nothing unseen. *Agreements*: a call remembers the conditions its write relies on,
  and they hold as long as the row has the version it has seen (`CallsRemember`), which gives `RowsAgree`;
  what a worker has found due holds until the event gets another reminder time (`FoundIsChosen`), which gives
  `ReminderReachesChosen`; and `MeetingsSettleOnce`, an action property, follows from the versions alone.
  *Notices*: the loop and the search of `localTimeToInstant` find the local time or, if it is skipped, the moment the
  clock goes on (`Resolved`); quiet hours are an interval of local time (`QuietSpan`); so `nextAllowedAt` is the first
  moment that is not quiet, for every length of day, offset and change within the search window (`FirstAllowed`). The attempt
  to prove this showed the exception of quiet hours that leave less time than the clock skips, which the instance
  then covered too. A link is what its user was told unless a command under way may take it back (`ThreatsKnown`). Of a
  zone it is assumed (`NoticesAssumption`) that its change is not larger than the window and that what it skips lies in one date.
* **MessengerProofs.** `MessengerInv` describes calls (`CallsFit`, `Decided`: what a call has read and
  decided by), conversations (`ConvsFit`: one direct chat of a pair, whose two are in it unless they left, and one owner of a group unless roles have raced),
  answers (`ToldFits`), messages (`KeysOnce`, `MessagesFit`) and cursors (`CursorsSeen`: what lies before a
  read mark, or before one about to be set, was shown to its owner or committed late). Each kind of step is first given a shape (`Opens`, `Changes`, `InsertsAs`, `CommitsAs`,
  `EditsAs`, `Marks`), and each part of the invariant is shown to survive each shape.
  `OnlineIsThere` of `Presence` needs one thing more (`Linked`): who has a user has been let in, a socket
  that is in is mapped, and what was admitted came from such a socket. `TypingAlwaysTimed` is the safety half of
  `TypingEnds`: whoever is shown as typing has a timer that will end it, unless it was silenced.

Only model-checked: liveness (`EventuallySettled`, `Answered`, `StorageSettles`, `DueIsAdvanced`, `TypingEnds`),
which rests on fairness and is out of the prover's reach. Every invariant and every action property of a run is a
theorem.

## 7. Not modelled

Components marked `not_modelled` in `PROJECT.json`, with the reason; they are reads, or single rows
written by one statement each: calendar, first date, child profiles, audit, and the HTTP layer. Of the modelled ones:

* what is read and marked in the notification inbox, push devices and e-mail preferences;
* the forecast part of the cash flow, and reports over several currencies;
* reminders of tasks, the repeated reminder of an event and personal reminders, which are claimed like the ones
  that are modelled;
* registration and the update of a profile;
* budgets, categories, gratitudes, support requests, rituals, assessments, intimacy entries, the renaming of a
  group, the dietary labels of recipes, the media of recipes and events;
* the content of messages and payloads, roles of children (nothing creates a child member), money widths
  (amounts are checked against a maximum on entry and are `bigint` throughout), the
  listing and dashboard queries, and audit rows, which are written with what they describe;
* what providers, the object storage and the Redis adapter do inside: they accept, throw, or do both.
