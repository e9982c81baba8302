------------------------------- MODULE Ledger -------------------------------
(***************************************************************************)
(* The financial ledger (modules/finance): income, expense, transfer and   *)
(* reversal commands, contributions to a goal's envelope wallet, and the   *)
(* life cycle of wallets and goals, over one family's rows.                *)
(*                                                                         *)
(* A request reads FinancialCommandResult before its transaction, then     *)
(* runs a READ COMMITTED transaction: each query is a step, inserted rows  *)
(* are invisible to the others until Commit, and an insert that meets an   *)
(* uncommitted row with the same unique key waits for its outcome.         *)
(*                                                                         *)
(* A transaction is named by the request that inserted it; its entries,    *)
(* -amount on one account and +amount on another, follow from the command. *)
(***************************************************************************)
EXTENDS Integers, FiniteSets, Functions

CONSTANTS
  Requests,   \* calls of the command endpoints; a retry is a request too
  Command,    \* user, Idempotency-Key and payload of each request
  Wallets,
  Goals,
  Envelope,   \* the wallet each goal was created with
  External,   \* the account outside the family (walletId NULL)
  Manages,    \* <<user, wallet>> for which canManage holds
  Targets,    \* targetAmountMinor values
  NoRequest,
  NoGoal

Refusals == {"missing", "invalid", "mismatch", "reversed", "error"}

Commands == [user : STRING, key : STRING, kind : {"move", "reverse", "contribute"},
             from : Wallets \union {External}, to : Wallets \union {External},
             amount : Nat \ {0}, reverses : Requests \union {NoRequest},
             goal : Goals \union {NoGoal}]

ASSUME LedgerAssumption ==
  /\ IsFiniteSet(Requests)
  /\ Command \in [Requests -> Commands]
  /\ Envelope \in [Goals -> Wallets]
  /\ \A g, h \in Goals : Envelope[g] = Envelope[h] => g = h
  /\ External \notin Wallets
  /\ NoRequest \notin Requests
  /\ NoGoal \notin Goals
  /\ Requests \intersect (Refusals \union {"none"}) = {}
  /\ Targets \subseteq Nat
  /\ \A r \in Requests :
       /\ Command[r].kind = "reverse" <=> Command[r].reverses # NoRequest
       /\ Command[r].kind = "move" => {Command[r].from, Command[r].to} # {External}
       /\ Command[r].kind = "contribute" =>
            /\ Command[r].from \in Wallets
            /\ Command[r].goal \in Goals /\ Command[r].to = Envelope[Command[r].goal]

VARIABLES
  pc,        \* where each request is
  reply,     \* what it was answered: a transaction, or why it was refused
  saw,       \* what a contribution read of its goal: achievedAt and target
  reaches,   \* the contribution found that it reaches the target
  ledger,    \* committed LedgerTransactions, named by their request
  results,   \* committed FinancialCommandResults: identity -> transaction
  wallet,    \* "none", "active" or "archived"
  closing,   \* wallets whose archive passed its checks at the current version
  goal,      \* "none", "active" or "archived"
  target,    \* targetAmountMinor
  achieved,  \* achievedAt is set
  lowest     \* history: the smallest target a goal has had

request == <<pc, reply, saw, reaches>>
books   == <<ledger, results>>
goals   == <<goal, target, achieved, lowest>>
vars    == <<request, books, wallet, closing, goals>>

User(r)  == Command[r].user
Kind(r)  == Command[r].kind
Scope(r) == IF Kind(r) = "contribute" THEN "goal-contribution" ELSE "ledger"

\* The unique index (user_id, scope, key) of financial_command_results.
Identity(r) == <<User(r), Scope(r), Command[r].key>>
Identities  == {Identity(r) : r \in Requests}

\* Equal request hashes.
Same(q, r) == Command[q] = Command[r]

\* reverses_id, NoRequest when the command is not a reversal.
Reverses(r) == Command[r].reverses

\* Mutant: a reversal repeats the entries of its original.
Posting_NotInverted(r) ==
  LET c == IF Kind(r) = "reverse" THEN Command[Reverses(r)] ELSE Command[r] IN
  [from |-> c.from, to |-> c.to, amount |-> c.amount]

\* The two entries; a reversal inverts those of its original.
Posting(r) ==
  LET c == IF Kind(r) = "reverse" THEN Command[Reverses(r)] ELSE Command[r] IN
  IF Kind(r) = "reverse" THEN [from |-> c.to, to |-> c.from, amount |-> c.amount]
                         ELSE [from |-> c.from, to |-> c.to, amount |-> c.amount]

Touched(r) == {Posting(r).from, Posting(r).to} \ {External}

Reversed(t) == \E q \in ledger : Reverses(q) = t

Moved == [t \in Requests |-> Posting(t).amount]

Inflow(T, w)  == SumFunctionOnSet(Moved, {t \in T : Posting(t).to = w})
Outflow(T, w) == SumFunctionOnSet(Moved, {t \in T : Posting(t).from = w})

\* A balance is never stored: it is the sum of the wallet's entries.
Balance(T, w) == Inflow(T, w) - Outflow(T, w)

Labels == {"new", "check", "insert", "record", "measure", "commit", "conflict", "done"}
Unseen == [achieved |-> FALSE, target |-> 0]

Init ==
  /\ pc      = [r \in Requests |-> "new"]
  /\ reply   = [r \in Requests |-> "none"]
  /\ saw     = [r \in Requests |-> Unseen]
  /\ reaches = [r \in Requests |-> FALSE]
  /\ ledger  = {}
  /\ results = [i \in Identities |-> NoRequest]
  /\ wallet  = [w \in Wallets |-> "none"]
  /\ closing = {}
  /\ goal    = [g \in Goals |-> "none"]
  /\ target \in [Goals -> Targets]
  /\ achieved = [g \in Goals |-> FALSE]
  /\ lowest = target

Goto(r, label) == /\ pc' = [pc EXCEPT ![r] = label]
                  /\ UNCHANGED reply

Answer(r, a) == /\ pc' = [pc EXCEPT ![r] = "done"]
                /\ reply' = [reply EXCEPT ![r] = a]

-----------------------------------------------------------------------------
(***************************************************************************)
(* Commands.                                                               *)
(***************************************************************************)

\* Mutant: the request hash is not compared.
AnswerRecorded_NoHash(r) == Answer(r, results[Identity(r)])

\* Answer from the recorded result of the same identity.
AnswerRecorded(r) ==
  LET t == results[Identity(r)] IN
  Answer(r, IF Same(t, r) THEN t ELSE "mismatch")

\* replay, before the transaction.
Replay(r) ==
  /\ pc[r] = "new"
  /\ IF results[Identity(r)] # NoRequest THEN AnswerRecorded(r) ELSE Goto(r, "check")
  /\ UNCHANGED <<saw, reaches, books, wallet, closing, goals>>

Usable(r, w) == wallet[w] = "active" /\ <<User(r), w>> \in Manages

\* Income, expense and transfer: the wallets are active and manageable.
CheckMove(r) ==
  /\ pc[r] = "check"
  /\ Kind(r) = "move"
  /\ IF \A w \in Touched(r) : Usable(r, w) THEN Goto(r, "insert") ELSE Answer(r, "missing")
  /\ UNCHANGED <<saw, reaches, books, wallet, closing, goals>>

CheckReverse(r) ==
  LET t == Reverses(r) IN
  /\ pc[r] = "check"
  /\ Kind(r) = "reverse"
  /\ \/ t \notin ledger /\ Answer(r, "missing")
     \/ t \in ledger /\ Kind(t) = "reverse" /\ Answer(r, "invalid")
     \/ t \in ledger /\ Kind(t) # "reverse" /\ Reversed(t) /\ Answer(r, "reversed")
     \/ /\ t \in ledger
        /\ Kind(t) # "reverse"
        /\ ~Reversed(t)
        /\ IF \A w \in Touched(r) : Usable(r, w) THEN Goto(r, "insert")
                                               ELSE Answer(r, "missing")
  /\ UNCHANGED <<saw, reaches, books, wallet, closing, goals>>

\* A contribution reads the goal first and does not ask whether the envelope
\* wallet is archived.
CheckContribute(r) ==
  LET g == Command[r].goal IN
  /\ pc[r] = "check"
  /\ Kind(r) = "contribute"
  /\ IF /\ goal[g] = "active"
        /\ <<User(r), Envelope[g]>> \in Manages
        /\ Usable(r, Command[r].from)
     THEN /\ saw' = [saw EXCEPT ![r] = [achieved |-> achieved[g], target |-> target[g]]]
          /\ Goto(r, "insert")
     ELSE /\ UNCHANGED saw
          /\ Answer(r, "missing")
  /\ UNCHANGED <<reaches, books, wallet, closing, goals>>

\* Mutant: the identity is locked by a transaction that only waits for it.
IdentityPending_Waiters(r) ==
  \E q \in Requests \ {r} : /\ Identity(q) = Identity(r)
                            /\ pc[q] \in {"record", "measure", "commit"}

\* Another transaction has inserted the same reverses_id, or the same command
\* identity, and has not committed.
ReversalPending(r) ==
  \E q \in Requests \ {r} : /\ Reverses(q) = Reverses(r)
                            /\ pc[q] \in {"record", "measure", "commit"}
IdentityPending(r) ==
  \E q \in Requests \ {r} : /\ Identity(q) = Identity(r)
                            /\ pc[q] \in {"measure", "commit"}

\* ledgerTransaction.create: the unique index on reverses_id decides between
\* two reversals of one transaction.
InsertTransaction(r) ==
  /\ pc[r] = "insert"
  /\ IF Reverses(r) = NoRequest
     THEN Goto(r, "record")
     ELSE /\ ~ReversalPending(r)
          /\ Goto(r, IF Reversed(Reverses(r)) THEN "conflict" ELSE "record")
  /\ UNCHANGED <<saw, reaches, books, wallet, closing, goals>>

\* financialCommandResult.create: the unique index on the identity decides
\* between two runs of one command.
InsertResult(r) ==
  /\ pc[r] = "record"
  /\ ~IdentityPending(r)
  /\ Goto(r, IF results[Identity(r)] # NoRequest THEN "conflict"
             ELSE IF Kind(r) = "contribute" THEN "measure" ELSE "commit")
  /\ UNCHANGED <<saw, reaches, books, wallet, closing, goals>>

\* Mutant: achievedAt is written outside the transaction.
Measure_Autocommit(r) ==
  /\ pc[r] = "measure"
  /\ achieved' = [achieved EXCEPT ![Command[r].goal] =
       @ \/ Balance(ledger \union {r}, Command[r].to) >= saw[r].target]
  /\ Goto(r, "commit")
  /\ UNCHANGED <<saw, reaches, books, wallet, closing, goal, target, lowest>>

\* The envelope's balance with the contribution's own, uncommitted, entries.
Measure(r) ==
  /\ pc[r] = "measure"
  /\ reaches' = [reaches EXCEPT ![r] =
       /\ ~saw[r].achieved
       /\ Balance(ledger \union {r}, Command[r].to) >= saw[r].target]
  /\ Goto(r, "commit")
  /\ UNCHANGED <<saw, books, wallet, closing, goals>>

\* Transaction, entries, result and achievedAt become visible together.
Persists(r) ==
  /\ pc[r] = "commit"
  /\ ledger'  = ledger \union {r}
  /\ results' = [results EXCEPT ![Identity(r)] = r]
  /\ achieved' = [g \in Goals |-> achieved[g] \/ (reaches[r] /\ g = Command[r].goal)]
  /\ UNCHANGED <<saw, reaches, wallet, closing, goal, target, lowest>>

Commit(r) == Persists(r) /\ Answer(r, r)

\* The database commits but the caller hears an error: the connection is lost
\* before the reply, and what is not a P2002 is thrown again.
CommitUnheard(r) == Persists(r) /\ Answer(r, "error")

\* P2002 rolled the transaction back: replay once more.
ReplayAfterConflict(r) ==
  /\ pc[r] = "conflict"
  /\ IF results[Identity(r)] # NoRequest
     THEN AnswerRecorded(r)
     ELSE Answer(r, IF Kind(r) = "reverse" THEN "reversed" ELSE "error")
  /\ UNCHANGED <<saw, reaches, books, wallet, closing, goals>>

\* Any query throws, a remaining validation refuses (currency, category,
\* private source), or the process dies: what was inserted is rolled back.
Fail(r) ==
  /\ pc[r] # "done"
  /\ Answer(r, "error")
  /\ UNCHANGED <<saw, reaches, books, wallet, closing, goals>>

Step(r) ==
  \/ Replay(r)
  \/ CheckMove(r) \/ CheckReverse(r) \/ CheckContribute(r)
  \/ InsertTransaction(r) \/ InsertResult(r) \/ Measure(r) \/ Commit(r)
  \/ ReplayAfterConflict(r)

-----------------------------------------------------------------------------
(***************************************************************************)
(* Wallets.  An archive reads the wallet and looks for an active goal      *)
(* before its transaction; the update re-checks only the wallet's version, *)
(* which every change of the wallet bumps.                                 *)
(***************************************************************************)
Envelopes == {Envelope[g] : g \in Goals}

Bump(w) == closing' = closing \ {w}

CreateWallet(w) ==
  /\ w \notin Envelopes
  /\ wallet[w] = "none"
  /\ wallet' = [wallet EXCEPT ![w] = "active"]
  /\ UNCHANGED <<request, books, closing, goals>>

UpdateWallet(w) ==
  /\ wallet[w] = "active"
  /\ w \in closing
  /\ Bump(w)
  /\ UNCHANGED <<request, books, wallet, goals>>

CheckArchiveWallet(w) ==
  /\ wallet[w] = "active"
  /\ \A g \in Goals : Envelope[g] = w => goal[g] # "active"
  /\ closing' = closing \union {w}
  /\ UNCHANGED <<request, books, wallet, goals>>

ArchiveWallet(w) ==
  /\ w \in closing
  /\ wallet' = [wallet EXCEPT ![w] = "archived"]
  /\ Bump(w)
  /\ UNCHANGED <<request, books, goals>>

RestoreWallet(w) ==
  /\ wallet[w] = "archived"
  /\ wallet' = [wallet EXCEPT ![w] = "active"]
  /\ Bump(w)
  /\ UNCHANGED <<request, books, goals>>

(***************************************************************************)
(* Goals.  Every change compares the version it read, so that the read and *)
(* the write act as one step; achievedAt does not take part in the version.*)
(***************************************************************************)

\* The goal and its envelope wallet are inserted together.
CreateGoal(g) ==
  /\ goal[g] = "none"
  /\ goal' = [goal EXCEPT ![g] = "active"]
  /\ wallet' = [wallet EXCEPT ![Envelope[g]] = "active"]
  /\ UNCHANGED <<request, books, closing, target, achieved, lowest>>

\* A new title renames the envelope and bumps its version; a new target is
\* not compared with the balance.
UpdateGoal(g) ==
  /\ goal[g] = "active"
  /\ \E t \in Targets :
       /\ target' = [target EXCEPT ![g] = t]
       /\ lowest' = [lowest EXCEPT ![g] = IF t < @ THEN t ELSE @]
  /\ closing' \in {closing, closing \ {Envelope[g]}}
  /\ UNCHANGED <<request, books, wallet, goal, achieved>>

ArchiveGoal(g) ==
  /\ goal[g] = "active"
  /\ goal' = [goal EXCEPT ![g] = "archived"]
  /\ UNCHANGED <<request, books, wallet, closing, target, achieved, lowest>>

RestoreGoal(g) ==
  /\ goal[g] = "archived"
  /\ wallet[Envelope[g]] # "archived"
  /\ goal' = [goal EXCEPT ![g] = "active"]
  /\ UNCHANGED <<request, books, wallet, closing, target, achieved, lowest>>

Next ==
  \/ \E r \in Requests : Step(r) \/ CommitUnheard(r) \/ Fail(r)
  \/ \E w \in Wallets : \/ CreateWallet(w) \/ UpdateWallet(w) \/ CheckArchiveWallet(w)
                        \/ ArchiveWallet(w) \/ RestoreWallet(w)
  \/ \E g \in Goals : CreateGoal(g) \/ UpdateGoal(g) \/ ArchiveGoal(g) \/ RestoreGoal(g)

Spec == Init /\ [][Next]_vars

\* A request that has started is run to its answer: awaits return, and an
\* insert that waits for another transaction resumes when that one ends.
FairSpec == Spec /\ \A r \in Requests : WF_vars(Step(r))

-----------------------------------------------------------------------------
(***************************************************************************)
(* Properties.                                                             *)
(***************************************************************************)

RequestOK ==
  /\ pc      \in [Requests -> Labels]
  /\ reply   \in [Requests -> Requests \union Refusals \union {"none"}]
  /\ saw     \in [Requests -> [achieved : BOOLEAN, target : Nat]]
  /\ reaches \in [Requests -> BOOLEAN]

BooksOK ==
  /\ ledger  \subseteq Requests
  /\ results \in [Identities -> Requests \union {NoRequest}]

WalletOK ==
  /\ wallet  \in [Wallets -> {"none", "active", "archived"}]
  /\ closing \subseteq Wallets
  /\ goal    \in [Goals -> {"none", "active", "archived"}]
  /\ target  \in [Goals -> Nat]
  /\ achieved \in [Goals -> BOOLEAN]
  /\ lowest  \in [Goals -> Nat]

\* The shape of the rows and of the requests' local state.
TypeOK == RequestOK /\ BooksOK /\ WalletOK

\* A transaction is reversed at most once and a reversal never is, however two
\* reversals race between reading the original and inserting.
ReversedOnce ==
  \A q \in ledger : Reverses(q) # NoRequest =>
    /\ Reverses(q) \in ledger
    /\ Kind(Reverses(q)) # "reverse"
    /\ \A p \in ledger : Reverses(p) = Reverses(q) => p = q

\* Retries are safe: two successful answers under one Idempotency-Key name the
\* same transaction, which carries their payload and is in the ledger.
RepliesAgree ==
  \A q, r \in Requests :
    Identity(q) = Identity(r) /\ {reply[q], reply[r]} \subseteq Requests =>
      /\ reply[q] = reply[r]
      /\ reply[q] \in ledger
      /\ Same(reply[q], r)

\* A request refused for a reason moved no money.  One that only failed may
\* have committed, and then its own retry will find the transaction.
RefusedLeavesNothing ==
  \A r \in ledger : reply[r] \in Refusals =>
    reply[r] = "error" /\ results[Identity(r)] = r

\* Every balance is what the commands left standing add up to: a reversal
\* cancels its original to the last unit and nothing is counted twice.
BalancesStand ==
  LET standing == {t \in ledger : Reverses(t) = NoRequest /\ ~Reversed(t)} IN
  \A w \in Wallets : Balance(ledger, w) = Balance(standing, w)

\* A goal is marked achieved only if at least the smallest target it ever had
\* was paid into its envelope and committed, even though the contribution reads
\* the target and the balance in different queries.
AchievedWasFunded ==
  \A g \in Goals : achieved[g] => Inflow(ledger, Envelope[g]) >= lowest[g]

\* Every request is answered: the waits on the two unique indexes never form a
\* cycle, because every transaction takes them in the same order.
Answered == \A r \in Requests : <>(pc[r] = "done")

-----------------------------------------------------------------------------
(***************************************************************************)
(* The ledger implements once-only execution of keyed commands.            *)
(***************************************************************************)
Once == INSTANCE OnceOnly WITH Undoes <- Reverses, Failure <- "error",
                               executed <- ledger, answer <- reply

OnceSpec == Once!Spec
=============================================================================
