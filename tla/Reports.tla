------------------------------- MODULE Reports --------------------------------
(***************************************************************************)
(* What the family is told of its ledger: the cash flow and balances of    *)
(* FinancialAnalyticsService, the categories and budgets of                *)
(* FinancialSummaryService and the totals of ExpenseStatisticsService.     *)
(*                                                                         *)
(* Each is a query of the committed ledger, followed by sums; the three    *)
(* select and sign transactions differently.  A report over months ms      *)
(* takes the transactions with occurredAt in them.  Currencies are left    *)
(* out: every sum is kept per currency.  Recurring payments, which the     *)
(* cash flow adds as a forecast, are in Schedules.                         *)
(***************************************************************************)
EXTENDS Ledger

CONSTANTS
  Month,       \* the month of each command's occurredAt, chosen by the client
  Category,    \* the category named by each income or expense, or NoCategory
  KindOf,      \* INCOME or EXPENSE, of each category
  NoCategory,
  Sees         \* <<reader, wallet>> for which visibleTo holds

Categories == DOMAIN KindOf
Readers    == {x[1] : x \in Sees}
Months     == {Month[r] : r \in Requests}

\* The type column: a contribution is a transfer, too.
Type(t) ==
  CASE Kind(t) = "reverse"                            -> "REVERSAL"
    [] Kind(t) = "move" /\ Command[t].from = External -> "INCOME"
    [] Kind(t) = "move" /\ Command[t].to = External   -> "EXPENSE"
    [] OTHER                                          -> "TRANSFER"

ASSUME ReportsAssumption ==
  /\ Month = [r \in Requests |-> Month[r]]
  /\ Category \in [Requests -> Categories \union {NoCategory}]
  /\ KindOf \in [Categories -> {"INCOME", "EXPENSE"}]
  /\ NoCategory \notin Categories
  /\ Sees \subseteq Readers \X Wallets
  /\ Manages \subseteq Sees
  /\ IsFiniteSet(Sees)
  \* createWalletCommand refuses a category of the other kind, and no other
  \* command names one.
  /\ \A r \in Requests : Category[r] # NoCategory => KindOf[Category[r]] = Type(r)

\* The sum of the entries that are on a wallet.
Amount(t) == LET p == Posting(t) IN
             (IF p.to \in Wallets THEN p.amount ELSE 0) - (IF p.from \in Wallets THEN p.amount ELSE 0)

Total(T) == SumFunctionOnSet([t \in Requests |-> Amount(t)], T)

In(T, ms) == {t \in T : Month[t] \in ms}

\* A reversal carries the category of its original.
CategoryOf(t) == IF Kind(t) = "reverse" THEN Category[Reverses(t)] ELSE Category[t]

Shows(u) == {w \in Wallets : <<u, w>> \in Sees}

\* Mutant: one wallet that is seen is enough.
Visible_Any(u) == {t \in ledger : Touched(t) \intersect Shows(u) # {}}

\* visibleWhere: every wallet of the transaction is one the reader sees.
Visible(u) == {t \in ledger : Touched(t) \subseteq Shows(u)}

(***************************************************************************)
(* FinancialAnalyticsService: the actual cash flow, and what the wallets   *)
(* hold, as far as the transactions are visible.                           *)
(***************************************************************************)
Flow(u, ms) == In({t \in Visible(u) : Type(t) \in {"INCOME", "EXPENSE", "REVERSAL"}}, ms)

Income(u, ms)  == Total({t \in Flow(u, ms) : Amount(t) >= 0})
Expense(u, ms) == -Total({t \in Flow(u, ms) : Amount(t) < 0})

CurrentBalance(u) == SumFunction([w \in Shows(u) |-> Balance(Visible(u), w)])

(***************************************************************************)
(* FinancialSummaryService: what was spent or earned in a category, which  *)
(* a budget is compared with.                                              *)
(***************************************************************************)
Actual(u, c, ms) ==
  LET sum == Total({t \in Flow(u, ms) : CategoryOf(t) = c}) IN
  IF KindOf[c] = "EXPENSE" THEN -sum ELSE sum

(***************************************************************************)
(* ExpenseStatisticsService, for partners: all wallets, expenses and the   *)
(* reversals of expenses, which count for the author of the original.      *)
(***************************************************************************)

\* Mutant: reversals of expenses are left out.
Spending_NoReversals == {t \in ledger : Type(t) = "EXPENSE"}

Spending == {t \in ledger : \/ Type(t) = "EXPENSE"
                            \/ Type(t) = "REVERSAL" /\ Type(Reverses(t)) = "EXPENSE"}

Author(t) == IF Kind(t) = "reverse" THEN User(Reverses(t)) ELSE User(t)

Statistics(a, c, ms) == -Total({t \in In(Spending, ms) : Author(t) = a /\ CategoryOf(t) = c})

-----------------------------------------------------------------------------
(***************************************************************************)
(* Properties.                                                             *)
(***************************************************************************)
\* What the months of a report add up to.
OverallFlow(u)      == SumFunction([m \in Months |-> Income(u, {m}) - Expense(u, {m})])
OverallActual(u, c) == SumFunction([m \in Months |-> Actual(u, c, {m})])
OverallSpent(a, c)  == SumFunction([m \in Months |-> Statistics(a, c, {m})])

\* The three reports tell the same of one ledger, although each selects and
\* signs transactions in its own way: the cash flows of the months add up to
\* the balances that are shown, also for a reader who does not see all wallets;
\* whoever sees them all finds in each category of expenses what the authors are
\* said to have spent; and nobody is said to have spent what was reversed.
ReportsAgree ==
  LET standing == {t \in ledger : Reverses(t) = NoRequest /\ ~Reversed(t)} IN
  /\ \A u \in Readers : OverallFlow(u) = CurrentBalance(u)
  /\ \A c \in Categories : KindOf[c] = "EXPENSE" =>
       /\ \A u \in Readers : Shows(u) = Wallets =>
            OverallActual(u, c) = SumFunction([a \in Readers |-> OverallSpent(a, c)])
       /\ \A a \in Readers :
            OverallSpent(a, c) = -Total({t \in standing : Type(t) = "EXPENSE" /\ User(t) = a
                                                            /\ Category[t] = c})
===============================================================================
