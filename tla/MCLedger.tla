------------------------------ MODULE MCLedger ------------------------------
\* A small family: an ordinary wallet and one goal with its envelope, two
\* partners, and the command combinations in which requests can meet.
EXTENDS Reports, TLC

CONSTANTS spend, again, undo1, undo2, undoUndo, earn, pay1, pay2, undoPay

MCEnvelope == [g \in Goals |-> "envelope"]
\* The goal is ann's own, and her partner sees it; the purse is the family's.
MCManages  == ({"ann", "bob"} \X Wallets) \ {<<"bob", "envelope">>}
MCSees     == ({"ann", "bob"} \X Wallets) \union ({"kid"} \X (Wallets \ {"envelope"}))

Move(u, k, f, t, a) == [user |-> u, key |-> k, kind |-> "move", from |-> f, to |-> t,
                        amount |-> a, reverses |-> NoRequest, goal |-> NoGoal]
Undo(u, k, r)       == [user |-> u, key |-> k, kind |-> "reverse", from |-> External,
                        to |-> External, amount |-> 1, reverses |-> r, goal |-> NoGoal]
Pay(u, k, a)        == [user |-> u, key |-> k, kind |-> "contribute", from |-> "purse",
                        to |-> "envelope", amount |-> a, reverses |-> NoRequest,
                        goal |-> "trip"]

AllCommands ==
     spend    :> Move("ann", "k1", "purse", External, 2)
  @@ again    :> Move("ann", "k1", "purse", External, 2)   \* a retry of spend
  @@ undo1    :> Undo("ann", "k2", spend)
  @@ undo2    :> Undo("bob", "k1", spend)                  \* the partner undoes it too
  @@ undoUndo :> Undo("ann", "k1", undo1)                  \* the key reused, a reversal reversed
  @@ earn     :> Move("bob", "k3", External, "purse", 2)
  @@ pay1     :> Pay("ann", "k1", 1)
  @@ undoPay  :> Undo("ann", "k5", pay1)
  @@ pay2     :> Pay("ann", "k4", 1)

MCMonth    == [r \in Requests |-> IF r \in {undo1, undoPay} THEN "may" ELSE "april"]
MCCategory == [r \in Requests |-> CASE r \in {spend, again} -> "food"
                                   [] r = earn             -> "wages"
                                   [] OTHER                -> NoCategory]
MCKindOf   == "food" :> "EXPENSE" @@ "wages" :> "INCOME"

MCCommand == [r \in Requests |-> AllCommands[r]]
=============================================================================
