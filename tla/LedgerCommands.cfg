SPECIFICATION FairSpec
CONSTANTS
  spend = spend
  again = again
  undo1 = undo1
  undo2 = undo2
  undoUndo = undoUndo
  earn = earn
  pay1 = pay1
  pay2 = pay2
  undoPay = undoPay
  Requests = {spend, again, undo1, undo2, undoUndo}
  Wallets = {"purse"}
  Goals = {}
  Targets = {1}
  Command <- MCCommand
  Envelope <- MCEnvelope
  External = External
  Manages <- MCManages
  NoRequest = NoRequest
  NoGoal = NoGoal
  Month <- MCMonth
  Category <- MCCategory
  KindOf <- MCKindOf
  NoCategory = NoCategory
  Sees <- MCSees
INVARIANTS
  BalancesStand
  ReportsAgree
PROPERTIES
  OnceSpec
  Answered
CHECK_DEADLOCK FALSE
