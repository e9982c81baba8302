SPECIFICATION Spec
CONSTANTS
  spend = spend
  again = again
  undo1 = undo1
  undo2 = undo2
  undoUndo = undoUndo
  earn = earn
  pay1 = pay1
  pay2 = pay2
  undoPay = undoPay
  Requests = {earn, pay1, pay2, undoPay}
  Wallets = {"purse", "envelope"}
  Goals = {"trip"}
  Targets = {2, 3}
  Command <- MCCommand
  Envelope <- MCEnvelope
  External = External
  Manages <- MCManages
  NoRequest = NoRequest
  NoGoal = NoGoal
  Month <- MCMonth
  Category <- MCCategory
  KindOf <- MCKindOf
  NoCategory = NoCategory
  Sees <- MCSees
INVARIANTS
  AchievedWasFunded
  ReportsAgree
CHECK_DEADLOCK FALSE
