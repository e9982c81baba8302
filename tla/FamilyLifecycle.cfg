SPECIFICATION Spec
CONSTANTS
  ann = ann
  bob = bob
  cat = cat
  annBob = annBob
  bobAnn = bobAnn
  annCat = annCat
  catBob = catBob
  annLeaves = annLeaves
  bobLeaves = bobLeaves
  annRequests = annRequests
  bobConfirms = bobConfirms
  annCancels = annCancels
  bobArchives = bobArchives
  annRestores = annRestores
  Users = {ann, bob, cat}
  Invites = {annBob, annCat, catBob}
  Families = {1, 2}
  Calls = {annLeaves, bobLeaves, annRequests, bobConfirms, annCancels, bobArchives, annRestores}
  Sender <- MCSender
  Recipient <- MCRecipient
  Private <- MCPrivate
  Caller <- MCCaller
  Op <- MCOp
  NoFamily = NoFamily
  NoCall = NoCall
INVARIANTS
  MembersAreNotInvited
  FoundedByInvitation
  DissolutionNeedsBoth
  EmptyAccounted
CHECK_DEADLOCK FALSE
