SPECIFICATION PlannerSpec
CONSTANTS
  ann = ann
  bob = bob
  q1 = q1
  q2 = q2
  c1 = c1
  c2 = c2
  Partners <- MCPartners
  Requests <- MCRequests
  Workers = {w1}
  Events = {party}
  Wishes = {trip}
  Meetings = {budget}
  Couples = {talk}
  Nobody = nobody
  Unset = unset
  Nowhere = nowhere
  Devices <- MCRequests
  Choices <- MCChoices
  Horizon = 2
  Leads = {0, 1}
  MaxVersion = 4
  MaxItems = 1
  Clients = {ann, bob}
  Recipes = {soup}
  Plans = {dinner}
  Lists = {shop, market}
  Tasks = {chore}
  Manual = {bread}
  Names = {"salt"}
  Slots = {"sunday"}
  Given = {shop, market}
  MaxWrites = 3
  MaxOps = 5
  People <- MCPartners
  Families = {"north", "south"}
  Scopes = {"mood", "stress"}
  CheckIns = {"first", "second"}
  MaxDay = 1
  MaxSteps = 4
  Recipients <- MCPartners
  Chats <- MCChats
  NoChat = nochat
  Notices = {"birthday"}
  Callers <- MCRequests
  Zones <- MCZones
  Day = 8
  Window = 2
  Patches <- MCPatches
  Initial <- MCInitial
  FirstMoment = 11
  LastMoment = 22
  MaxTokens = 1
  MaxCommands = 3
SYMMETRY MCSymmetry
INVARIANTS
  RowsAgree
  ReminderReachesChosen
  RecipesWhole
  IfMatchHolds
  SharedIsGranted
  NoticesAreWanted
CHECK_DEADLOCK FALSE
