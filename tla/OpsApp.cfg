\* A searching client while three records are written twice, the schedule of two
\* records, and a client that browses the rules.
SPECIFICATION MCSpec
CONSTANTS
  Id = {1, 2, 3}
  Nothing = Nothing
  Draft <- MCDraft
  NewStatus = {"active"}
  Query <- MCQuery
  PageSize = {0, 3}
  DefaultSize = 1
  MaxSize = 2
  ExportSize = 3
  Digit = 2
  MaxWrites = 2
  Inspected = {"x", "y"}
  NoAnswer = NoAnswer
  tab = tab
  Tab = {tab}
  PostId = {"art-001", "art-003"}
  PostStatus = {"stable", "lost"}
  MaxChanges = 3
  MaxLoads = 3
INVARIANTS
  QuietWalkListsMatches
  WalkMissesOnlyAfterLeaving
  BrowsingShowsEveryRule
  ConfirmedIsShown
PROPERTY
  AlertsOnlyAdvance
