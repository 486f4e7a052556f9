SPECIFICATION ChoresSpec

CONSTANTS
  Url = {"shoes", "coats"}
  MaxId = 2
  MaxRevision = 1
  MaxSecond = 1
  Seller = {"ada", "eve"}
  Piece = {"old", "mid", "new", "other"}
  SellerOf <- MCSellerOf
  Matching = {"old", "other"}
  Newness <- MCNewness
  PiecesPerPage = 1
  PageCap = 2
  SellersPerCycle = 2
  MaxTroubles = 1
  Search = {"shoes", "coats"}
  SiteOf <- MCSiteOf
  Patience = 2
  Rotates = TRUE
  MaxRestarts = 1
  Asked = {"a", "b", "c"}
  Streak = 2
  MaxSlots = 2
  MaxUpsets = 1
  Asker = {"p", "q"}
  Spacing = 2
  Burst = 2
  MaxTime = 7
  MaxGrants = 6
  Process = {"app", "cli"}
  Latest = 3
  Statements <- MCStatements
  Rebuilds = {2}
  MaxKills = 2

INVARIANTS
  ChoresTypeOK
  VersionIsHonest
  RateHeld

PROPERTIES
  SteadyIsKept
  GoneIsNoticed
  TasksFollowTable
  SilenceIsTold
  WarnedOnce
  NothingRepeated

CHECK_DEADLOCK FALSE
