SPECIFICATION DashboardSpec

CONSTANTS
  Run = {"r1", "r2"}
  Listing = {"a", "b", "c"}
  Stock <- MCStock
  TitleRank <- MCTitleRank
  Eligible = {"a", "b", "c"}
  PerPage = 2
  MaxPages = 2
  MaxItems = 2
  BatchSize = 1
  MaxVerdicts = 1
  MaxStops = 1
  Client = {"c"}
  Attempts = 2
  Window = 3
  Cooldown = 2
  MaxCooldown = 4
  MaxClock = 12
  MaxWrong = 6
  Query = {"here", "abroad"}
  Destination = {"chat"}
  Login = {"ada"}
  Tab = {"one", "two"}
  MaxClones = 1

CONSTRAINT FewAtOnce

INVARIANTS
  SweepIInv
  BillIsWhole
  OpinionsForTheBest
  GuessesArePaced
  SaveSettles

PROPERTIES
  FinalIsFinal
  EndpointFrees

CHECK_DEADLOCK FALSE
