SPECIFICATION Spec

CONSTANTS
  Search = {"shoes"}
  Item = {"older","newer","bare"}
  Destination = {"phone"}
  Routes <- MCShared
  Matches <- MCMatches
  SellerGated <- MCGated
  MarketCapped = {"shoes"}
  Ts <- MCTs
  Price = {1,2}
  Listed <- MCListed
  Drop <- MCFalls
  FirstRunMode = "silent"
  MaxNotify = 1
  Deletable = {"phone"}
  Prunable = {"newer","bare"}
  Repriced = {"bare"}
  MaxCrashes = 0

INVARIANTS
  IInv
  SilentStaysSilent

PROPERTIES
  FindingsKept
  CheckSettlesPage
