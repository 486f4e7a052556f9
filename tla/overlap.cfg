SPECIFICATION FairSpec

CONSTANTS
  Search = {"shoes","coats"}
  Item = {"newer"}
  Destination = {"phone"}
  Routes <- MCShared
  Matches <- MCMatches
  SellerGated <- MCNoGate
  MarketCapped = {}
  Ts <- MCTs
  Price = {1}
  Listed <- MCListed
  Drop = {}
  FirstRunMode = "newest"
  MaxNotify = 1
  Deletable = {"phone"}
  Prunable = {}
  Repriced = {}
  MaxCrashes = 1

PROPERTIES
  FindingsKept
  SearchesKeepRunning
