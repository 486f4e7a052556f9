SPECIFICATION Spec

CONSTANTS
  Search = {"shoes","coats"}
  Item = {"newer"}
  Destination = {"phone","desk"}
  Routes <- MCApart
  Matches <- MCMatches
  SellerGated <- MCNoGate
  MarketCapped = {}
  Ts <- MCTs
  Price = {1}
  Listed <- MCListed
  Drop = {}
  FirstRunMode = "silent"
  MaxNotify = 1
  Deletable = {}
  Prunable = {}
  Repriced = {}
  MaxCrashes = 0

INVARIANTS
  ToldByOneSearch
