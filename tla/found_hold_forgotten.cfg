SPECIFICATION Spec

CONSTANTS
  shoes = shoes
  coats = coats
  watchdog = watchdog
  nobody = nobody
  direct = direct
  proxy = proxy
  Search = {shoes, coats}
  Watchdog = watchdog
  Nobody = nobody
  Proxy = {}
  Direct = direct
  MaxProfiles = 1
  MaxSessions = 2
  MaxHold = 2
  MaxCrashes = 1

INVARIANTS
  HoldSurvivesRestart
