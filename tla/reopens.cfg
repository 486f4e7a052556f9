SPECIFICATION SiteAlone

CONSTANTS
  shoes = shoes
  coats = coats
  watchdog = watchdog
  nobody = nobody
  direct = direct
  proxy = proxy
  Search = {shoes, coats}
  Watchdog = watchdog
  Nobody = nobody
  Proxy = {}
  Direct = direct
  MaxProfiles = 0
  MaxSessions = 1
  MaxHold = 2
  MaxCrashes = 0
  ann = ann
  p = p
  q = q
  Address = {}
  MaxDestination = 0
  Pairer = {}

PROPERTIES
  ChecksEnd
  SiteReopens
