SPECIFICATION EitherSpec

CONSTANTS
  shoes = shoes
  coats = coats
  watchdog = watchdog
  nobody = nobody
  direct = direct
  proxy = proxy
  Search = {shoes, coats}
  Watchdog = watchdog
  Nobody = nobody
  Proxy = {proxy}
  Direct = direct
  MaxProfiles = 1
  MaxSessions = 1
  MaxHold = 2
  MaxCrashes = 1
  ann = ann
  p = p
  q = q
  Address = {ann}
  MaxDestination = 2
  Pairer = {p, q}

SYMMETRY AllInterchangeable
CONSTRAINT FewAtOnce

INVARIANTS
  IInv
  OneBootstrap
  AnnouncedOnce
  OneWaiting

PROPERTIES
  HoldNeverShortened
  HeardWhereConnected
