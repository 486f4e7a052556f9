SPECIFICATION Spec

CONSTANTS
  chat = chat
  Item = {"a","b"}
  Destination = {chat}
  KindOf <- MCTelegram
  PriceDrop = {}
  Verdict = {}
  NoVerdict = "none"
  UnderFloor = {}
  Hot = {}
  Hold = FALSE
  MAX_ATTEMPTS = 2
  MaxBatch <- MCTwo
  STACK_THRESHOLD = 1
  DIGEST_THRESHOLD = 1
  Unpaired = {chat}
  Misconfigured = {}
  SenderMayRaise = TRUE
  Deletable = {chat}
  Prunable = {}
  MaxCrashes = 1
  MaxWindows = 0

INVARIANTS
  IInv
  LeaseHeld
  SentWasAccepted
  DuplicatesExplained
  NothingCancelledIsSent

PROPERTIES
  LedgerKept

CHECK_DEADLOCK FALSE
