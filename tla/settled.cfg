SPECIFICATION FairSpec

CONSTANTS
  chat = chat
  Item = {"a"}
  Destination = {chat}
  KindOf <- MCDiscord
  PriceDrop = {}
  Verdict = {"hot","poor"}
  NoVerdict = "none"
  UnderFloor = {"poor"}
  Hot = {"hot"}
  Hold = TRUE
  MAX_ATTEMPTS = 2
  MaxBatch <- MCTwo
  STACK_THRESHOLD = 1
  DIGEST_THRESHOLD = 1
  Unpaired = {}
  Misconfigured = {}
  SenderMayRaise = TRUE
  Deletable = {chat}
  Prunable = {"a"}
  MaxCrashes = 1
  MaxWindows = 1

INVARIANTS
  FollowUpAfterAlert

PROPERTIES
  FloorHonoured
  EventuallyServed
  NothingWaitsForever

CHECK_DEADLOCK FALSE
