SPECIFICATION Spec

CONSTANTS
  chat = chat
  Item = {"a"}
  Destination = {chat}
  KindOf <- MCTelegram
  PriceDrop = {}
  Verdict = {"hot"}
  NoVerdict = "none"
  UnderFloor = {}
  Hot = {"hot"}
  Hold = TRUE
  MAX_ATTEMPTS = 2
  MaxBatch <- MCTwo
  STACK_THRESHOLD = 1
  DIGEST_THRESHOLD = 1
  Unpaired = {}
  Misconfigured = {}
  SenderMayRaise = FALSE
  Deletable = {}
  Prunable = {}
  MaxCrashes = 0
  MaxWindows = 0

PROPERTIES
  LateHotVerdictFollowsUp

CHECK_DEADLOCK FALSE
