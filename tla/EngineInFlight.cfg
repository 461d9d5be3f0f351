SPECIFICATION FairSpec
CONSTANTS
  c1 = c1
  c2 = c2
  None = None
  Rules <- OneRule
  Channels <- OneChannel
  RetryTicks = 2
  MaxAttempts = 2
  OwnerWaitTicks = 1
  MaxUnconfirmed = 2
  UserOps = {"save", "delete"}
  MaxEdits = 3
  MaxCrashes = 0
  Overlapping = TRUE
INVARIANTS Accountable
CHECK_DEADLOCK FALSE
