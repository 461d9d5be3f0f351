SPECIFICATION Spec
CONSTANTS
  c1 = c1
  c2 = c2
  None = None
  Rules <- OneRule
  Channels <- TwoChannels
  RetryTicks = 2
  MaxAttempts = 2
  OwnerWaitTicks = 1
  MaxUnconfirmed = 2
  UserOps = {"save", "delete", "reload", "save_fails"}
  MaxEdits = 2
  MaxCrashes = 1
  Overlapping = FALSE
PROPERTIES OwedUntilSettled
