SPECIFICATION FairSpec
CONSTANTS
  c1 = c1
  c2 = c2
  None = None
  Rules <- TwoRules
  Channels <- OneChannel
  RetryTicks = 2
  MaxAttempts = 2
  OwnerWaitTicks = 1
  MaxUnconfirmed = 1
  UserOps = {"save", "delete", "delete_fails", "retry", "dry_run", "reload"}
  MaxEdits = 4
  MaxCrashes = 0
  Overlapping = TRUE
INVARIANTS OneRulePerOutput HandoversPaced
PROPERTIES HandoversDecided
