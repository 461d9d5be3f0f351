SPECIFICATION FairSpec
CONSTANTS
  c1 = c1
  c2 = c2
  None = None
  Rules <- TwoRules
  Channels <- OneChannel
  RetryTicks = 3
  MaxAttempts = 3
  OwnerWaitTicks = 2
  MaxUnconfirmed = 2
  UserOps = {"save", "delete", "automation"}
  MaxEdits = 5
  MaxCrashes = 0
  Overlapping = FALSE
INVARIANTS
  TypeOK Accountable RecordCoversOwed NoFightWithClaimant
PROPERTIES SpentStaysParked
\* An engine whose automation is switched off, with the edits used up, stops.
CHECK_DEADLOCK FALSE
