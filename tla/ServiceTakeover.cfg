SPECIFICATION FairSpec
CONSTANTS
  s1 = s1
  s2 = s2
  s3 = s3
  d1 = d1
  None = None
  Absent = Absent
  Services <- TwoServices
  Desktops <- OneDesktop
  Tolerance = 1
  Originals = {"automatic", "curve"}
  PidCheck = FALSE
  Racing = FALSE
  Faults = {"crash", "freeze", "disk"}
INVARIANTS TypeOK OneClaim RecordIsTrue HandedBack
PROPERTIES LiveRecordKept LoserStandsDown
\* Every process runs once: the last behaviour of all is that none is left.
CHECK_DEADLOCK FALSE
