SPECIFICATION Spec
CONSTANTS
    Unset = Unset
    Drafts <- MCDrafts
    Temps <- MCTemps
    TargetMin = 0
    TargetMax = 7
    SafeDuty = 5
    Floor = 1
    MaxUnconfirmed = 2
    MaxLag = 1
    MaxAge = 2
    MaxEdits = 1
    Overlapping = FALSE
INVARIANTS
    TypeOK
    NeverSteersBlind
    CoolingFollowsCurve
PROPERTIES
    ReopensAfresh
CHECK_DEADLOCK FALSE
