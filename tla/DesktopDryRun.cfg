SPECIFICATION Spec
CONSTANTS
    NoFile = NoFile
    Torn = Torn
    NoDraft = NoDraft
    NoChange = NoChange
    Drafted = {"auto"}
    Flags = {TRUE}
    CloseEnds = TRUE
    MaxEvents = 1
    MaxLives = 1
INVARIANT DryRunIsNotPersisted
CHECK_DEADLOCK FALSE
