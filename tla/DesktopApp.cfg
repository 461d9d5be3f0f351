SPECIFICATION Spec
CONSTANTS
    NoFile = NoFile
    Torn = Torn
    NoDraft = NoDraft
    NoChange = NoChange
    Drafted = {"auto"}
    Flags = {FALSE}
    CloseEnds = TRUE
    MaxEvents = 2
    MaxLives = 2
INVARIANTS SettingsAreSafe ExitHandsBack StartIsTrue
PROPERTIES QuitEnds
\* A process that has ended for the last time is at rest.
CHECK_DEADLOCK FALSE
