SPECIFICATION AdaptersSpec
CONSTANTS
    c1 = c1
    c2 = c2
    i1 = i1
    i2 = i2
    board = board
    card = card
    t1 = t1
    t2 = t2
    t3 = t3
    k1 = k1
    k2 = k2
    k3 = k3
    package = package
    tctl = tctl
    tcal = tcal
    root = root
    home = home
    stick = stick
    disk = disk
    Platforms <- MCAll
    Unset = Unset
    MaxFans = 2
    MaxPumps = 1
    Profiles <- MCProfiles
    Ambients <- MCAmbients
    Faults <- MCFaults
    MockDrafts <- MCMockDrafts
    Requests <- MCRequests
    Steps <- MCSteps
    MaxMoves = 2
    Chips <- MCChips
    Ids <- MCIds
    IdOf <- MCIdOf
    Allowed <- MCAllowed
    Percents <- MCPercents
    Mishaps = 3
    ScanFaults = FALSE
    Hardware <- MCHardware
    Tachs <- MCTachs
    Controls <- MCControls
    HwOf <- MCHwOf
    KeyOf <- MCKeyOf
    NameNo <- MCNameNo
    PathNo <- MCPathNo
    Fan <- MCFan
    Unsteady <- MCUnsteady
    Pumps <- MCPumps
    RuleDuties <- MCDuties
    VendorDuties <- MCVendor
    Tolerance = 1
    Zones <- MCZones
    Volumes <- MCVolumes
    CpuScore <- MCCpuScore
    Useful <- MCUseful
    Derived <- MCDerived
    Removable <- MCRemovable
    DriveOf <- MCDriveOf
    Fickle <- MCFickle
    MaxZones = 1
CHECK_DEADLOCK FALSE
INVARIANTS
    ModesAreReturned
    AccessIsSound
    MappingIsSound
PROPERTIES
    AnswersAreTrue
