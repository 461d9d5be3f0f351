SPECIFICATION Spec
CONSTANTS
    None = None
    pump = pump
    rule = rule
    Devices <- OneDevice
    Type <- PumpType
    Outputs <- OneDevice
    Thermal <- OneDevice
    Callers <- OneCaller
    Limits <- RampedLimits
    Temperatures <- CoolAndHot
    Requests <- OnlyLow
    Scanning = TRUE
    FirmwareDuty = 0
    MaxEvents = 3
    MaxFaults = 1
\* A runtime that has stopped is at rest.
CHECK_DEADLOCK FALSE
INVARIANTS TypeOK ReportIsTrue SwitchIsKept
PROPERTIES FloorHolds HeatIsAnswered
