SPECIFICATION Spec
CONSTANTS
    NoRecord = NoRecord
    NoAnswer = NoAnswer
    NoAdapter = NoAdapter
    lhm = lhm
    nvidia = nvidia
    lhmCard = lhmCard
    nvmlCard = nvmlCard
    Order <- MCOrder
    YieldsTo <- MCYieldsTo
    DevicesOf <- MCDevicesOf
    Nvml <- MCNvml
    Fans <- MCFans
    HandsBack <- MCHandsBack
    Runners = {"loop", "user"}
    MaxEvents = 2
    MaxFaults = 1
INVARIANTS TypeOK NothingStaysDriven
PROPERTIES CardIsReported
\* A runtime that has stopped is at rest.
CHECK_DEADLOCK FALSE
