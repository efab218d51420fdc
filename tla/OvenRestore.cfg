SPECIFICATION Spec
CONSTANTS
    Modes = {0, 4}
    Turns = {}
    OvenTemps = {60}
    Pins = {TRUE, FALSE}
    Doors = {FALSE}
    AdcMayFail = FALSE
    PowerMayFail = TRUE
    TicksPerLoop = 0
    CntMax = 240
    FirstTemp = 180
    FirstTempDry = 70
    safeTemperature = 90
    tempMax = 240
    tempPreOver = 10
    tempOtherOver = 3
    LowTemp = 70
    MidTemp = 120
    maxTotalTime = 43200
    minTotalTime = 10800
    SecPerMin = 60
    Byte = 256
    MinBase = 256
    Word = 65536
INVARIANTS
    HeatIsCommanded
