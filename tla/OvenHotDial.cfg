SPECIFICATION Spec
CONSTANTS
    Modes = {4}
    Turns = {30}
    OvenTemps = {60, 245}
    Pins = {TRUE, FALSE}
    Doors = {FALSE}
    AdcMayFail = FALSE
    PowerMayFail = FALSE
    TicksPerLoop = 0
    CntMax = 240
    FirstTemp = 180
    FirstTempDry = 70
    safeTemperature = 90
    tempMax = 240
    tempPreOver = 10
    tempOtherOver = 3
    LowTemp = 70
    MidTemp = 120
    maxTotalTime = 43200
    minTotalTime = 10800
    SecPerMin = 60
    Byte = 256
    MinBase = 256
    Word = 65536
INVARIANTS
    MinutesAreNoTemperature
