SPECIFICATION Spec
CONSTANTS
    Modes = {4}
    Turns = {1}
    OvenTemps = {2}
    Pins = {TRUE, FALSE}
    Doors = {FALSE}
    AdcMayFail = FALSE
    PowerMayFail = FALSE
    TicksPerLoop = 1
    CntMax = 3
    FirstTemp = 3
    FirstTempDry = 1
    safeTemperature = 2
    tempMax = 4
    tempPreOver = 1
    tempOtherOver = 0
    LowTemp = 1
    MidTemp = 2
    maxTotalTime = 2
    minTotalTime = 1
    SecPerMin = 2
    Byte = 16
    MinBase = 2
    Word = 4
INVARIANTS
    CountdownFromDial
