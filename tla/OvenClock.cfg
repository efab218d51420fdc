SPECIFICATION FairSpec
CONSTANTS
    Modes = {0, 1, 4}
    Turns = {1}
    OvenTemps = {1}
    Pins = {TRUE, FALSE}
    Doors = {FALSE}
    AdcMayFail = FALSE
    PowerMayFail = FALSE
    TicksPerLoop = 1
    CntMax = 1
    FirstTemp = 0
    FirstTempDry = 1
    safeTemperature = 2
    tempMax = 4
    tempPreOver = 1
    tempOtherOver = 0
    LowTemp = 0
    MidTemp = 0
    maxTotalTime = 1
    minTotalTime = 1
    SecPerMin = 2
    Byte = 16
    MinBase = 2
    Word = 2
INVARIANTS
    MinutesAreNoTemperature
PROPERTIES
    StopTakesEffect
    TimeLimited
    CountdownEnds
