SPECIFICATION FairSpec
CONSTANTS
    N = 2
    Modes = {{{}, {1}}}
    Slips = {"masked"}
    FaultMax = 1
    MaxRaces = 1
    Word = 8
    pulseValid = 1
    timeout = 4
INVARIANTS
    TypeOK
    HealthyIsQuiet
    HealthyKeepsSupply
PROPERTIES
    WeldIsCutOff
    BreakIsShown
