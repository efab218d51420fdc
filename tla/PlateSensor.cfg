SPECIFICATION FairSpec
CONSTANTS
    Temps = {40, 72}
    PowerOn = 85
    Limits = 75
INVARIANTS
    TypeOK
    CommandsInStep
PROPERTIES
    ReturnsUnlessLow
    ShowsAfterRepair
