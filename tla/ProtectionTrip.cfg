SPECIFICATION Spec
CONSTANTS
    N = 3
    Modes = {{{1}, {1, 2}}}
    Slips = {}
    FaultMax = 1
    MaxRaces = 0
    Word = 32
    pulseValid = 1
    timeout = 4
INVARIANT
    TripMeansWeld
