SPECIFICATION Spec
CONSTANTS
    N = 3
    Value = {0, 1}
    Zero = 0
INVARIANTS
    TypeOK
    Coherent
    TransferExact
    FreshIsBlank
PROPERTY Refinement
