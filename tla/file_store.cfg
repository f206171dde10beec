\* Three states saved over and over, with up to three crashes and power losses.
CONSTANTS
    s1 = s1
    s2 = s2
    s3 = s3
    States <- MCStates
    Empty = Empty
    Torn = Torn
    MaxLosses = 3
SPECIFICATION Spec
INVARIANTS
    TypeOK
    AllOrNothing
    TempIsDisposed
PROPERTIES
    IsAtomic
SYMMETRY MCSymmetry
