SPECIFICATION Spec
CONSTANTS
    Classes = 3
    RoundTo = 1
    Header = 1
    Initial = 5
    Segment = 8
    Ceiling = 13
    Sizes = {1, 3, 5}
    TrackIds = FALSE
INVARIANTS PoolIntact FreeAccepted RestoreKeepsStorage
PROPERTIES ImplementsAreaPool
