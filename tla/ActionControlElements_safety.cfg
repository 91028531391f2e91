SPECIFICATION AceSpec
CONSTANTS
    Classes = 3
    RoundTo = 1
    Header = 1
    Initial = 7
    Segment = 8
    Ceiling = 7
    TrackIds = TRUE
    Units = 2
    Sizes = {2}
    MaxIds = 4
INVARIANTS  HostStateIsOwn NothingLeaks
