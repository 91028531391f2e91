SPECIFICATION FairSpec
CONSTANTS
    Clients = {c1, c2}
    Nobody = Nobody
    InboundLimit = 1
    SaveLimit = 1
    RecordKinds = {"save", "control"}
    Operations = {"save"}
PROPERTY HangUpNoticed
