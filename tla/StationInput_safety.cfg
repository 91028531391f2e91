SPECIFICATION Spec
CONSTANTS
    Clients = {c1, c2}
    Nobody = Nobody
    InboundLimit = 1
    SaveLimit = 1
    RecordKinds = {"input", "short"}
    Operations = {"invite", "read", "c1"}
INVARIANTS StatusIsItsOwn HangUpReported
SYMMETRY Interchangeable
