SPECIFICATION Spec
CONSTANTS
    Clients = {c1, c2, c3}
    Nobody = Nobody
    Stations = {"0.0", "0.1"}
    Console = "0.0"
INVARIANTS PlacementsAgree ArrivalIsNoticed
PROPERTIES PlacementSurvives
SYMMETRY Interchangeable
