SPECIFICATION FairSpec
CONSTANTS
    Stations = {W2}
    Console = W1
    Verbs = {"step", "stop"}
PROPERTIES CommandAnswered StopTerminates AttentionInspected
CHECK_DEADLOCK FALSE
