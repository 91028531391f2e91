SPECIFICATION Spec
CONSTANTS
    Stations = {W2}
    Console = W1
    Verbs = {"inspect", "send", "step", "start", "ipl", "stop", "wait", "quit"}
INVARIANTS OneDriver NoLostWakeup IdleReportFresh
CHECK_DEADLOCK FALSE
