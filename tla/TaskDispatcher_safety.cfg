SPECIFICATION Spec
CONSTANTS
    t9 = t9
    t2 = t2
    t3 = t3
    own = own
    signal = signal
    Tasks <- MCTasks
    CommandTask = t9
    None = None
    Keys = {signal}
    Multi = {signal}
    ConditionKey = signal
    AnyEvent = AnyEvent
    Masks = {m1}
    InitialPriority <- MCInitialPriority
    Bias <- MCBias
    Requested = {8}
    AtIdle = {"completion", "status"}
    WhileRunning = {"completion", "condition"}
    Unawaited = FALSE
    Elements = 1
    SignificantDigits = 2
    LongestString = 2
INVARIANTS RunsWhoCan RunsOwnContext QueueIsRight NoEventLost InstructionsAreRight BasicIsRight
PROPERTIES ReadiedPreempts
CHECK_DEADLOCK FALSE
