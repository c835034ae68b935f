\* Two invocations of a session.
SPECIFICATION MCSpec
CONSTANTS
    r1 = r1
    r2 = r2
    Run = {r1, r2}
    Earlier = 2
    Window = 2
    None = None
    LockTtl = 2
    Beat = 1
    MaxSteps = 1
    MaxFaults = 1
    MaxCancels = 1
    MaxStops = 1
    MaxCrashes = 1
INVARIANTS
    OneStreamPerSession
    CancelsAreOwn
    RunningMeansRunning
PROPERTIES
    MessagesKept
SYMMETRY RunSymmetry
CHECK_DEADLOCK FALSE
