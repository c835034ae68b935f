\* Two workers, one task, its API, a failed call and a death.
SPECIFICATION Spec
CONSTANTS
    w1 = w1
    w2 = w2
    t1 = t1
    t2 = t2
    None = None
    Worker = {w1, w2}
    Task = {t1}
    Kind <- AllNow
    Handled = {t1}
    MaxAttempts = 2
    Lease = 2
    Beat = 1
    ReplyIsFields = TRUE
    Prompt = TRUE
    MaxEntries = 2
    MaxFaults = 1
    MaxCrashes = 1
    MaxOps = 2
INVARIANTS OneExecutorPerTask CancelledNeverStarts
PROPERTIES ImplementsLease
SYMMETRY WorkerSymmetry
CHECK_DEADLOCK FALSE
