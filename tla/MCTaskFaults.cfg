\* A worker and the scheduler, a recurring task and a one-shot of a type
\* nobody handles, a death and a failed call.
SPECIFICATION Spec
CONSTANTS
    w1 = w1
    w2 = w2
    t1 = t1
    t2 = t2
    None = None
    Worker = {w1}
    Task = {t1, t2}
    Kind <- Scheduled
    Handled = {t1}
    MaxAttempts = 2
    Lease = 1
    Beat = 1
    ReplyIsFields = TRUE
    Prompt = TRUE
    MaxEntries = 2
    MaxFaults = 1
    MaxCrashes = 1
    MaxOps = 0
INVARIANTS AckedWasSettled CronPostedOncePerPeriod
CHECK_DEADLOCK FALSE
