\* An approved operation is not executed.
SPECIFICATION Spec
CONSTANTS
    send = send
    sum = sum
    None = None
    Tool = {send, sum}
    Guarded = {send}
    Reducing = {sum}
    Needs <- SumNeedsSend
    Steps = 1
    MinNodes = 1
    MaxRounds = 1
    MaxReplans = 1
    MaxRetries = 1
    MaxRecompiles = 1
    Budget = 1
    MaxHops = 22
    MaxTurns = 2
PROPERTIES
    ApprovedIsResumed
CHECK_DEADLOCK FALSE
