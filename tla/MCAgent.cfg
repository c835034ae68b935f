\* Two turns over a guarded sender and a reducer of its results.
SPECIFICATION Spec
CONSTANTS
    send = send
    sum = sum
    None = None
    Tool = {send, sum}
    Guarded = {send}
    Reducing = {sum}
    Needs <- SumNeedsSend
    Steps = 1
    MinNodes = 1
    MaxRounds = 1
    MaxReplans = 1
    MaxRetries = 1
    MaxRecompiles = 1
    Budget = 1
    MaxHops = 20
    MaxTurns = 2
VIEW Live
INVARIANTS
    GrantedThisTurn
    DeclinedRunsNothing
    OneHandoff
PROPERTIES
    ApprovalStaysOpen
    RunsTheGraph
CHECK_DEADLOCK FALSE
