SPECIFICATION Spec
CONSTANTS
    Session = {s1, s2}
    Fact = {"rain"}
    Operation = {"orders", "rates"}
    Public = {"rates"}
    Topic <- MCTopic
    Blank = ""
    None = None
    Job = Job
    MinCluster = 2
    MinActive = 2
    MaxTurns = 2
    MaxRows = 3
    MaxCycles = 1
    MaxFaults = 1
INVARIANTS CacheIsolated HeirsExist TurnsAloneIsolate
PROPERTIES MaintenanceEnds
CHECK_DEADLOCK FALSE
