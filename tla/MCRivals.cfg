\* Three executor instances, one key, two architectures.
SPECIFICATION Spec
CONSTANTS
    a1 = a1
    a2 = a2
    a3 = a3
    e1 = e1
    e2 = e2
    e3 = e3
    k1 = k1
    k2 = k2
    v1 = v1
    v2 = v2
    h1 = h1
    None = None
    Attempt = {a1, a2, a3}
    Executor = {e1, e2, e3}
    Key = {k1}
    Arch = {v1, v2}
    Domain = {h1}
    ExecOf <- RivalExec
    WaveOf <- RivalWave
    KeyOf <- RivalKey
    ArchOf <- TwoArchs
    DomainOf <- OneDomain
    Idempotent = {}
    Lease = 1
    GlobalTimeout = 1
    MaxRetries = 0
    DomainCap = 1
    MaxFaults = 1
INVARIANTS
    ReplayedWasRecorded
    OneCallerPerKey
    NoCallOnceCompleted
PROPERTIES
    LiveClaimStands
    ImplementsContract
SYMMETRY RivalSymmetry
