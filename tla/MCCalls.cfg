SPECIFICATION CallsSpec
CONSTANTS
    Call = {c1, c2}
    Model = {"lost", "large", "plain"}
    None = None
    Chain <- MCChain
    Served = {"large", "plain"}
    Hinted = {"plain"}
    Toolless = {"plain"}
    Window = 5
    Small = 2
    Prompt <- MCPrompts
    MaxAttempts = 2
    MaxChunks = 1
    post1 = post1
    post2 = post2
    ToolCall = {post1, post2, "get", "put", "mcp"}
    Batches <- MCBatches
    Tool = {"post", "get", "put", "mcp"}
    ToolOf <- MCToolOf
    Http = {"post", "get", "put"}
    Idempotent = {"get", "put", "mcp"}
    Keyed = {"put"}
    MaxRetries <- MCRetries
    Rate <- MCRate
    Checked = {"post"}
    Registered = {"post", "get", "mcp"}
    Named = {"post"}
    MaxHops = 2
    MaxFaults = 1
SYMMETRY MCTwins
INVARIANTS AttemptsAreBounded NoReplay FiredOnce SuccessIsAnswered
PROPERTIES FailsFast
CHECK_DEADLOCK FALSE
