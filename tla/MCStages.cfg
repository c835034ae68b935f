SPECIFICATION StagesSpec
CONSTANTS
    Artifact = {"forecast", "address", "code"}
    Fact <- FactOf
    Entity <- EntityOf
    Required = {"oslo"}
    Entailment = TRUE
    MaxCalls = 1
    MaxTurns = 2
    None = None
    Session = {"s1", "s2"}
    Home <- HomeOf
    Op <- Service
    Needs <- NeedsOf
    Knows <- KnowsOf
    Defaulted <- KnowsOf
    Gives <- GivesOf
    Alias <- AliasOf
    Message = {"both", "quiet", "sky"}
    Units <- UnitsOf
    Retrieved <- RetrievedOf
    Favoured <- FavouredOf
    Parts <- PartsOf
    Drafted <- DraftOf
    Wishes <- WishesOf
    MaxRounds = 1
    MaxReplans = 1
    MaxPlanCalls = 3
    MaxRequests = 2
    MaxOutages = 1
    MaxNodes = 3
    Plans <- PlansOf
    Capability <- Catalog
    Idempotent = {"read"}
    Batch = {"read", "write"}
    Endpoints <- EndpointsOf
    Policy <- PolicyOf
    Threshold = 2
    MaxIterations = 3
    TopK = 1
    MaxFaults = 1
INVARIANTS
    SurvivorsScheduled
    RejectedPlansLeave
    NeverSilentlyPartial
    SuccessIsGrounded
    NothingDoneIsSaid
    RemembersOnlyAnswers
CHECK_DEADLOCK FALSE
