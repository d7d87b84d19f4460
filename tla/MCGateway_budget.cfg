\* One key, three interchangeable requests, calls and streams of up to two tokens, a cap of three tokens that may be lowered to two.
CONSTANTS
    r1 = r1
    r2 = r2
    r3 = r3
    k1 = k1
    k2 = k2
    q1 = q1
    q2 = q2
    tA = tA
    tB = tB
    Requests = {r1, r2, r3}
    Keys = {k1}
    Models <- MCModels
    NoCap = NoCap
    Absent = Absent
    Payloads <- BudgetPayloads
    Teams = {tA, tB}
    Providers <- MCProviders
    Upstreams <- MCUpstreams
    AutoModel = AutoModel
    None = None
    Routes <- MCRoutes
    Declared <- MCModels
    DefaultFamily = "openai"
    RawTierModel <- MCRaw
    PrunedTierModel <- MCPruned
    Context <- MCContext
    Hash <- MCHash
    Blank = {}
    EstTokens <- TwoTokens
    Price <- MCPrice
    MaxTokens = 2
    Configured <- MCConfigured
    CanStream <- MCStreaming
    NullUsage = {"openai"}
    CacheEnabled = TRUE
    L1Ttl = 1
    L2Ttl = 2
    Tau = 8
    Seed <- BudgetSeed
    Employees = {}
    EmployeeRow <- OpenRow
    KeyRows <- BudgetRows
    MaxTime = 0
    MaxCrashes = 1
    Prompts = {q1}
    Similarity <- MCSimilarity
    Scale = 10
    Neighbours = 8
    Nothing = Nothing
SPECIFICATION Spec
SYMMETRY Symmetry
INVARIANTS
    TypeOK
    UsageMatchesAnswers
    LogFollowsUsage
    OvershootBounded
PROPERTIES
    UsageNeverDecreases
\* All the requests of the instance end.
CHECK_DEADLOCK FALSE
