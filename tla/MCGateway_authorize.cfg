\* The automatic alias under an allow-list of the model the raw prompt resolves to.
CONSTANTS
    r1 = r1
    r2 = r2
    r3 = r3
    k1 = k1
    k2 = k2
    q1 = q1
    q2 = q2
    tA = tA
    tB = tB
    Requests = {r1}
    Keys = {k1}
    Models <- MCModels
    NoCap = NoCap
    Absent = Absent
    Payloads <- AutoPayloads
    Teams = {tA, tB}
    Providers <- MCProviders
    Upstreams <- MCUpstreams
    AutoModel = AutoModel
    None = None
    Routes <- MCRoutes
    Declared <- MCModels
    DefaultFamily = "openai"
    RawTierModel <- MCRaw
    PrunedTierModel <- MCPruned
    Context <- MCContext
    Hash <- MCHash
    Blank = {}
    EstTokens <- OneToken
    Price <- MCPrice
    MaxTokens = 1
    Configured <- MCConfigured
    CanStream <- MCStreaming
    NullUsage = {"openai"}
    CacheEnabled = FALSE
    L1Ttl = 1
    L2Ttl = 2
    Tau = 8
    Seed <- AutoSeed
    Employees = {}
    EmployeeRow <- OpenRow
    KeyRows <- AutoRows
    MaxTime = 0
    MaxCrashes = 0
    Prompts = {q1}
    Similarity <- MCSimilarity
    Scale = 10
    Neighbours = 8
    Nothing = Nothing
SPECIFICATION Spec
INVARIANTS
    DispatchedModelPermitted
\* All the requests of the instance end.
CHECK_DEADLOCK FALSE
