\* Every way a request ends, two caches, two teams, a clock that outlives both TTLs.
CONSTANTS
    r1 = r1
    r2 = r2
    r3 = r3
    k1 = k1
    k2 = k2
    q1 = q1
    q2 = q2
    tA = tA
    tB = tB
    Requests = {r1, r2}
    Keys = {k1, k2}
    Models <- MCModels
    NoCap = NoCap
    Absent = Absent
    Payloads <- CallPayloads
    Teams = {tA, tB}
    Providers <- MCProviders
    Upstreams <- MCUpstreams
    AutoModel = AutoModel
    None = None
    Routes <- MCRoutes
    Declared <- MCModels
    DefaultFamily = "openai"
    RawTierModel <- MCNoTier
    PrunedTierModel <- MCPruned
    Context <- MCContext
    Hash <- MCHash
    Blank = {}
    EstTokens <- OneToken
    Price <- MCPrice
    MaxTokens = 1
    Configured <- MCConfigured
    CanStream <- MCStreaming
    NullUsage = {"openai"}
    CacheEnabled = TRUE
    L1Ttl = 1
    L2Ttl = 2
    Tau = 8
    Seed <- MixedSeed
    Employees = {k2}
    EmployeeRow <- OpenRow
    KeyRows <- MixedRows
    MaxTime = 2
    MaxCrashes = 1
    Prompts = {q1, q2}
    Similarity <- MCSimilarity
    Scale = 10
    Neighbours = 8
    Nothing = Nothing
SPECIFICATION FairSpec
INVARIANTS
    CachesHoldPaidAnswers
    SemanticHitsStayInNamespace
PROPERTIES
    EveryCallEnds
\* All the requests of the instance end.
CHECK_DEADLOCK FALSE
