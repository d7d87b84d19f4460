\* Keys saved, lost and found again, and automatic requests in between.
CONSTANTS
    k0 = k0
    k1 = k1
    None = None
    Models <- MCModels
    Providers <- MCProviders
    Type <- MCType
    Routes <- MCRoutes
    ProviderOf <- MCProviderOf
    TierModels <- MCTierModels
    Candidates <- MCCandidates
    Simulated <- MCSimulated
    Vars <- MCVars
    EnvNames <- MCEnvNames
    Saveable = {"gemini", "openai", "anthropic"}
    SavedVar <- MCSavedVar
    RealKeys = {k0, k1}
    Entered <- MCEntered
    Literal <- MCLiteral
    Shell <- MCShell
    Places <- MCPlaces
    Upward <- MCUpward
    Cwds = {"root", "app"}
    App = "app"
    Files <- MCFiles
    Prompts <- MCPrompts
SPECIFICATION Spec
INVARIANTS
    TypeOK
    KeysFollowOperator
    SafeWhenRouting
PROPERTIES
    AutomaticGoesLive
