\* A demonstration employee and two more, each address typed in two ways.
CONSTANTS
    dave = dave
    e1 = e1
    e2 = e2
    kDave = kDave
    kDev = kDev
    k1 = k1
    k2 = k2
    Keys = {kDave, kDev, k1, k2}
    Models = {"m"}
    NoCap = NoCap
    Absent = Absent
    Ids = {dave, e1, e2}
    Addresses <- MCAddresses
    Lower <- MCLower
    SqlLower <- MCSqlLower
    Passwords = {"secret"}
    DemoPasswords = {"demo"}
    TeamNames <- MCTeamNames
    Slug <- MCSlug
    Fold <- MCFold
    Budgets = {1, 2}
    Keep = Keep
    Demo <- MCDemo
    DemoTeams <- MCDemoTeams
    DevKey = kDev
    DevUser = dave
    DevTeam = "platform"
    DevRow <- MCDevRow
    DefaultRow <- MCDefaultRow
    Seed <- MCSeed
    CliRows <- MCCliRows
    MaxRequests = 1
SPECIFICATION Spec
SYMMETRY Symmetry
INVARIANTS
    TypeOK
    OneAccountPerAddress
    KeysFollowEmployees
PROPERTIES
    UsageFollowsEmployees
