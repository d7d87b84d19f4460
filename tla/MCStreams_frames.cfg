\* Streams that end well, fail, break or are given up at any point, and single
\* answers with every kind of usage, cached and served again.
CONSTANTS
    None = None
    Kinds <- MCKinds
    Counts = {0, 5, 7}
    EstPrompt = 3
    Statuses = {429}
    MaxLines = 4
    Adapters <- MCAdapters
    Estimates = {3, 4}
    Null = Null
    Raises = Raises
SPECIFICATION CallSpec
INVARIANTS
    TypeOK
    ClientGetsWhatWasSaid
    ShownUsageIsBilled
    BillFollowsReport
    OneOutcome
    HitSavesWhatWasBilled
    PaidIsAnswered
