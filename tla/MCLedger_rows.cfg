\* Two writers, feedback, a crash between rows, a reader turning pages.
CONSTANTS
    t1 = t1
    t2 = t2
    Teams = {t1, t2}
    Calls <- MCCalls
    None = None
    PageSize = 2
    MaxRows = 4
SPECIFICATION Spec
SYMMETRY Symmetry
INVARIANTS
    TypeOK
    PrecisionMatchesFeedback
    TeamSpendMatchesAnswers
    PagingSkipsNothing
