\* Whole requests of every tier, and the metrics computed from their rows.
CONSTANTS
    t1 = t1
    t2 = t2
    Teams = {t1, t2}
    Calls <- MCCalls
    None = None
    PageSize = 1
    MaxRows = 4
SPECIFICATION Spec
INVARIANTS
    MetricsDescribeTraffic
