SPECIFICATION FairDemoSpec
CONSTANTS
    Posts = {p1, p2}
    Scripts = {s1}
    Totals = {0, 2, 26}
    ScriptTotals = {0, 2}
    MaxHour = 1
    MaxFails = 1
INVARIANTS OneBatch MintedOnce MetricsAddUp
PROPERTY GuardFreed
CHECK_DEADLOCK FALSE
