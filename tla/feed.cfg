SPECIFICATION FairSpec
CONSTANTS
    Polls = {p1, p2}
    MaxEvents = 2
    MaxBoots = 2
    MaxFails = 1
PROPERTY EveryEventShown
INVARIANTS TypeOK ShownOnce HistoryNotReplayed
