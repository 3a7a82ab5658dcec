SPECIFICATION ReplaySpec
CONSTANTS
    Recorders = {c1, c2}
    Prompts = {q1}
    Temperatures = {0, 1}
    MaxAnswers = 3
    MaxFails = 1
INVARIANTS ReplayTypeOK ReplayFaithful
CHECK_DEADLOCK FALSE
