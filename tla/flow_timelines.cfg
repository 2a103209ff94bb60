\* One merged pull request: two attempts of the CI, one of our own, the judge.
SPECIFICATION FlowSpec
CONSTANTS
    CiRuns = {c1, c2}
    ReviewerRuns = {v1}
    Created = 1
    Merged = 3
    Maturity = 1
    Absent = Absent
    LastTick = 5
    Scopes <- FlowScopes
INVARIANTS
    FinalTimelinesAreTrue
PROPERTIES
    SettledSegmentsNeverChange
CHECK_DEADLOCK FALSE
