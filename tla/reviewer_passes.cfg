\* A pass and a carry of one pull request, two heads; two failures, or one beside a request.
SPECIFICATION FairSpec
CONSTANTS
    Passes = {p1, p2}
    NoOne = NoOne
    Carriers = {p2}
    MaxHeads = 2
    MaxRequests = 1
    MaxSilences = 2
    MaxFaults = 2
    MaxEvents = 2
INVARIANTS
    GitHubShowsTheLedger
    CarriedRestsOnAJudgement
    RetriesAreOwed
PROPERTIES
    HeadsAreAnswered
    NoVerdictIsLost
CHECK_DEADLOCK FALSE
