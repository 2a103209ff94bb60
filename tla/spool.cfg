\* Two processes; two kinds, facts and instants under one key.
SPECIFICATION FairSpec
CONSTANTS
    Processes = {p1, p2}
    Keys = {k}
    Kinds = {deployed, released}
    Payloads = {a, b}
    Instants = {1, 2}
    NoReceipt = NoReceipt
    MaxAttests = 2
    MaxFailures = 2
INVARIANTS
    OutcomesAreTrue
PROPERTIES
    EvidenceIsKept
    SpoolDrains
CHECK_DEADLOCK FALSE
