\* Every flow of one operator, whatever the ledger and the process do; two at the lock.
SPECIFICATION Spec
CONSTANTS
    Operators = {alice, bob}
    Artefacts = {v1, v2}
    Nothing = Nothing
    Down = Down
    Scopes <- DeploymentScopes
    MaxFlows = 4
INVARIANTS
    DeploymentsAreRecorded
    ExitOkNamesLive
    RestoredNamesARecordedIncident
PROPERTIES
    ReleaseClosesEveryIncident
    RecordsAreTrueWhenWritten
CHECK_DEADLOCK FALSE
