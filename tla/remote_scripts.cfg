\* Every shape, one command of a script at a time.
SPECIFICATION Spec
CONSTANTS
    alice = alice
    bob = bob
    Operators = {alice, bob}
    v1 = v1
    v2 = v2
    Artefacts = {v1, v2}
    nightly = nightly
    weekly = weekly
    Jobs = {nightly, weekly}
    Service = nightly
    UnitsOf <- Units
    Nothing = Nothing
    Scopes <- AllScopes
    MaxFlows = 4
INVARIANTS
    AppliedIsLive
    NothingIsLeftBehind
    VisibleRunsAreOfTheDelivery
PROPERTIES
    EarlierRunsAreNeverMixed
CHECK_DEADLOCK FALSE
