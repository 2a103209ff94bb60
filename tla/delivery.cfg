\* Two operators who race; one whose evidence is late; one whose drills die.
SPECIFICATION DeliverySpec
CONSTANTS
    Operators = {alice, bob}
    Artefacts = {v1, v2}
    Nothing = Nothing
    Down = Down
    Scopes <- DeliveryScopes
    MaxFlows = 4
INVARIANTS
    OneScriptAtATime
    FailuresAreCounted
    RollbackDrillsAreMeasuredAlone
    DrillGateIsEarned
PROPERTIES
    EveryCommandEnds
CHECK_DEADLOCK FALSE
