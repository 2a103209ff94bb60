SPECIFICATION LoopSpec
CONSTANTS
    Rulers = {operator, agent}
    Agents = {agent}
    Elsewhere = {cf}
    MaxFindings = 2
    MaxIds = 4
    Bounds <- SmallScopes
INVARIANTS
    IdsNameOneFinding
    BlockersAreFixedOrOwed
    NoJudgeBeforeTheRulings
    ApprovalsAccountForCarryForwards
CHECK_DEADLOCK FALSE
