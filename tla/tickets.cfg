SPECIFICATION Spec
CONSTANTS
    Operators = {"o1", "o2"}
    Contents = {1, 2}
    Pulls = {1, 2, 3}
    HISTORY = 2
    Scopes <- TicketScopes
CHECK_DEADLOCK FALSE
INVARIANTS
    CommandsRecordOnce
    IntegrationIsOfTheContract
