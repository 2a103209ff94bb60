SPECIFICATION Spec
CONSTANTS
    glm = glm
    codex = codex
    agy = agy
    claude = claude
    code = code
    test = test
    doc = doc
    elsewhere = elsewhere
    vague = vague
    Providers <- Chain4
    Unknown = {claude}
    Metered = glm
    Vague = vague
    Skip = 2
    MaxSkip = 3
    Scopes <- TwoPieces
INVARIANTS
    ApprovalsCoverTheChange
CHECK_DEADLOCK FALSE
