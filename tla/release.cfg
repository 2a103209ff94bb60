SPECIFICATION Spec
CONSTANTS
    a = a
    b = b
    h1 = h1
    h2 = h2
    Releasers = {a, b}
    Hosts = {h1, h2}
    Versions = {v1}
    Builds = {1, 2}
    Absent = Absent
    Scopes <- ReleaseScopes
INVARIANTS
    ReleasesAreTrue
    ExitTellsTheRelease
PROPERTIES
    TaggedIsReleased
CHECK_DEADLOCK FALSE
