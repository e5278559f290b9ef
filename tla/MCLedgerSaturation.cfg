\* The comment on update against a saturated counter.
CONSTANTS
    Hashes = {h1, h2, h3, h4}
    Creators = {alice, bob}
    Replicas = {r1}
    Foreign = mallory
    ForeignStamps <- MCForeignStamps
    LogicalMax = 3
    MAX_CLOCK_SKEW_MS = 1
    MaxMillis = 1
    MaxTicks = 3
    Heights = {0, 1, 3}
    Processes = {p1}
    Remotes <- MCSaturated
    MAX_DRIFT_MS = 1
    MaxWall = 2
    MaxCalls = 6
    Data = {d, e}
    MaxLeaves = 6
    KeyBits = 2
    Word = 64
    FieldSize = 3
SYMMETRY HashSymmetry
SPECIFICATION PartSpec
INVARIANT StrictlyLater
CHECK_DEADLOCK FALSE
