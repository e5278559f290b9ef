\* Four nodes, two creators and foreign stamps within and beyond the skew, or
\* three nodes marked at any height; two clocks with wall clocks that move
\* either way, tolerance one; six leaves, keys of two bits.  Hashes, clock
\* calls and leaves are used up.
CONSTANTS
    Hashes = {h1, h2, h3, h4}
    Creators = {alice, bob}
    Replicas = {r1}
    Foreign = mallory
    ForeignStamps <- MCForeignStamps
    LogicalMax = 4
    MAX_CLOCK_SKEW_MS = 1
    MaxMillis = 1
    MaxTicks = 3
    Heights = {0, 1, 3}
    Processes = {p1, p2}
    Remotes <- MCRemotes
    MAX_DRIFT_MS = 1
    MaxWall = 2
    MaxCalls = 6
    Data = {d, e}
    MaxLeaves = 6
    KeyBits = 2
    Word = 64
    FieldSize = 3
SYMMETRY HashSymmetry
SPECIFICATION PartSpec
INVARIANTS
    CausalOrder BoundedDrift
    LedgerSound IndicesExact CreatorOrder
    ProofsExact
CHECK_DEADLOCK FALSE
