CONSTANTS
    h = h
    o = o
    k1 = k1
    k2 = k2
    Actors = {h, o}
    SigningKeys = {k1, k2}
    NoKey = nokey
    Malformed = malformed
    Empty = empty
    Holons = {h}
    Programs <- MCPrograms
    Inputs <- MCInputs
    Reduction <- reduce
    Foreign <- MCForeign
    Contexts <- MCContexts
    Threshold = 2
    Window = 2
    MaxTime = 5
    MaxFindings = 5
    Measurements = {m, n}
    SimulatedAllowed = FALSE
    Ids = {1, 2}
    GqlTenants = {t1, t2}
    Bodies = {b}
    Advances = {"APPROVED"}
    Reasons = {"system"}
    Ballots = {"APPROVE", "MAYBE"}
    Grantees = {g}
    Hours = {0, 1}
    Streams = {s1}
    EventBuffer = 2
    MaxAudit = 4
    MaxGrants = 2
    Tasks = {c1, c2}
    Keys = {k1, k2}
    Emails = {e1, e2}
    MaxWrites = 4
    Times = {0, 2, 3}
    FRESHNESS_WINDOW = 1
    MaxRequests = 2
    TenantIds = {u1, u2}
    ItemIds = {i1, i2}
    Contents = {x}
    Addresses = {1, 2, 3, 4, 5}
    Asns = {0, 7, 9}
    MAX_PER_WINDOW = 2
    MaxPeersPerAsn = 2
    MinUniqueAsns = 2
    MaxAge = 1
    PeerTimes = {0, 1, 2, 3, 4}
SPECIFICATION PartSpec
INVARIANTS
    GatekeeperSound
    TrailsExact SubscribersCurrent StreamsComplete RacesHarmless EdgeSound
PROPERTIES NothingRewritten
CHECK_DEADLOCK FALSE
