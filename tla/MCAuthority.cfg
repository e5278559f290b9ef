\* Chains longer than the depth limit exist among four DIDs, a link may be made
\* twice, and a cache of two entries is full after two inserts.  Places in the
\* indices and cache calls are used up.
CONSTANTS
    Dids = {a, b, c, d}
    NoDid = NoDid
    Terms = {t}
    MAX_DEPTH = 2
    MaxLinkDepth = 2
    MaxPushes = 2
    MaxEntries = 2
    MaxNow = 4
    MaxFound = 1
    Pairs = {pa, pb}
    Messages = {ma, mb}
    Holders = {ha, hb}
    MaxLinks = 3
    MaxInstant = 1
    Forever = 9
    Granted = {"Read", "Write"}
    Subjects = {sa, sb}
    MaxKeys = 3
    MaxMethods = 5
    Successors = {oa, ob, oc, od}
    MaxValid = 2
    Secrets <- MCSecrets
    Coeffs <- MCCoeffs
    MaxShares = 3
SYMMETRY DidSymmetry
SPECIFICATION PartSpec
INVARIANTS
    DelegationsSound EvictsLeastRecent ChainsSealed IdentitySound
PROPERTIES WithdrawnForGood
CHECK_DEADLOCK FALSE
