\* What invalidate leaves behind: a cached chain through the DID.
CONSTANTS
    Dids = {a, b, c, d}
    NoDid = NoDid
    Terms = {t}
    MAX_DEPTH = 2
    MaxLinkDepth = 2
    MaxPushes = 2
    MaxEntries = 2
    MaxNow = 4
    MaxFound = 1
    Pairs = {pa, pb}
    Messages = {ma, mb}
    Holders = {ha, hb}
    MaxLinks = 3
    MaxInstant = 1
    Forever = 9
    Granted = {"Read", "Write"}
    Subjects = {sa, sb}
    MaxKeys = 3
    MaxMethods = 5
    Successors = {oa, ob, oc, od}
    MaxValid = 2
    Secrets <- MCSecrets
    Coeffs <- MCCoeffs
    MaxShares = 3
SYMMETRY DidSymmetry
SPECIFICATION PartSpec
INVARIANT InvalidatesAllInvolved
CHECK_DEADLOCK FALSE
