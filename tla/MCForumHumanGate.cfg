\* Ten voters, humans and agents; only the votes move.
CONSTANTS
    Voters = {1, 2, 3, 4, 5, 6, 7, 8, 9, 10}
    Actors = {a}
    Times = {1}
    Decisions = {d, e}
    MaxReceipts = 0
    MaxItems = 0
    MaxChallenges = 0
    Dids = {p, q}
    Stamps = {1, 2, 3}
    Classes = {"Routine", "Operational"}
    RootScope = {"Routine"}
    DelegationIds = {i, j}
    ArticleIds = {x, y}
    Texts = {t}
    Tiers = {1, 2}
    RATIFICATION_WINDOW = 1
    MAX_PER_QUARTER = 1
    MAX_PER_ACTOR = 1
    EXPIRY_WARNING_DAYS = {0, 1}
    MS_PER_DAY = 1
    MaxHeld = 2
    MaxForked = 0
    SUSPENSION_LIMIT = 1
    REQUIRED_SIGNATURES = 2
    MaxActions = 0
    MaxGrants = 0
    MaxAmendments = 0
    Durations = {1}
    Members = {m}
    TermsIds = {terms}
    MaxVersion = 1
    MaxRecorded = 0
    MaxVotes = 10
    BallotKinds = {"Human", "Operational"}
SPECIFICATION MCSpec
INVARIANT GateMeansHumanApproval
CHECK_DEADLOCK FALSE
