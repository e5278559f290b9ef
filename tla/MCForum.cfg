\* Nine voters, so that a strategic decision meets its share exactly and from
\* both sides; every life of up to twelve changes, past the close; two
\* challenges; three emergencies of two actors; two delegations of each of two
\* delegates; two amendments.  Every part ends at its bound.
CONSTANTS
    Voters = {1, 2, 3, 4, 5, 6, 7, 8, 9}
    Actors = {a}
    Times = {1}
    Decisions = {d, e}
    MaxReceipts = 12
    MaxItems = 1
    MaxChallenges = 2
    Dids = {p, q}
    Stamps = {1, 2, 3}
    Classes = {"Routine", "Operational"}
    RootScope = {"Routine"}
    DelegationIds = {i, j}
    ArticleIds = {x, y}
    Texts = {t}
    Tiers = {1, 2}
    RATIFICATION_WINDOW = 1
    MAX_PER_QUARTER = 1
    MAX_PER_ACTOR = 1
    EXPIRY_WARNING_DAYS = {0, 1}
    MS_PER_DAY = 1
    MaxHeld = 2
    MaxForked = 2
    SUSPENSION_LIMIT = 1
    REQUIRED_SIGNATURES = 2
    MaxActions = 3
    MaxGrants = 2
    MaxAmendments = 2
    Durations = {1, 2, 3}
    Members = {m, n}
    TermsIds = {terms}
    MaxVersion = 2
    MaxRecorded = 3
    MaxVotes = 9
    BallotKinds = {"Human", "Operational", "Constitutional"}
SPECIFICATION MCSpec
INVARIANTS
    QuorumHolds HumansDecide RecordStands PowersBounded ReportsTruthful HostSound
PROPERTIES LifeCycle SettledStays
CHECK_DEADLOCK FALSE
