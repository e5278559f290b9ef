CONSTANTS
    Members = {a, b, c}
    Evidence = {k}
    Absent = none
    Policies <- MCPolicies
    Thresholds = {0, 1, 2}
    MaxCloses = 2
    MaxFiled = 2
    Writers = {w, x}
    Facts <- MCFacts
    McpFacts <- MCMcpFacts
    NoRegion = noregion
    Roles = {r, s}
    MaxCreated = 3
    MaxLog = 3
    Models = {m}
    Confidences = {0, 31, 61, 70, 80, 90}
    Agents = {q}
    Nobody = nobody
    Lessons = {l}
    MaxSignals = 2
    MaxCases = 2
    MaxStages = 7
    MaxFeedback = 3
    Parties = {p, t, u}
    Tags = {v}
    Days = {0, 1, 2}
    MaxTransfers = 3
    MaxBallots = 4
    MaxCopies = 2
    MaxForked = 2
SPECIFICATION MCSpec
INVARIANTS
    GovernanceSound RecordsTellAll EscalationSound LegalSound
PROPERTIES LogsAppendOnly
CHECK_DEADLOCK FALSE
