\* Four validators and an outsider x; any of them may be named in a vote shown
\* to any replica.  One replica over two rounds, or two replicas in one.
\* Rounds and commits are used up.
CONSTANTS
    v1 = v1
    v2 = v2
    v3 = v3
    v4 = v4
    x = x
    n1 = n1
    n2 = n2
    r1 = r1
    r2 = r2
    Dids = {v1, v2, v3, v4, x}
    Validators = {v1, v2, v3, v4}
    Nodes = {n1, n2}
    Replicas = {r1, r2}
    HandMade <- MCHandMade
    MaxRound = 1
    MaxCommits = 2
SPECIFICATION MCSpec
SYMMETRY Symmetry
INVARIANTS CertificatesSound DisagreementNamesCulprits
PROPERTIES DecidesOncePerRound
CHECK_DEADLOCK FALSE
