\* exo-core: every walk of up to 18 changes, past a denial, an escalation and a
\* second execution; and every edit of every entry of every log of up to three
\* changes by two actors at two times.  exo-bcts: single calls and pipeline runs
\* in any order, each run started in any state; ten of the 24 entries are kept
\* free for a run.  The logs may fill up, hence no deadlock check.
SPECIFICATION MCSpec
CONSTANTS
    actor = alice
    time = 1
    Actors = {alice, bob}
    Times = {1, 2}
    MaxTransitions = 18
    MaxEdited = 3
    MaxLedger = 24
    Signers = {alice}
INVARIANTS ExecutedThroughGates TamperEvidence PipelineSound
PROPERTY RunsSettle
CHECK_DEADLOCK FALSE
