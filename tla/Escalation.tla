----------------------------- MODULE Escalation -----------------------------
(***************************************************************************)
(* crates/exo-escalation: signals are evaluated and triaged, a case is      *)
(* opened, goes through its stages, and is moved about a Kanban board;      *)
(* feedback on closed cases becomes recommendations.                        *)
(***************************************************************************)
EXTENDS Integers, FiniteSets, Sequences, SequencesExt

CONSTANTS
    Confidences,    \* the confidences of signals, 0..255
    Agents,         \* DIDs a case is assigned to
    Nobody,
    Lessons,        \* recommendations written into feedback
    MaxSignals,     \* bound on the signals gathered
    MaxCases,       \* bound on the cases opened
    MaxStages,      \* bound on the stages a case records
    MaxFeedback     \* bound on the feedback recorded

ASSUME EscalationAssumption ==
    /\ Confidences \subseteq 0..255 /\ Nobody \notin Agents
    /\ MaxSignals \in Nat /\ MaxCases \in Nat /\ MaxStages \in Nat /\ MaxFeedback \in Nat

VARIABLES
    signals,    \* the signals gathered so far
    cases,      \* the cases, by number
    board,      \* column -> the cases in it, in order
    feedback    \* the feedback log

escVars == <<signals, cases, board, feedback>>

----------------------------------------------------------------------------
(* detector.rs *)
SignalType == {"SybilSuspicion", "UnauthorizedAccess", "ConsentViolation",
               "InvariantBreach", "AnomalousPattern", "EmergencyCondition"}
DetectionSignal == [signal_type : SignalType, confidence : Confidences]

Gather(signal) ==
    /\ Len(signals) < MaxSignals
    /\ signals' = Append(signals, signal)
    /\ UNCHANGED <<cases, board, feedback>>

Some(s, type) == \E i \in DOMAIN s : s[i].signal_type = type
Above(s, c) == \E i \in DOMAIN s : s[i].confidence >= c

(* Mutant: a Sybil suspicion is looked at before the emergencies. *)
evaluate_signals_SybilFirst(s) ==
    IF Some(s, "SybilSuspicion") /\ Above(s, 70) THEN 3
    ELSE IF Some(s, "EmergencyCondition") \/ Above(s, 90) THEN 4
    ELSE IF Above(s, 80) THEN 3
    ELSE IF Len(s) >= 3 \/ Above(s, 50) THEN 2 ELSE 1

(* The severity, from Low = 1 to Critical = 4, and with it the action. *)
evaluate_signals(s) ==
    IF Some(s, "EmergencyCondition") \/ Above(s, 90) THEN 4
    ELSE IF (Some(s, "SybilSuspicion") /\ Above(s, 70)) \/ Above(s, 80) THEN 3
    ELSE IF Len(s) >= 3 \/ Above(s, 50) THEN 2 ELSE 1

(* triage.rs *)
TriageLevel == <<"Automatic", "Supervised", "ManualRequired", "EmergencyHuman">>

triage(severity) ==
    [level |-> severity,
     actions |-> <<{"Log"}, {"Log", "Alert"}, {"Alert", "Quarantine"},
                   {"Suspend", "Escalate", "Shutdown"}>>[severity],
     timeout |-> <<3600000, 1800000, 900000, 300000>>[severity],
     escalation_path |-> <<"None", "Standard", "SybilAdjudication", "Emergency">>[severity]]

----------------------------------------------------------------------------
(* escalation.rs *)
EscalationPath == {"Standard", "SybilAdjudication", "Emergency", "Constitutional"}
SybilStage == {"Detection", "Triage", "Quarantine", "EvidentaryReview",
               "ClearanceDowngrade", "Reinstatement", "AuditLog"}
CaseStatus == {"Open", "InProgress", "PendingReview", "Resolved", "Closed"}
CasePriority == <<"Low", "Medium", "High", "Critical">>

EscalationCase ==
    [path : EscalationPath, status : CaseStatus, assignee : Agents \cup {Nobody},
     priority : DOMAIN CasePriority,
     stages_completed : SUBSET (SybilStage \cup
         {"intake", "emergency_activated", "constitutional_review"})]

InitialStage(path) ==
    CASE path = "SybilAdjudication" -> "Detection"
      [] path = "Emergency" -> "emergency_activated"
      [] path = "Constitutional" -> "constitutional_review"
      [] path = "Standard" -> "intake"

escalate(signal, path) ==
    [path |-> path, status |-> "Open", assignee |-> Nobody,
     stages_completed |-> {InitialStage(path)},
     priority |-> CASE signal.confidence \in 0..30 -> 1
                    [] signal.confidence \in 31..60 -> 2
                    [] signal.confidence \in 61..85 -> 3
                    [] OTHER -> 4]

(* Any stage may follow any other; stages after the audit reopen the case. *)
advance_sybil_stage(c, stage) ==
    /\ cases[c].path = "SybilAdjudication"
    /\ cases' = [cases EXCEPT
                   ![c].stages_completed = @ \cup {stage},
                   ![c].status = IF stage = "AuditLog" THEN "Resolved" ELSE "InProgress"]
    /\ UNCHANGED <<signals, board, feedback>>

(* The assignee is a public field, set by whoever takes the case. *)
Assign(c, agent) ==
    /\ cases' = [cases EXCEPT ![c].assignee = agent]
    /\ UNCHANGED <<signals, board, feedback>>

(* completeness.rs; a case always carries the evidence of its signal. *)
RequiredStages(path) ==
    IF path = "SybilAdjudication" THEN SybilStage ELSE {InitialStage(path)}

check_completeness(case) ==
    /\ RequiredStages(case.path) \subseteq case.stages_completed
    /\ case.status \in {"Resolved", "Closed"} => case.assignee # Nobody

----------------------------------------------------------------------------
(* kanban.rs *)
KanbanColumn == <<"Backlog", "InProgress", "Review", "Resolved", "Archived">>

(* A case is opened for a signal and put on the board. *)
add_case(signal, path) ==
    /\ Len(cases) < MaxCases
    /\ cases' = Append(cases, escalate(signal, path))
    /\ board' = [board EXCEPT ![1] = Append(@, Len(cases) + 1)]
    /\ UNCHANGED <<signals, feedback>>

HasCase(col, c) == \E i \in DOMAIN board[col] : board[col][i] = c

(* The first column that holds the case gives it up, at its first place there; a
   case moved within its column goes to the end. *)
move_case(c, to) ==
    \E from \in DOMAIN board : \E pos \in DOMAIN board[from] :
       /\ board[from][pos] = c
       /\ \A col \in 1..(from - 1) : ~HasCase(col, c)
       /\ \A i \in 1..(pos - 1) : board[from][i] # c
       /\ LET taken == [board EXCEPT ![from] = RemoveAt(@, pos)]
          IN  board' = [taken EXCEPT ![to] = Append(@, c)]
       /\ UNCHANGED <<signals, cases, feedback>>

(* All cases, column by column, sorted by falling priority; the sort is
   stable. *)
cases_by_priority ==
    LET all == FlattenSeq(board)
        of(p) == SelectSeq(all, LAMBDA c : cases[c].priority = p)
    IN  of(4) \o of(3) \o of(2) \o of(1)

----------------------------------------------------------------------------
(* feedback.rs *)
FeedbackOutcome == {"TruePositive", "FalsePositive", "TrueNegative", "FalseNegative", "Inconclusive"}
FeedbackEntry == [outcome : FeedbackOutcome, lessons : SUBSET Lessons]

record_feedback(entry) ==
    /\ Len(feedback) < MaxFeedback
    /\ feedback' = Append(feedback, entry)
    /\ UNCHANGED <<signals, cases, board>>

apply_learnings(log) ==
    LET count(o) == Cardinality({i \in DOMAIN log : log[i].outcome = o})
        fp == count("FalsePositive")
    IN  (IF log # <<>> /\ fp > 0 /\ (fp * 100) \div Len(log) >= 30
         THEN {<<"raise thresholds", fp>>} ELSE {})
        \cup (IF count("FalseNegative") > 0
              THEN {<<"lower thresholds", count("FalseNegative")>>} ELSE {})
        \cup {<<lesson, 1>> : lesson \in UNION {log[i].lessons : i \in DOMAIN log}}

----------------------------------------------------------------------------
EscInit ==
    /\ signals = <<>>
    /\ cases = <<>>
    /\ board = [col \in DOMAIN KanbanColumn |-> <<>>]
    /\ feedback = <<>>

EscNext ==
    \/ \E signal \in DetectionSignal : Gather(signal)
    \/ \E signal \in DetectionSignal, path \in EscalationPath : add_case(signal, path)
    \/ \E c \in DOMAIN cases, stage \in SybilStage :
          /\ Cardinality(cases[c].stages_completed \cup {stage}) <= MaxStages
          /\ advance_sybil_stage(c, stage)
    \/ \E c \in DOMAIN cases, agent \in Agents : Assign(c, agent)
    \/ \E c \in DOMAIN cases, to \in DOMAIN KanbanColumn : move_case(c, to)
    \/ \E entry \in FeedbackEntry : record_feedback(entry)

EscSpec == EscInit /\ [][EscNext]_escVars

----------------------------------------------------------------------------
EscTypeOK ==
    /\ signals \in Seq(DetectionSignal)
    /\ cases \in Seq(EscalationCase)
    /\ board \in [DOMAIN KanbanColumn -> Seq(DOMAIN cases)]
    /\ feedback \in Seq(FeedbackEntry)

(* kanban.rs: whatever the moves, every case opened is in one column, at one
   place (`move_case' takes the case out before it puts it back). *)
OnBoardOnce ==
    \A c \in DOMAIN cases : \E col \in DOMAIN board : \E i \in DOMAIN board[col] :
       /\ board[col][i] = c
       /\ \A other \in DOMAIN board : \A j \in DOMAIN board[other] :
             board[other][j] = c => other = col /\ j = i

(* kanban.rs: cases_by_priority lists each case on the board once, with no case
   before a more urgent one. *)
BoardKeepsCases ==
    LET listed == cases_by_priority
    IN  /\ Len(listed) = Len(cases)
        /\ \A c \in DOMAIN cases : \E i \in DOMAIN listed : listed[i] = c
        /\ \A i, j \in DOMAIN listed :
              i < j => cases[listed[i]].priority >= cases[listed[j]].priority

(* detector.rs, triage.rs: one more signal never makes the response milder: no
   lower severity, no longer timeout, and never back from a human to a
   machine. *)
MoreSignalsNeverCalmer ==
    \A s \in DetectionSignal :
       LET before == triage(evaluate_signals(signals))
           after == triage(evaluate_signals(Append(signals, s)))
       IN  after.level >= before.level /\ after.timeout <= before.timeout

(* detector.rs against escalation.rs: the case of a single signal is never
   less urgent than its triage, but for an EmergencyCondition, whose priority
   goes by its confidence alone. *)
PriorityFollowsTriage ==
    \A type \in SignalType \ {"EmergencyCondition"}, c \in 0..255, path \in EscalationPath :
       LET signal == [signal_type |-> type, confidence |-> c]
       IN  triage(evaluate_signals(<<signal>>)).level <= escalate(signal, path).priority

(* Escalation: no case falls off the board or is there twice, more signals never
   make a situation look calmer, nor a case less urgent than its triage (detector.rs,
   triage.rs, escalation.rs, kanban.rs). *)
EscalationSound == EscTypeOK /\ OnBoardOnce /\ MoreSignalsNeverCalmer /\ PriorityFollowsTriage
=============================================================================
