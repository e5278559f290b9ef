---------------------------- MODULE MCGovernance ----------------------------
(* Instances of Governance, AuditLogs with its reports, Escalation and       *)
(* LegalRecords, and of GovernanceBindings over them, for TLC.  They share   *)
(* no state: the scope picked in the initial state says which part moves.    *)
EXTENDS GovernanceBindings

VARIABLE scope

MCPolicies == [min_approvals : {1, 2}, min_independent : {0, 2}, required_roles : {{}, {"Steward"}}]

(* Two entries that run together to one text, and another one. *)
MCFacts ==
    {[actor |-> <<"a">>, action |-> x[1], result |-> x[2]] :
        x \in {<<<<"open", "ed">>, <<"ok">>>>, <<<<"open">>, <<"ed", "ok">>>>, <<<<"open">>, <<"ok">>>>}}

(* None and the empty region; an actor whose name ends like an outcome, and a
   region that begins like one; another rule. *)
MCMcpFacts ==
    {[rule |-> x[1], actor |-> x[2], outcome |-> x[3], region |-> x[4]] :
        x \in {<<"r", <<"a">>, "Allowed", NoRegion>>, <<"r", <<"a">>, "Allowed", <<>>>>,
               <<"r", <<"a">>, "Allowed", <<"Blocked">>>>, <<"r", <<"a", "Allowed">>, "Blocked", NoRegion>>,
               <<"q", <<"a">>, "Escalated", <<"eu">>>>}}

MCInit ==
    /\ scope \in {"deliberation", "crosscheck", "conflicts", "offices", "logs", "custody",
                  "cases", "stages", "signals", "feedback", "evidence", "records", "duties", "harbor", "host"}
    /\ GovInit /\ LogInit /\ EscInit /\ LegalInit /\ HostInit
    /\ scope # "offices" => plan.successors = <<>>
         /\ plan.current_holder = CHOOSE m \in Members : TRUE
    /\ scope # "records" => record = CHOOSE r \in {create_record(c, d) : c \in Tags, d \in Days} : TRUE

GovScope ==
    /\ \/ scope = "deliberation" /\ DelibStep
       \/ scope = "crosscheck" /\ EvidenceStep
       \/ scope = "conflicts" /\ ConflictStep /\ Len(register'.acknowledgments) <= 1
       \/ scope = "offices" /\ OfficeStep /\ Cardinality(DOMAIN clearances') <= 1
    /\ UNCHANGED <<logVars, escVars, legalVars, copies>>

LogScope ==
    /\ LogNext
    /\ scope = "logs" => events' = <<>>
    /\ scope = "custody" => created' = 0
    /\ UNCHANGED <<govVars, escVars, legalVars, copies>>

(* Cases are moved about the board, or one goes through its stages. *)
EscScope ==
    /\ EscNext
    /\ scope = "cases" => \A c \in DOMAIN cases' :
          cases'[c].status = "Open" /\ cases'[c].assignee = Nobody
    /\ scope # "cases" => Len(cases') <= 1 /\ \A col \in 2..5 : board'[col] = <<>>
    /\ scope # "feedback" => feedback' = <<>>
    /\ scope \in {"feedback", "signals"} => cases' = <<>>
    /\ scope # "signals" => signals' = <<>>
    /\ UNCHANGED <<govVars, logVars, legalVars, copies>>

LegalScope ==
    /\ \/ scope = "evidence" /\ CustodyStep
       \/ scope = "records" /\ RecordStep
       \/ scope = "duties" /\ DutyStep
       \/ scope = "harbor" /\ HarborStep
    /\ UNCHANGED <<govVars, logVars, escVars, copies>>

MCNext ==
    /\ UNCHANGED scope
    /\ \/ GovScope
       \/ scope \in {"logs", "custody"} /\ LogScope
       \/ scope \in {"cases", "stages", "signals", "feedback"} /\ EscScope
       \/ LegalScope
       \/ scope = "host" /\ HostNext /\ UNCHANGED <<govVars, logVars, escVars, legalVars>>

Host == scope = "host"
Start == scope = "host" /\ copies = {}

(* AuditLogs, LegalRecords, Escalation, GovernanceBindings: a log that was kept  *)
(* verifies, an edited copy of it does not, reports of adjoining periods add up, *)
(* a search finds everything, the board lists every case, the most urgent first, *)
(* and what a host is told about its copies agrees.                              *)
RecordsTellAll ==
    /\ LogTypeOK /\ LogsInOrder /\ TamperingShows /\ ReportsAddUp /\ SearchComplete
    /\ BoardKeepsCases
    /\ scope = "cases" => SortsAgree
    /\ scope = "logs" => RebuiltLogsAgree
    /\ scope = "crosscheck" => RegistryTravels
    /\ scope = "conflicts" => ConflictsAgree
    /\ scope = "offices" => OfficesAgree
    /\ scope = "duties" => DutiesMonotone
    /\ Start => CoordinationOrderFree /\ HostTriageSound
    /\ Host => HostAnnouncementsSound /\ HostListsSound

MCSpec == MCInit /\ [][MCNext]_<<govVars, logVars, escVars, legalVars, copies, scope>>
=============================================================================
