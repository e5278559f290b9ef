---------------------------- MODULE LegalRecords ----------------------------
(***************************************************************************)
(* crates/exo-legal: evidence and its custody, discovery, privilege,        *)
(* retention of records, fiduciary duties, and the safe harbour of an       *)
(* interested transaction (dgcl144.rs).                                     *)
(***************************************************************************)
EXTENDS AuditLogs

CONSTANTS
    Parties,      \* DIDs
    Tags,         \* type tags of evidence, search terms and classes of records
    Days,         \* times, in days; 0 is Timestamp::ZERO
    MaxTransfers, \* bound on the custody transfers
    MaxBallots    \* bound on the votes on a transaction

ASSUME LegalAssumption ==
    Days \subseteq Nat /\ MaxTransfers \in Nat /\ MaxBallots \in Nat

VARIABLES
    evidence,   \* the pieces of evidence, by number
    privileges, \* privilege assertions, each with its challenge if there is one
    policy,     \* RetentionPolicy: class -> days
    record,     \* one managed record
    duty,       \* one fiduciary duty, and the audited actions
    txn         \* the interested transaction, or NoTxn

legalVars == <<evidence, privileges, policy, record, duty, txn>>

----------------------------------------------------------------------------
(* evidence.rs *)
AdmissibilityStatus == {"Admissible", "Challenged", "Excluded", "Pending"}

CustodyTransfer == [from : Parties, to : Parties, timestamp : Nat]
EvidenceItem ==
    [type_tag : Tags, creator : Parties, timestamp : Days,
     chain_of_custody : Seq(CustodyTransfer), status : AdmissibilityStatus]

create_evidence(creator, tag, at) ==
    /\ at # 0
    /\ evidence = <<>>
    /\ evidence' = Append(evidence, [type_tag |-> tag, creator |-> creator, timestamp |-> at,
                                     chain_of_custody |-> <<>>, status |-> "Pending"])
    /\ UNCHANGED <<privileges, policy, record, duty, txn>>

Custodian(ev) == IF ev.chain_of_custody = <<>> THEN ev.creator ELSE Last(ev.chain_of_custody).to

(* The time of a transfer is the one before plus a millisecond. *)
NextTransferAt(ev) ==
    1 + (IF ev.chain_of_custody = <<>> THEN ev.timestamp ELSE Last(ev.chain_of_custody).timestamp)

transfer_custody(e, from, to) ==
    /\ Len(evidence[e].chain_of_custody) < MaxTransfers
    /\ from = Custodian(evidence[e])
    /\ evidence' = [evidence EXCEPT ![e].chain_of_custody =
          Append(@, [from |-> from, to |-> to, timestamp |-> NextTransferAt(evidence[e])])]
    /\ UNCHANGED <<privileges, policy, record, duty, txn>>

verify_chain_of_custody(ev) ==
    \A i \in DOMAIN ev.chain_of_custody :
       ev.chain_of_custody[i].from =
          IF i = 1 THEN ev.creator ELSE ev.chain_of_custody[i - 1].to

(* ediscovery.rs; an empty list of custodians or terms matches everything. *)
search(corpus, custodians, terms, first, last) ==
    SelectSeq(corpus, LAMBDA ev :
       /\ custodians = {} \/ ev.creator \in custodians
       /\ first <= ev.timestamp /\ ev.timestamp <= last
       /\ terms = {} \/ ev.type_tag \in terms)

(* privilege.rs; nothing decides a challenge. *)
PrivilegeType == {"AttorneyClient", "WorkProduct", "Deliberative", "TradeSecret"}

PrivilegeChallengeStatus == {"None", "Pending", "Upheld", "Overruled"}
PrivilegeAssertion ==
    [evidence_id : Nat, type : PrivilegeType, asserter : Parties,
     challenge : PrivilegeChallengeStatus]

assert_privilege(e, type, asserter) ==
    /\ privileges' = privileges \cup
          {[evidence_id |-> e, type |-> type, asserter |-> asserter, challenge |-> "None"]}
    /\ Cardinality(privileges') <= 1
    /\ UNCHANGED <<evidence, policy, record, duty, txn>>

challenge_privilege(p) ==
    /\ privileges' = (privileges \ {p}) \cup {[p EXCEPT !.challenge = "Pending"]}
    /\ UNCHANGED <<evidence, policy, record, duty, txn>>

----------------------------------------------------------------------------
(* records.rs; days, not milliseconds, are the unit. *)
Disposition == {"Active", "RetentionHold", "PendingDestruction", "Destroyed"}

Record ==
    [classification : Tags, retention_period_days : Days, created : {0},
     disposition : Disposition, held : BOOLEAN]

add_rule(class, days) ==
    /\ policy' = [c \in DOMAIN policy \cup {class} |-> IF c = class THEN days ELSE policy[c]]
    /\ UNCHANGED <<evidence, privileges, record, duty, txn>>

RetentionDays(rules, rec) ==
    IF rec.classification \in DOMAIN rules THEN rules[rec.classification]
    ELSE rec.retention_period_days

(* Mutant: a held record is treated like any other. *)
Exempt_DestroyedOnly(rec) == rec.disposition = "Destroyed"

Exempt(rec) == rec.disposition \in {"Destroyed", "RetentionHold"}

Retained(rules, rec, now) ==
    IF ~Exempt(rec) /\ now - rec.created >= RetentionDays(rules, rec)
    THEN [rec EXCEPT !.disposition = "PendingDestruction"] ELSE rec

apply_retention(now) ==
    /\ record' = Retained(policy, record, now)
    /\ UNCHANGED <<evidence, privileges, policy, duty, txn>>

(* create_record stamps no time: `created' is 0. *)
create_record(class, days) ==
    [classification |-> class, retention_period_days |-> days, created |-> 0,
     disposition |-> "Active", held |-> FALSE]

(* The disposition is a public field: counsel puts a record on hold. *)
Hold ==
    /\ record.disposition = "Active"
    /\ record' = [record EXCEPT !.disposition = "RetentionHold", !.held = TRUE]
    /\ UNCHANGED <<evidence, privileges, policy, duty, txn>>

----------------------------------------------------------------------------
(* fiduciary.rs *)
DutyType == {"Care", "Loyalty", "GoodFaith", "Disclosure", "Confidentiality"}
AuditedAction == [actor : Parties, action : {"disclose", "share", "publish", "other"},
                  beneficiaries : SUBSET Parties]

FiduciaryDuty ==
    [type : DutyType, principal : Parties, fiduciary : Parties, actions : SUBSET AuditedAction]

create_duty(principal, fiduciary, type) ==
    /\ duty.type = "None"
    /\ principal # fiduciary
    /\ duty' = [type |-> type, principal |-> principal, fiduciary |-> fiduciary, actions |-> {}]
    /\ UNCHANGED <<evidence, privileges, policy, record, txn>>

Act(a) ==
    /\ duty.type # "None"
    /\ duty.actions = {}
    /\ duty' = [duty EXCEPT !.actions = {a}]
    /\ UNCHANGED <<evidence, privileges, policy, record, txn>>

check_duty_compliance(d) ==
    CASE d.type = "Care" -> d.actions # {}
      [] d.type = "Loyalty" -> \A a \in d.actions :
            a.actor = d.fiduciary => a.beneficiaries \subseteq {d.principal}
      [] d.type = "GoodFaith" -> \A a \in d.actions : a.actor = d.fiduciary
      [] d.type = "Disclosure" -> \E a \in d.actions : a.action = "disclose"
      [] d.type = "Confidentiality" -> \A a \in d.actions : a.action \notin {"share", "publish"}
      [] OTHER -> TRUE

----------------------------------------------------------------------------
(* dgcl144.rs *)
SafeHarborPath == {"BoardApproval", "ShareholderApproval", "FairnessProof"}
SafeHarborStatus == {"PendingDisclosure", "DisclosureMade", "VotingInProgress", "Verified", "Failed"}
NoTxn == [status |-> "None"]

InterestedTransaction ==
    [interested_party : Parties, path : SafeHarborPath, status : SafeHarborStatus,
     disclosed : BOOLEAN, votes : Seq(Parties \X BOOLEAN), fairness : BOOLEAN]

MayBallot(t, voter) ==
    t.status \in {"DisclosureMade", "VotingInProgress"} /\ voter # t.interested_party

Balloted(t, voter, approved) ==
    [t EXCEPT !.votes = Append(@, <<voter, approved>>), !.status = "VotingInProgress"]

TxnStep(t) == txn' = t /\ UNCHANGED <<evidence, privileges, policy, record, duty>>

initiate_safe_harbor(party, path, now) ==
    /\ txn = NoTxn
    /\ now # 0
    /\ TxnStep([interested_party |-> party, path |-> path, status |-> "PendingDisclosure",
                disclosed |-> FALSE, votes |-> <<>>, fairness |-> FALSE])

complete_disclosure ==
    /\ txn.status = "PendingDisclosure"
    /\ TxnStep([txn EXCEPT !.disclosed = TRUE, !.status = "DisclosureMade"])

(* Nothing keeps a party from voting twice. *)
record_disinterested_vote(voter, approved) ==
    /\ MayBallot(txn, voter)
    /\ Len(txn.votes) < MaxBallots
    /\ TxnStep(Balloted(txn, voter, approved))

(* The fairness evidence is a public field. *)
AddFairnessEvidence ==
    txn # NoTxn /\ ~txn.fairness /\ TxnStep([txn EXCEPT !.fairness = TRUE])

Approving(t) == Cardinality({i \in DOMAIN t.votes : t.votes[i][2]})

Carried(t) == 2 * Approving(t) > Len(t.votes)

(* The status is not looked at: a decided transaction is decided again. *)
verify_safe_harbor ==
    /\ txn # NoTxn
    /\ txn.disclosed
    /\ \/ /\ txn.path = "FairnessProof"
          /\ txn.fairness
          /\ TxnStep([txn EXCEPT !.status = "Verified"])
       \/ /\ txn.path # "FairnessProof"
          /\ txn.votes # <<>>
          /\ TxnStep([txn EXCEPT !.status = IF Carried(txn) THEN "Verified" ELSE "Failed"])

----------------------------------------------------------------------------
LegalInit ==
    /\ evidence = <<>>
    /\ privileges = {}
    /\ policy = [c \in {} |-> 0]
    /\ record \in {create_record(class, days) : class \in Tags, days \in Days}
    /\ duty = [type |-> "None", principal |-> "None", fiduciary |-> "None", actions |-> {}]
    /\ txn = NoTxn

CustodyStep ==
    \/ \E p \in Parties, t \in Tags, at \in Days : create_evidence(p, t, at)
    \/ \E e \in DOMAIN evidence, from, to \in Parties : transfer_custody(e, from, to)
    \/ \E e \in DOMAIN evidence, type \in PrivilegeType, p \in Parties :
          assert_privilege(e, type, p)
    \/ \E p \in privileges : challenge_privilege(p)

RecordStep ==
    \/ \E c \in Tags, d \in Days : add_rule(c, d)
    \/ \E now \in Days : apply_retention(now)
    \/ Hold

DutyStep ==
    \/ \E p, f \in Parties, type \in DutyType : create_duty(p, f, type)
    \/ \E a \in AuditedAction : Act(a)

HarborStep ==
    \/ \E p \in Parties, path \in SafeHarborPath, now \in Days : initiate_safe_harbor(p, path, now)
    \/ complete_disclosure \/ AddFairnessEvidence \/ verify_safe_harbor
    \/ \E p \in Parties, approved \in BOOLEAN : record_disinterested_vote(p, approved)

LegalNext == CustodyStep \/ RecordStep \/ DutyStep \/ HarborStep

LegalSpec == LegalInit /\ [][LegalNext]_legalVars

----------------------------------------------------------------------------
LegalTypeOK ==
    /\ evidence \in Seq(EvidenceItem)
    /\ privileges \subseteq PrivilegeAssertion
    /\ record \in Record
    /\ duty.type # "None" => duty \in FiduciaryDuty
    /\ txn # NoTxn => txn \in InterestedTransaction

(* evidence.rs, records.rs: a chain of custody verifies, starts at the creator
   and grows strictly in time, so that there is one custodian at any moment; and
   a record that was put on hold is not destroyed, whatever rules come and
   whenever they are applied. *)
EvidenceKept ==
    /\ \A e \in DOMAIN evidence :
          LET ev == evidence[e]
              chain == ev.chain_of_custody
          IN  /\ verify_chain_of_custody(ev)
              /\ \A i \in DOMAIN chain :
                    /\ chain[i].timestamp > ev.timestamp
                    /\ \A j \in DOMAIN chain : i < j => chain[i].timestamp < chain[j].timestamp
    /\ record.held => record.disposition = "RetentionHold"

(* ediscovery.rs: a search without filters produces every piece of evidence. *)
SearchComplete ==
    \A e \in DOMAIN evidence :
       LET produced == search(evidence, {}, {}, 0, evidence[e].timestamp)
       IN  evidence[e] \in {produced[i] : i \in DOMAIN produced}

(* dgcl144.rs "disinterested directors approve after full disclosure": a
   verified transaction was disclosed, and carried by a strict majority of votes
   none of which is the interested party's, or rests on fairness evidence; a
   failed one did not carry, so deciding again changes nothing. *)
SafeHarborSound ==
    /\ txn.status \in {"Verified", "Failed", "VotingInProgress"} =>
          /\ txn.disclosed
          /\ \A i \in DOMAIN txn.votes : txn.votes[i][1] # txn.interested_party
    /\ txn.status = "Verified" =>
          \/ txn.path = "FairnessProof" /\ txn.fairness
          \/ Len(txn.votes) - Approving(txn) < Approving(txn)
    /\ txn.status = "Failed" => Approving(txn) <= Len(txn.votes) - Approving(txn)

(* Evidence and held records are kept, and a safe harbour is verified only by
   disinterested votes or on evidence of fairness (exo-legal). *)
LegalSound == LegalTypeOK /\ EvidenceKept /\ SafeHarborSound

----------------------------------------------------------------------------
(***************************************************************************)
(* The reports of crates/exo-legal: ai_transparency.rs over the MCP log,    *)
(* and compliance_report.rs with nist_mapping.rs over that.                 *)
(***************************************************************************)
CONSTANTS
    Models    \* model ids of AI agents

----------------------------------------------------------------------------
(* ai_transparency.rs *)
InPeriod(log, first, last) == {i \in DOMAIN log : first <= log[i].at /\ log[i].at <= last}

(* rule -> how often it allowed, blocked and escalated, for the rules seen. *)
aggregate_mcp_outcomes(log, first, last) ==
    LET seen == InPeriod(log, first, last)
    IN  [r \in {log[i].fact.rule : i \in seen} |->
           [o \in McpEnforcementOutcome |->
              Cardinality({i \in seen : log[i].fact.rule = r /\ log[i].fact.outcome = o})]]

(* {} without clearance; grants are those of ai_delegation_event_from_link. *)
generate_report(log, first, last, grants, revocations, clearance_verified) ==
    IF ~clearance_verified THEN {}
    ELSE {[first |-> first, last |-> last,
           ai_agent_action_count |-> Cardinality(InPeriod(log, first, last)),
           ai_delegation_grants |-> grants,
           ai_delegation_revocations |-> revocations,
           mcp_rule_outcomes |-> aggregate_mcp_outcomes(log, first, last)]}

DelegateeKind == {"Human", "Unknown"} \cup Models

ai_delegation_event_from_link(kind, link) ==
    IF kind \in Models THEN {[model_id |-> kind, link |-> link]} ELSE {}

----------------------------------------------------------------------------
(* nist_mapping.rs: the functions each invariant answers to. *)
NistFunction == {"Govern", "Map", "Measure", "Manage"}

canonical ==
    [HumanOverride |-> {"Govern", "Manage"}, ProvenanceVerifiable |-> {"Govern", "Measure"},
     AuthorityChainValid |-> {"Govern", "Map"}, SeparationOfPowers |-> {"Govern"},
     ConsentRequired |-> {"Map", "Manage"}, NoSelfGrant |-> {"Govern", "Manage"},
     KernelImmutability |-> {"Govern", "Manage"}, QuorumLegitimate |-> {"Govern", "Measure"}]

entry_for(inv) == IF inv \in DOMAIN canonical THEN canonical[inv] ELSE {}
coverage_gaps(invariants) == invariants \ DOMAIN canonical

(* compliance_report.rs *)
Redacted == "Redacted"
ComplianceReportMode == {"Full", Redacted}

redact_model_id(tenant, model, mode, salt) ==
    IF mode = "Full" THEN model ELSE <<tenant, model, salt>>

Total(counts) == counts["Allowed"] + counts["Blocked"] + counts["Escalated"]

(* The events the provenance attestation counts. *)
McpTotal(report) ==
    LET outcomes == report.mcp_rule_outcomes
    IN  FoldSet(LAMBDA r, n : n + Total(outcomes[r]), 0, DOMAIN outcomes)

(* Every invariant is attested Compliant; the number of grants is the same in
   a redacted report. *)
derive_status_and_evidence(inv, report) ==
    [status |-> "Compliant",
     evidence |-> CASE inv = "ProvenanceVerifiable" -> <<McpTotal(report)>>
                    [] inv = "AuthorityChainValid" ->
                          <<Cardinality(report.ai_delegation_grants),
                            report.ai_delegation_revocations>>
                    [] OTHER -> <<>>]

hash_report_content(first, last, mode, attestations) == <<first, last, mode, attestations>>

build_report(report, mode, invariants) ==
    LET attestations == [inv \in invariants |->
            [derived |-> derive_status_and_evidence(inv, report), nist |-> entry_for(inv)]]
    IN  [mode |-> mode, attestations |-> attestations,
         report_hash |-> hash_report_content(report.first, report.last, mode, attestations)]

----------------------------------------------------------------------------
(* ai_transparency.rs, compliance_report.rs: of every two adjacent periods, the
   actions and the outcomes of each rule add up to those of both together, no
   record is counted twice or missed at a boundary, and the attested number of
   MCP events is the number of actions reported. *)
ReportsAddUp ==
    LET log == logs["mcp"]
        R(first, last) == CHOOSE r \in generate_report(log, first, last, {}, 0, TRUE) : TRUE
        count(r, rule, o) == IF rule \in DOMAIN r.mcp_rule_outcomes
                             THEN r.mcp_rule_outcomes[rule][o] ELSE 0
        all == R(1, created)
    IN  /\ all.ai_agent_action_count = Len(log)
        /\ \A mid \in 1..created :
             LET r == R(1, mid)
                 s == R(mid + 1, created)
             IN  /\ all.ai_agent_action_count =
                       r.ai_agent_action_count + s.ai_agent_action_count
                 /\ \A rule \in {said.rule : said \in McpFacts}, o \in McpEnforcementOutcome :
                       count(all, rule, o) = count(r, rule, o) + count(s, rule, o)
                 /\ \A mode \in ComplianceReportMode :
                       build_report(r, mode, DOMAIN canonical)
                          .attestations.ProvenanceVerifiable.derived.evidence
                             = <<r.ai_agent_action_count>>
=============================================================================
