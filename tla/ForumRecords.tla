---------------------------- MODULE ForumRecords ----------------------------
(* What the decision forum reports about itself: the twelve metrics          *)
(* (metrics.rs), the proposals to change its own rules and their compliance  *)
(* (self_governance.rs), the terms participants accept (terms.rs), the       *)
(* forum's own authority (authority.rs) and the defence package of a         *)
(* decision (fiduciary_package.rs).                                          *)
EXTENDS Integers, Sequences, FiniteSets, SequencesExt, FiniteSetsExt

CONSTANTS
    Durations,      \* milliseconds a metric records
    Members,        \* who accepts terms
    TermsIds,       \* documents
    MaxVersion,     \* bound: versions of a document
    MaxRecorded     \* bound: things recorded in one life of the forum

VARIABLES
    collector,      \* MetricsCollector: [ratios, latencies]
    tracker,        \* ComplianceTracker
    proposals,      \* the proposals made, with their simulation
    acceptances,    \* TermsRegistry.acceptances
    told            \* ghost: what was reported to the forum, in order

records == <<collector, tracker, proposals, acceptances, told>>

----------------------------------------------------------------------------
(* metrics.rs.  m1, m3..m6 and m8..m12 are ratios, m2 and m7 percentiles.    *)
RatioMetric ==
    {"authority", "evidence", "quorum", "human_gate", "constitutional", "emergency",
     "accountability", "consent", "identity", "self_mod"}
LatencyMetric == {"revocation", "challenge"}

MetricsCollector ==
    [ratios    : [RatioMetric -> [total : Nat, passed : Nat]],
     latencies : [LatencyMetric -> Seq(Durations)]]

NewCollector ==
    [ratios    |-> [m \in RatioMetric |-> [total |-> 0, passed |-> 0]],
     latencies |-> [m \in LatencyMetric |-> <<>>]]

pct_Nearest(n, d) == IF d = 0 THEN 100 ELSE (n * 100 + d \div 2) \div d

pct(n, d) == IF d = 0 THEN 100 ELSE (n * 100) \div d

percentile_95(values) ==
    IF values = <<>>
    THEN 0
    ELSE LET n == Len(values)
         IN SortSeq(values, <)[Min({(n * 95 + 99) \div 100, n})]

MetricPct(c, m) == pct(c.ratios[m].passed, c.ratios[m].total)
MetricP95(c, m) == percentile_95(c.latencies[m])

Told(entry) ==
    /\ Len(told) < MaxRecorded
    /\ told' = Append(told, entry)

record_check(m, good) ==
    /\ Told(<<m, good>>)
    /\ collector' = [collector EXCEPT !.ratios[m] =
                        [total |-> @.total + 1, passed |-> @.passed + (IF good THEN 1 ELSE 0)]]
    /\ UNCHANGED <<tracker, proposals, acceptances>>

record_latency(m, ms) ==
    /\ Told(<<m, ms>>)
    /\ collector' = [collector EXCEPT !.latencies[m] = Append(@, ms)]
    /\ UNCHANGED <<tracker, proposals, acceptances>>

----------------------------------------------------------------------------
(* self_governance.rs. *)
GovernanceChangeType ==
    {"ConstitutionalAmendment", "QuorumPolicyChange", "AuthorityMatrixUpdate",
     "HumanGatePolicyChange", "EmergencyPolicyChange", "MetricsThresholdChange"}

(* A proposal as far as the simulation looks at it; create_proposal gives no *)
(* decision and no simulation, and the proposer may set the decision after.  *)
GovernanceProposal ==
    [titled : BOOLEAN, change_type : GovernanceChangeType, decided : BOOLEAN,
     issues : SUBSET {"unbacked", "untitled"}, simulated : BOOLEAN]

create_proposal(titled, type) ==
    [titled |-> titled, change_type |-> type, decided |-> FALSE, issues |-> {},
     simulated |-> FALSE]

simulate(p) ==
    [p EXCEPT
        !.issues = (IF p.change_type = "ConstitutionalAmendment" /\ ~p.decided
                      THEN {"unbacked"} ELSE {})
                   \cup (IF p.titled THEN {} ELSE {"untitled"}),
        !.simulated = TRUE]

SimulationPassed(p) == p.simulated /\ p.issues = {}

NewTracker == [total_modifications |-> 0, compliant_modifications |-> 0]

track(t, compliant) ==
    [total_modifications     |-> t.total_modifications + 1,
     compliant_modifications |-> t.compliant_modifications + (IF compliant THEN 1 ELSE 0)]

compliance_rate_pct(t) == pct(t.compliant_modifications, t.total_modifications)

Propose(titled, type) ==
    /\ Len(proposals) < MaxRecorded
    /\ proposals' = Append(proposals, create_proposal(titled, type))
    /\ UNCHANGED <<collector, tracker, acceptances, told>>

Back(i) ==
    /\ proposals' = [proposals EXCEPT ![i].decided = TRUE]
    /\ UNCHANGED <<collector, tracker, acceptances, told>>

Simulate(i) ==
    /\ proposals' = [proposals EXCEPT ![i] = simulate(@)]
    /\ UNCHANGED <<collector, tracker, acceptances, told>>

record_compliance(compliant) ==
    /\ Told(<<"tracker", compliant>>)
    /\ tracker' = track(tracker, compliant)
    /\ UNCHANGED <<collector, proposals, acceptances>>

----------------------------------------------------------------------------
(* terms.rs. *)
TermsAcceptance == [accepted_by : Members, terms_id : TermsIds, terms_version : 1..MaxVersion]

accept(a) ==
    /\ Told(<<"terms", a>>)
    /\ acceptances' = Append(acceptances, a)
    /\ UNCHANGED <<collector, tracker, proposals>>

has_accepted(did, id, version) ==
    \E i \in DOMAIN acceptances :
       /\ acceptances[i].accepted_by = did
       /\ acceptances[i].terms_id = id
       /\ acceptances[i].terms_version = version

require_acceptance(did, id, version) ==
    IF has_accepted(did, id, version) THEN "Ok" ELSE "TermsNotAccepted"

----------------------------------------------------------------------------
(* authority.rs. *)
ForumAuthority == [signed : BOOLEAN, constitution : BOOLEAN, rules : 0..2]

verify_forum_authority(a) ==
    IF ~a.signed THEN "empty signature"
    ELSE IF ~a.constitution THEN "zero constitution hash"
    ELSE IF a.rules = 0 THEN "no rules defined" ELSE "Ok"

----------------------------------------------------------------------------
(* fiduciary_package.rs: the evidence of the four prongs, each scored in     *)
(* basis points, and the digest that seals it.  An absent hash is None.      *)
Full == 10000
Share(n, d) == IF d = 0 THEN 0 ELSE Min({(n * Full) \div d, Full})

score_disinterestedness(p) ==
    Share(p.disinterested_voters,
          IF p.recused_count > p.total_members THEN 0
          ELSE p.total_members - p.recused_count)

score_informed_basis(p) == Share(p.voters_who_reviewed, p.total_voters)

score_good_faith(p) ==
    ( (IF p.alternatives_count >= 2 THEN Full ELSE p.alternatives_count * 5000)
    + (IF p.process_compliant THEN Full ELSE 0)
    + (IF p.dissent_records > 0 \/ Len(p.deliberation_hashes) > 1 THEN Full ELSE 5000)
    ) \div 3

Opt(h) == IF h = "None" THEN <<>> ELSE <<h>>

score_rational_basis(p) ==
    5000 * Len(Opt(p.selected_rationale_hash) \o Opt(p.risk_assessment_hash))

(* The two optional hashes and the list of supporting evidence enter the     *)
(* digest one after the other with nothing between them.                     *)
compute_package_hash(d, p1, p2, p3, p4) ==
    <<"fjp:v1", d, p1, p2, p3,
      Opt(p4.selected_rationale_hash) \o Opt(p4.risk_assessment_hash)
          \o p4.supporting_evidence_hashes>>

generate(d, p1, p2, p3, p4) ==
    [decision_hash |-> d, p1 |-> p1, p2 |-> p2, p3 |-> p3, p4 |-> p4,
     package_hash |-> compute_package_hash(d, p1, p2, p3, p4)]

package_verify(k) == k.package_hash = compute_package_hash(k.decision_hash, k.p1, k.p2, k.p3, k.p4)

bjr_defensibility_score_bps(k) ==
    Min({(score_disinterestedness(k.p1) + score_informed_basis(k.p2)
          + score_good_faith(k.p3) + score_rational_basis(k.p4)) \div 4, Full})

----------------------------------------------------------------------------
RecordsInit ==
    /\ collector = NewCollector
    /\ tracker = NewTracker
    /\ proposals = <<>>
    /\ acceptances = <<>>
    /\ told = <<>>

RecordsNext ==
    \/ \E m \in RatioMetric, good \in BOOLEAN : record_check(m, good)
    \/ \E m \in LatencyMetric, ms \in Durations : record_latency(m, ms)
    \/ \E titled \in BOOLEAN, type \in GovernanceChangeType : Propose(titled, type)
    \/ \E i \in DOMAIN proposals : Back(i) \/ Simulate(i)
    \/ \E compliant \in BOOLEAN : record_compliance(compliant)
    \/ \E a \in TermsAcceptance : accept(a)

RecordsSpec == RecordsInit /\ [][RecordsNext]_records

RecordsTypeOK ==
    /\ collector \in MetricsCollector
    /\ tracker \in [total_modifications : Nat, compliant_modifications : Nat]
    /\ proposals \in Seq(GovernanceProposal)
    /\ acceptances \in Seq(TermsAcceptance)

(* What was told under one heading, in order. *)
ToldOf(heading) == SelectSeq(told, LAMBDA e : e[1] = heading)
FailureTold(heading) == \E i \in DOMAIN told : told[i] = <<heading, FALSE>>

(* A percentage reads 100 exactly when no failure was reported under it.     *)
(* (metrics.rs pct and the record_* functions, self_governance.rs            *)
(* ComplianceTracker.)                                                       *)
FailuresShow ==
    /\ \A m \in RatioMetric : MetricPct(collector, m) = 100 <=> ~FailureTold(m)
    /\ compliance_rate_pct(tracker) = 100 <=> ~FailureTold("tracker")

(* The 95th percentile of n reports is a reported value that at least 95 %   *)
(* of them do not exceed, and fewer than 95 % are below it.                  *)
IsP95(values, v) ==
    LET at(P(_)) == Cardinality({i \in DOMAIN values : P(values[i])})
    IN /\ \E i \in DOMAIN values : values[i] = v
       /\ 100 * at(LAMBDA w : w <= v) >= 95 * Len(values)
       /\ 100 * at(LAMBDA w : w < v) < 95 * Len(values)

LatenciesExact ==
    \A m \in LatencyMetric :
       LET reported == [i \in DOMAIN ToldOf(m) |-> ToldOf(m)[i][2]]
       IN IF reported = <<>> THEN MetricP95(collector, m) = 0
          ELSE IsP95(reported, MetricP95(collector, m))

(* Terms count as accepted for the version that was accepted and for no      *)
(* other.                                                                    *)
TermsPerVersion ==
    \A a \in TermsAcceptance :
       require_acceptance(a.accepted_by, a.terms_id, a.terms_version) = "Ok"
          <=> \E i \in DOMAIN told : told[i] = <<"terms", a>>

(* A percentage of any number of checks reads 100 only when all passed,      *)
(* also past the hundred checks where rounding begins to matter.             *)
PctExact(counts) == \A d \in counts : \A n \in 0..d : (pct(n, d) = 100 <=> n = d)

(* Percentiles of long series. *)
LongSeries ==
    \A n \in 1..60 :
       LET falling == [i \in 1..n |-> n - i]
       IN IsP95(falling, percentile_95(falling))

(* Small evidence for each prong. *)
Prong1 == [total_members : 0..2, recused_count : 0..2, disinterested_voters : 0..2,
           majority_disinterested : BOOLEAN, disclosure_record_hashes : {<<>>, <<"h">>}]
Prong2 == [voters_who_reviewed : 0..2, total_voters : 0..2,
           materials_complete_before_vote : BOOLEAN,
           evidence_manifest_hashes : {<<>>, <<"h">>}]
Prong3 == [alternatives_count : 0..3, dissent_records : 0..1, process_compliant : BOOLEAN,
           deliberation_hashes : {<<>>, <<"h">>, <<"h", "g">>}]
Prong4 == [selected_rationale_hash : {"None", "h"}, risk_assessment_hash : {"None", "g"},
           supporting_evidence_hashes : {<<>>, <<"h">>, <<"g">>}]

AnyOf(S) == CHOOSE x \in S : TRUE
Packages ==
    {generate("d", p, AnyOf(Prong2), AnyOf(Prong3), AnyOf(Prong4)) : p \in Prong1}
    \cup {generate("d", AnyOf(Prong1), p, AnyOf(Prong3), AnyOf(Prong4)) : p \in Prong2}
    \cup {generate("e", AnyOf(Prong1), AnyOf(Prong2), p, AnyOf(Prong4)) : p \in Prong3}
    \cup {generate("e", AnyOf(Prong1), AnyOf(Prong2), AnyOf(Prong3), p) : p \in Prong4}

(* A seal put on other evidence is noticed, unless the two differ only in    *)
(* how the fourth prong's hashes are divided among rationale, risk and       *)
(* support: the digest does not tell these apart, though the score does.     *)
SealShows(packages) ==
    \A j, k \in packages :
       package_verify([j EXCEPT !.package_hash = k.package_hash])
          <=> /\ j.decision_hash = k.decision_hash
              /\ j.p1 = k.p1 /\ j.p2 = k.p2 /\ j.p3 = k.p3
              /\ Opt(j.p4.selected_rationale_hash) \o Opt(j.p4.risk_assessment_hash)
                    \o j.p4.supporting_evidence_hashes
                 = Opt(k.p4.selected_rationale_hash) \o Opt(k.p4.risk_assessment_hash)
                    \o k.p4.supporting_evidence_hashes

(* The mean reaches its top only when no prong has a gap, stays in range,    *)
(* and does not fall when one more voter is disinterested or has reviewed.   *)
ScoresSound(packages) ==
    \A k \in packages :
       LET score == bjr_defensibility_score_bps(k)
       IN /\ score \in 0..Full
          /\ score = Full => /\ score_disinterestedness(k.p1) = Full
                             /\ score_informed_basis(k.p2) = Full
                             /\ score_good_faith(k.p3) = Full
                             /\ score_rational_basis(k.p4) = Full
          /\ score <= bjr_defensibility_score_bps([k EXCEPT !.p1.disinterested_voters = @ + 1])
          /\ score <= bjr_defensibility_score_bps([k EXCEPT !.p2.voters_who_reviewed = @ + 1])
          /\ score <= bjr_defensibility_score_bps([k EXCEPT !.p3.alternatives_count = @ + 1])

(* Percentages, seals and scores. *)
DefenceSound == PctExact(0..220) /\ SealShows(Packages) /\ ScoresSound(Packages)

(* An amendment of the constitution passes its simulation only with a        *)
(* decision behind it, also when the decision came after an earlier          *)
(* simulation; nothing untitled passes.                                      *)
AmendmentsBacked ==
    \A i \in DOMAIN proposals :
       LET p == proposals[i]
       IN SimulationPassed(p) => p.titled /\ (p.change_type = "ConstitutionalAmendment" => p.decided)

(* A forum without a signature, a constitution or a rule has no authority.   *)
ForumNeedsAuthority ==
    \A a \in ForumAuthority :
       verify_forum_authority(a) = "Ok" <=> a.signed /\ a.constitution /\ a.rules > 0

(* What the forum reports about itself is true to what it was told, and its  *)
(* defence packages are sealed and scored without hiding a gap.              *)
(* (metrics.rs, self_governance.rs, terms.rs, authority.rs,                  *)
(* fiduciary_package.rs.)                                                    *)
ReportsTruthful ==
    /\ RecordsTypeOK /\ FailuresShow /\ TermsPerVersion /\ DefenceSound /\ AmendmentsBacked
    /\ ForumNeedsAuthority

(* Latencies are told by their percentiles, in series of any length up to    *)
(* sixty (metrics.rs percentile_95).                                         *)
PercentilesExact == LatenciesExact /\ LongSeries
=============================================================================
