----------------------------- MODULE Governance -----------------------------
(***************************************************************************)
(* crates/exo-governance: deliberations and their quorum, the crosscheck of *)
(* actors, the standing conflict register, clearances, challenges and       *)
(* succession.  The crate is a library of separate objects: a caller holds  *)
(* one of each here, and calls in any order.                                *)
(*                                                                         *)
(* Signatures, reasoning hashes, ids and creation times are carried and     *)
(* never read; they are left out.                                           *)
(***************************************************************************)
EXTENDS Integers, FiniteSets, Sequences

CONSTANTS
    Members,      \* DIDs that vote, declare, challenge or hold a role
    Evidence,     \* signing keys, attestation roots and control metadata
    Absent,       \* a DID without an entry in a registry
    Policies,     \* the quorum policies a deliberation is closed with
    Thresholds,   \* durations of unresponsiveness
    MaxCloses,    \* bound on the closes of one deliberation
    MaxFiled      \* bound on the declarations filed and acknowledged

VARIABLES
    delib,          \* the deliberation: its votes and status
    results,        \* what its closes returned, each with its policy
    registry,       \* the IdentityRegistry
    register,       \* the declarations and acknowledgments on file
    filed,          \* every declaration handed to the register
    clearances,     \* the ClearanceRegistry
    challenge,      \* the challenge to one action, or NoChallenge
    paused,         \* a pause order was issued for that action
    plan            \* the succession plan of one role, as its holder applies it

govVars == <<delib, results, registry, register, filed, clearances, challenge, paused, plan>>

----------------------------------------------------------------------------
(* quorum.rs *)
Role == {"Steward", "Governor", "Reviewer", "Contributor", "Observer"}

IndependenceAttestation ==
    [no_common_control : BOOLEAN, no_coordination : BOOLEAN, identity_verified : BOOLEAN]

is_valid(att) == att.no_common_control /\ att.no_coordination /\ att.identity_verified

(* An Approval: the attestation is optional, {} for None. *)
Approval ==
    [approver_did : Members, role : Role, attestation : SUBSET IndependenceAttestation]

QuorumPolicy ==
    [min_approvals : Nat, min_independent : Nat, required_roles : SUBSET Role]

ASSUME GovernanceAssumption ==
    /\ IsFiniteSet(Members)
    /\ Policies \subseteq QuorumPolicy
    /\ Absent \notin Evidence
    /\ Thresholds \subseteq Nat /\ MaxCloses \in Nat /\ MaxFiled \in Nat

(* The policy's timeout is not looked at; Contested is never returned. *)
compute_quorum(approvals, policy) ==
    IF /\ Cardinality(approvals) >= policy.min_approvals
       /\ \A r \in policy.required_roles : \E a \in approvals : a.role = r
       /\ Cardinality({a \in approvals : \E att \in a.attestation : is_valid(att)})
             >= policy.min_independent
    THEN "Met" ELSE "NotMet"

----------------------------------------------------------------------------
(* deliberation.rs *)
Position == {"For", "Against", "Abstain"}
Vote == [voter_did : Members, position : Position]
DeliberationStatus == {"Open", "Closed", "Cancelled"}
Deliberation == [votes : SUBSET Vote, status : DeliberationStatus]

open_deliberation == [votes |-> {}, status |-> "Open"]

Cast(d, position) == {v \in d.votes : v.position = position}

MayVote(d, did) == d.status = "Open" /\ \A v \in d.votes : v.voter_did # did
WithVote(d, did, position) ==
    [d EXCEPT !.votes = @ \cup {[voter_did |-> did, position |-> position]}]

(* The voter need not be a participant. *)
cast_vote(did, position) ==
    /\ MayVote(delib, did)
    /\ delib' = WithVote(delib, did, position)
    /\ UNCHANGED <<results, registry, register, filed, clearances, challenge, paused, plan>>

(* Every vote For becomes the approval of a Contributor with a full
   attestation, whoever cast it. *)
Approvals(d) ==
    LET full == [no_common_control |-> TRUE, no_coordination |-> TRUE,
                 identity_verified |-> TRUE]
    IN  {[approver_did |-> v.voter_did, role |-> "Contributor", attestation |-> {full}] :
            v \in Cast(d, "For")}

DeliberationResult(d, policy) ==
    [outcome |-> IF compute_quorum(Approvals(d), policy) # "Met" THEN "NoQuorum"
                 ELSE IF Cardinality(Cast(d, "For")) > Cardinality(Cast(d, "Against"))
                      THEN "Approved" ELSE "Rejected",
     votes_for |-> Cardinality(Cast(d, "For")),
     votes_against |-> Cardinality(Cast(d, "Against")),
     abstentions |-> Cardinality(Cast(d, "Abstain"))]

(* A deliberation may be closed again, under another policy. *)
close(policy) ==
    /\ Len(results) < MaxCloses
    /\ delib' = [delib EXCEPT !.status = "Closed"]
    /\ results' = Append(results, <<policy, DeliberationResult(delib, policy)>>)
    /\ UNCHANGED <<registry, register, filed, clearances, challenge, paused, plan>>

----------------------------------------------------------------------------
(* crosscheck.rs *)
IdentityRegistry ==
    [signing_keys : [Members -> Evidence \cup {Absent}],
     attestation_roots : [Members -> Evidence \cup {Absent}],
     control_metadata : [Members -> Evidence \cup {Absent}]]

Share(map, a, b) == map[a] # Absent /\ map[a] = map[b]

(* Mutant: the first member of a group stays outside its cluster. *)
Grouped_NotFirst(map, actors) ==
    {actors[i] : i \in {k \in DOMAIN actors :
        \E j \in DOMAIN actors : j < k /\ Share(map, actors[k], actors[j])}}

(* Members of a group of more than one; an actor listed twice is a group. *)
Grouped(map, actors) ==
    {actors[i] : i \in {k \in DOMAIN actors :
        \E j \in DOMAIN actors : j # k /\ Share(map, actors[k], actors[j])}}

verify_independence(actors, reg) ==
    LET named == Grouped(reg.signing_keys, actors) \cup Grouped(reg.attestation_roots, actors)
        listed == {actors[i] : i \in DOMAIN actors}
    IN  [independent_count |->
            Cardinality(listed \ (named \cup Grouped(reg.control_metadata, actors))),
         suspicious_pairs |->
            {<<actors[p[1]], actors[p[2]]>> : p \in
                {q \in (DOMAIN actors) \X (DOMAIN actors) :
                    /\ q[1] < q[2]
                    /\ Share(reg.control_metadata, actors[q[1]], actors[q[2]])
                    /\ ~({actors[q[1]], actors[q[2]]} \subseteq named)}}]

(* The pairs of different actors who did the same within 100 ms. *)
COORDINATION_MS == 100
TimestampedAction == [actor : Members, timestamp : Nat, action_hash : Evidence]

Near(t, u) == t - u <= COORDINATION_MS /\ u - t <= COORDINATION_MS

detect_coordination(actions) ==
    {{actions[p[1]].actor, actions[p[2]].actor} : p \in
        {q \in (DOMAIN actions) \X (DOMAIN actions) :
            LET a == actions[q[1]]
                b == actions[q[2]]
            IN  /\ q[1] < q[2] /\ a.actor # b.actor
                /\ Near(a.timestamp, b.timestamp) /\ a.action_hash = b.action_hash}}

(* The identity data changes between two crosschecks. *)
SetEvidence(kind, did, e) ==
    /\ registry' = [registry EXCEPT ![kind][did] = e]
    /\ UNCHANGED <<delib, results, register, filed, clearances, challenge, paused, plan>>

----------------------------------------------------------------------------
(* conflict.rs; `nature' is told apart only by the words the code looks for. *)
Nature == {"financial", "ownership", "personal", "family", "other"}
ConflictDeclaration ==
    [declarant_did : Members, nature : Nature, related_dids : SUBSET Members]

StandingConflictRegister ==
    [entries : SUBSET ConflictDeclaration, acknowledgments : Seq(Members)]

Severity(nature) ==
    CASE nature \in {"financial", "ownership"} -> "Disqualifying"
      [] nature \in {"personal", "family"} -> "Material"
      [] OTHER -> "Advisory"

Duplicate(decl) == decl \in register.entries

Register(decl) ==
    /\ register' = IF Duplicate(decl) THEN register
                   ELSE [register EXCEPT !.entries = @ \cup {decl}]
    /\ filed' = filed \cup {decl}
    /\ Cardinality(filed') <= MaxFiled
    /\ UNCHANGED <<delib, results, registry, clearances, challenge, paused, plan>>

record_acknowledgment(did) ==
    /\ Len(register.acknowledgments) < MaxFiled
    /\ register' = [register EXCEPT !.acknowledgments = Append(@, did)]
    /\ UNCHANGED <<delib, results, registry, filed, clearances, challenge, paused, plan>>

(* All acknowledgments by others, of whatever declaration. *)
acknowledgment_count(declarant) ==
    Cardinality({i \in DOMAIN register.acknowledgments :
                    register.acknowledgments[i] # declarant})

declarations_for_action(actor, affected) ==
    {d \in register.entries : d.declarant_did = actor /\ d.related_dids \cap affected # {}}

check_conflicts(actor, affected, declarations) ==
    {[declaration |-> c[1], affected_did |-> c[2], severity |-> Severity(c[1].nature)] :
        c \in {p \in declarations \X affected :
                  p[1].declarant_did = actor /\ p[2] \in p[1].related_dids}}

must_recuse(conflicts) == \E c \in conflicts : c.severity \in {"Disqualifying", "Material"}

check_and_block(conflicts) == ~must_recuse(conflicts)

adjusted_quorum_denominator(total, recused) ==
    IF total - recused >= 1 THEN total - recused ELSE 1

----------------------------------------------------------------------------
(* clearance.rs *)
ClearanceLevel == <<"None", "ReadOnly", "Contributor", "Reviewer", "Steward", "Governor">>

get_level(did) == IF did \in DOMAIN clearances THEN clearances[did] ELSE 1

set_level(did, level) ==
    /\ clearances' = [d \in DOMAIN clearances \cup {did} |->
                         IF d = did THEN level ELSE clearances[d]]
    /\ UNCHANGED <<delib, results, registry, register, filed, challenge, paused, plan>>

(* An action without a policy, {}, needs a Governor and is denied to one too. *)
check_clearance(did, required) ==
    \E level \in required : get_level(did) >= level

----------------------------------------------------------------------------
(* challenge.rs; nothing in the code puts a challenge under review. *)
ChallengeStatus == {"Filed", "UnderReview", "Sustained", "Overruled", "Withdrawn"}
NoChallenge == "NoChallenge"

Pending == challenge \in {"Filed", "UnderReview"}

ChallengeStep(status) ==
    /\ challenge' = status
    /\ UNCHANGED <<delib, results, registry, register, filed, clearances, paused, plan>>

file_challenge == challenge = NoChallenge /\ ChallengeStep("Filed")

adjudicate(verdict) ==
    Pending /\ ChallengeStep(IF verdict = "Sustain" THEN "Sustained" ELSE "Overruled")

withdraw == Pending /\ ChallengeStep("Withdrawn")

(* An order can be drawn from a challenge in any status. *)
pause_action ==
    /\ challenge # NoChallenge
    /\ paused' = TRUE
    /\ UNCHANGED <<delib, results, registry, register, filed, clearances, challenge, plan>>

----------------------------------------------------------------------------
(* succession.rs *)
SuccessionPlan == [current_holder : Members, successors : Seq(Members)]

next_successor(p) == IF p.successors = <<>> THEN {} ELSE {Head(p.successors)}

(* The elapsed time is cut off at zero. *)
Unresponsive(now, last_active, duration) ==
    (IF now >= last_active THEN now - last_active ELSE 0) >= duration

SuccessionTrigger ==
    [kind : {"Declaration"}]
    \cup [kind : {"Unresponsiveness"}, duration : Thresholds, last_active : Thresholds]
    \cup [kind : {"DesignatedActivator"}, activator : Members]

Triggers(p, trigger, now) ==
    \/ trigger.kind = "Declaration"
    \/ trigger.kind = "Unresponsiveness"
          /\ Unresponsive(now, trigger.last_active, trigger.duration)
    \/ trigger.kind = "DesignatedActivator" /\ trigger.activator # p.current_holder

(* The result, applied to the plan by its keeper: the plan itself is not
   changed by the call. *)
activate_succession(trigger, now) ==
    /\ Triggers(plan, trigger, now)
    /\ \E did \in next_successor(plan) :
          plan' = [current_holder |-> did, successors |-> Tail(plan.successors)]
    /\ UNCHANGED <<delib, results, registry, register, filed, clearances, challenge, paused>>

----------------------------------------------------------------------------
GovInit ==
    /\ delib = open_deliberation
    /\ results = <<>>
    /\ registry = [signing_keys |-> [d \in Members |-> Absent],
                   attestation_roots |-> [d \in Members |-> Absent],
                   control_metadata |-> [d \in Members |-> Absent]]
    /\ register = [entries |-> {}, acknowledgments |-> <<>>]
    /\ filed = {}
    /\ clearances = [d \in {} |-> 1]
    /\ challenge = NoChallenge
    /\ paused = FALSE
    /\ plan \in [current_holder : Members,
                successors : UNION {[1..n -> Members] : n \in 0..2}]

DelibStep ==
    \/ \E did \in Members, position \in Position : cast_vote(did, position)
    \/ \E policy \in Policies : close(policy)

EvidenceStep ==
    \E kind \in DOMAIN registry, did \in Members, e \in Evidence \cup {Absent} :
       SetEvidence(kind, did, e)

ConflictStep ==
    \/ \E decl \in ConflictDeclaration : Register(decl)
    \/ \E did \in Members : record_acknowledgment(did)

OfficeStep ==
    \/ \E did \in Members, level \in DOMAIN ClearanceLevel : set_level(did, level)
    \/ file_challenge \/ withdraw \/ pause_action
    \/ \E verdict \in {"Sustain", "Overrule"} : adjudicate(verdict)
    \/ \E trigger \in SuccessionTrigger, now \in Thresholds : activate_succession(trigger, now)

GovNext == DelibStep \/ EvidenceStep \/ ConflictStep \/ OfficeStep

GovSpec == GovInit /\ [][GovNext]_govVars

----------------------------------------------------------------------------
GovTypeOK ==
    /\ delib \in Deliberation
    /\ Approvals(delib) \subseteq Approval
    /\ registry \in IdentityRegistry
    /\ register \in StandingConflictRegister /\ filed \subseteq ConflictDeclaration
    /\ DOMAIN clearances \subseteq Members
    /\ \A d \in DOMAIN clearances : clearances[d] \in DOMAIN ClearanceLevel
    /\ challenge \in ChallengeStatus \cup {NoChallenge} /\ paused \in BOOLEAN
    /\ plan \in SuccessionPlan

(* What a close announced stays what the votes say, through later votes and
   closes: closes under one policy agree, and an approval has a majority of at
   least min_approvals voters (deliberation.rs `close' after `cast_vote'). *)
AnnouncedStands ==
    \A i \in DOMAIN results :
       LET policy == results[i][1]
           r == results[i][2]
       IN  /\ r = DeliberationResult(delib, policy)
           /\ r.outcome = "Approved" =>
                 /\ r.votes_for > r.votes_against
                 /\ Cardinality({v.voter_did : v \in Cast(delib, "For")}) >= policy.min_approvals

(* crosscheck.rs: one more actor that shares a key, a root or a controller with
   one of the list never raises the independent count, whether it comes first
   or last. *)
LinkedNeverCounts ==
    \A actors \in UNION {[1..n -> Members] : n \in 1..Cardinality(Members)}, a \in Members :
       LET linked == \E i \in DOMAIN actors, kind \in DOMAIN registry :
                        Share(registry[kind], actors[i], a)
           count(s) == verify_independence(s, registry).independent_count
       IN  linked => /\ count(Append(actors, a)) <= count(actors)
                     /\ count(<<a>> \o actors) <= count(actors)

(* conflict.rs "automatically re-evaluated in subsequent decisions": every
   declaration ever filed still forces the recusal its nature calls for, the
   register's view of an action and check_conflicts' agree, and a board of
   which someone may still act keeps a denominator of those who may. *)
NoConflictLost ==
    LET Recused(affected) ==
           {m \in Members : ~check_and_block(check_conflicts(m, affected, register.entries))}
    IN  \A affected \in SUBSET Members :
          /\ Recused(affected) =
                {d.declarant_did : d \in {e \in filed : e.nature # "other"
                                          /\ e.related_dids \cap affected # {}}}
          /\ \A m \in Members :
                {c.declaration : c \in check_conflicts(m, affected, register.entries)}
                   = declarations_for_action(m, affected)
          /\ Recused(affected) # Members =>
                adjusted_quorum_denominator(Cardinality(Members), Cardinality(Recused(affected)))
                   = Cardinality(Members \ Recused(affected))

(* The library of exo-governance keeps its word: an announced result stands,
   linked members never count twice and no declared conflict is lost. *)
GovernanceSound == GovTypeOK /\ AnnouncedStands /\ LinkedNeverCounts /\ NoConflictLost
=============================================================================
