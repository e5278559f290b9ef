--------------------------- MODULE ForumDecision ----------------------------
(***************************************************************************)
(* One decision of crates/decision-forum: the decision object and its life *)
(* cycle (decision_object.rs), the quorum of its class (quorum.rs), the    *)
(* human gate (human_gate.rs), the ten trust-critical controls             *)
(* (tnc_enforcer.rs), the challenges against it (contestation.rs) and the  *)
(* standard workflow (workflow.rs).                                        *)
(*                                                                         *)
(* The functions are called by the embedding application, in any order:    *)
(* every call that returns Ok is an action, a call that returns Err        *)
(* changes nothing.  Nothing reads what an item of evidence or an          *)
(* authority link says, nor the order of the votes, so the first two are   *)
(* counted and the votes are a set.  hash_structured is taken to be        *)
(* collision free.                                                         *)
(***************************************************************************)
EXTENDS Integers, Sequences, FiniteSets

CONSTANTS
    Voters,           \* the DIDs that may vote
    Actors,           \* the DIDs that drive the life cycle
    Times,            \* the readings of the clocks passed in
    Decisions,        \* decision ids a challenge may name
    MaxReceipts,      \* bound on the life cycle
    MaxItems,         \* bound on evidence and on authority links
    MaxChallenges     \* bound on the challenges filed

ASSUME ForumAssumption ==
    /\ IsFiniteSet(Voters)
    /\ MaxReceipts \in Nat /\ MaxItems \in Nat /\ MaxChallenges \in Nat

VARIABLES
    class,            \* DecisionObject.class
    state,            \* DecisionObject.state
    authority_chain,  \* the number of links in DecisionObject.authority_chain
    votes,            \* DecisionObject.votes
    evidence_bundle,  \* the number of items in DecisionObject.evidence_bundle
    receipt_chain,    \* DecisionObject.receipt_chain
    challenges,       \* the ChallengeObjects filed
    reversals         \* the ReversalLinks made

decision == <<class, state, authority_chain, votes, evidence_bundle,
              receipt_chain>>
vars == <<class, state, authority_chain, votes, evidence_bundle,
          receipt_chain, challenges, reversals>>

-----------------------------------------------------------------------------
(* DecisionClass derives its order from the order of its variants. *)
DecisionClass == {"Routine", "Operational", "Strategic", "Constitutional"}

Rank(c) ==
    CASE c = "Routine"        -> 1
      [] c = "Operational"    -> 2
      [] c = "Strategic"      -> 3
      [] c = "Constitutional" -> 4

(* A human, or an AI agent, named by the class it is allowed up to. *)
ActorKind == {"Human"} \cup DecisionClass

VoteChoice == {"Approve", "Reject", "Abstain"}

Vote == [voter_did : Voters, choice : VoteChoice, actor_kind : ActorKind]

is_human_vote(vote) == vote.actor_kind = "Human"

Approvals(vs) == {v \in vs : v.choice = "Approve"}
HumanVotes(vs) == {v \in vs : is_human_vote(v)}

-----------------------------------------------------------------------------
(* The life cycle is that of exo_core::bcts, receipts included. *)
Core == INSTANCE BctsCore
        WITH MaxTransitions <- MaxReceipts,
             MaxEdited      <- MaxReceipts,
             current_state  <- state,
             transitions    <- receipt_chain,
             receipt_chain  <- [i \in 1..Len(receipt_chain) |->
                                   receipt_chain[i].receipt_hash]

new(c) ==
    /\ class = c
    /\ state = "Draft"
    /\ authority_chain = 0
    /\ votes = {}
    /\ evidence_bundle = 0
    /\ receipt_chain = <<>>

is_terminal(s) == s = "Closed"

(* Mutant: a receipt does not chain to the one before it. *)
compute_receipt_hash_Unchained(from, to, time, actor) ==
    Core!Receipt(from, to, time, actor, Core!ZERO)

compute_receipt_hash(from, to, time, actor) ==
    LET prev == IF receipt_chain = <<>> THEN Core!ZERO
                ELSE receipt_chain[Len(receipt_chain)].receipt_hash
    IN  Core!Receipt(from, to, time, actor, prev)

transition(to, actor, time) ==
    /\ ~is_terminal(state)
    /\ Core!can_transition_to(state, to)
    /\ Len(receipt_chain) < MaxReceipts
    /\ receipt_chain' = Append(receipt_chain,
          [from_state |-> state, to_state |-> to, timestamp |-> time,
           receipt_hash |-> compute_receipt_hash(state, to, time, actor),
           actor_did |-> actor])
    /\ state' = to
    /\ UNCHANGED <<class, authority_chain, votes, evidence_bundle,
                   challenges, reversals>>

add_vote(vote) ==
    /\ ~is_terminal(state)
    /\ \A v \in votes : v.voter_did # vote.voter_did
    /\ votes' = votes \cup {vote}
    /\ UNCHANGED <<class, state, authority_chain, evidence_bundle,
                   receipt_chain, challenges, reversals>>

(* Mutant: evidence is accepted at any time. *)
add_evidence_Late ==
    /\ evidence_bundle < MaxItems
    /\ evidence_bundle' = evidence_bundle + 1
    /\ UNCHANGED <<class, state, authority_chain, votes, receipt_chain,
                   challenges, reversals>>

add_evidence ==
    /\ ~is_terminal(state)
    /\ evidence_bundle < MaxItems
    /\ evidence_bundle' = evidence_bundle + 1
    /\ UNCHANGED <<class, state, authority_chain, votes, receipt_chain,
                   challenges, reversals>>

add_authority_link ==
    /\ ~is_terminal(state)
    /\ authority_chain < MaxItems
    /\ authority_chain' = authority_chain + 1
    /\ UNCHANGED <<class, state, votes, evidence_bundle, receipt_chain,
                   challenges, reversals>>

-----------------------------------------------------------------------------
(* Mutant: two human votes are enough for a strategic decision. *)
with_defaults_TwoHumans ==
    [c \in DecisionClass |->
        CASE c = "Routine"        -> [min_votes |-> 1, min_approve_pct |-> 51,
                                      min_human_votes |-> 0]
          [] c = "Operational"    -> [min_votes |-> 3, min_approve_pct |-> 51,
                                      min_human_votes |-> 1]
          [] c = "Strategic"      -> [min_votes |-> 5, min_approve_pct |-> 67,
                                      min_human_votes |-> 2]
          [] c = "Constitutional" -> [min_votes |-> 7, min_approve_pct |-> 75,
                                      min_human_votes |-> 5]]

(* QuorumRegistry::with_defaults. *)
with_defaults ==
    [c \in DecisionClass |->
        CASE c = "Routine"        -> [min_votes |-> 1, min_approve_pct |-> 51,
                                      min_human_votes |-> 0]
          [] c = "Operational"    -> [min_votes |-> 3, min_approve_pct |-> 51,
                                      min_human_votes |-> 1]
          [] c = "Strategic"      -> [min_votes |-> 5, min_approve_pct |-> 67,
                                      min_human_votes |-> 3]
          [] c = "Constitutional" -> [min_votes |-> 7, min_approve_pct |-> 75,
                                      min_human_votes |-> 5]]

(* Mutant: the percentage is rounded to the nearest. *)
approve_pct_Nearest(approve_count, total_votes) ==
    IF total_votes > 0
    THEN (approve_count * 200 + total_votes) \div (2 * total_votes) ELSE 0

approve_pct(approve_count, total_votes) ==
    IF total_votes > 0 THEN (approve_count * 100) \div total_votes ELSE 0

Meets(req, total_votes, approve_count, human_count) ==
    CASE total_votes < req.min_votes -> "Degraded"
      [] total_votes >= req.min_votes ->
            IF \/ human_count < req.min_human_votes
               \/ approve_pct(approve_count, total_votes) < req.min_approve_pct
            THEN "NotMet" ELSE "Met"

check_quorum(registry, c, vs) ==
    IF c \notin DOMAIN registry THEN "QuorumPolicyMissing"
    ELSE Meets(registry[c], Cardinality(vs), Cardinality(Approvals(vs)),
               Cardinality(HumanVotes(vs)))

verify_quorum_precondition(registry, c, eligible_voters) ==
    c \in DOMAIN registry /\ eligible_voters >= registry[c].min_votes

-----------------------------------------------------------------------------
(* HumanGatePolicy::default. *)
human_required_classes == {"Strategic", "Constitutional"}
ai_ceiling == "Operational"

(* Whether enforce_human_gate returns Ok. *)
enforce_human_gate(c, vs) ==
    /\ Rank(c) > Rank(ai_ceiling) => vs = {} \/ HumanVotes(vs) # {}
    /\ c \in human_required_classes => HumanVotes(vs) # {}

-----------------------------------------------------------------------------
(* The flags of TncContext; its decision is this one. *)
TncFlag == {"constitutional_hash_valid", "consent_verified",
            "identity_verified", "evidence_complete", "quorum_met",
            "human_gate_satisfied", "authority_chain_verified",
            "ai_ceilings_externally_verified"}

TncContext == [TncFlag -> BOOLEAN]

enforce_tnc_09(ctx) ==
    \A v \in votes :
        ~is_human_vote(v) =>
            Rank(class) <= IF ctx["ai_ceilings_externally_verified"]
                           THEN Rank(v.actor_kind) ELSE Rank("Routine")

(* Whether enforce_all returns Ok: the ten controls, in order. *)
enforce_all(ctx) ==
    /\ ctx["authority_chain_verified"] /\ authority_chain > 0
    /\ ctx["human_gate_satisfied"]
    /\ ctx["consent_verified"]
    /\ ctx["identity_verified"]
    /\ ctx["authority_chain_verified"]
    /\ ctx["constitutional_hash_valid"]
    /\ ctx["quorum_met"]
    /\ ~is_terminal(state)
    /\ enforce_tnc_09(ctx)
    /\ ctx["evidence_complete"]

(* Whether the n-th control alone returns Ok. *)
enforce_tnc(n, ctx) ==
    CASE n = 1  -> ctx["authority_chain_verified"] /\ authority_chain > 0
      [] n = 2  -> ctx["human_gate_satisfied"]
      [] n = 3  -> ctx["consent_verified"]
      [] n = 4  -> ctx["identity_verified"]
      [] n = 5  -> ctx["authority_chain_verified"]
      [] n = 6  -> ctx["constitutional_hash_valid"]
      [] n = 7  -> ctx["quorum_met"]
      [] n = 8  -> ~is_terminal(state)
      [] n = 9  -> enforce_tnc_09(ctx)
      [] n = 10 -> ctx["evidence_complete"]

collect_violations(ctx) == {n \in 1..10 : ~enforce_tnc(n, ctx)}

(* What content_hash covers of a decision, besides its id, title and       *)
(* constitution: votes, evidence and receipts only by their number, the    *)
(* authority chain not at all.                                             *)
content_hash == <<class, state, Cardinality(votes), evidence_bundle, Len(receipt_chain)>>

-----------------------------------------------------------------------------
Unresolved == {"Filed", "UnderReview"}

(* None and Some(t). *)
None == {}
Some(t) == {t}

file_challenge(d) ==
    /\ Len(challenges) < MaxChallenges
    /\ challenges' = Append(challenges, [decision_id |-> d, status |-> "Filed",
                                         resolved_at |-> None])
    /\ UNCHANGED <<decision, reversals>>

begin_review(i) ==
    /\ challenges[i].status = "Filed"
    /\ challenges' = [challenges EXCEPT ![i].status = "UnderReview"]
    /\ UNCHANGED <<decision, reversals>>

adjudicate(i, verdict, time) ==
    /\ challenges[i].status \in Unresolved
    /\ challenges' = [challenges EXCEPT
          ![i].status = IF verdict = "Sustain" THEN "Sustained" ELSE "Overruled",
          ![i].resolved_at = Some(time)]
    /\ UNCHANGED <<decision, reversals>>

(* Mutant: whatever is not yet overruled can be withdrawn. *)
withdraw_Sustained(i) ==
    /\ challenges[i].status \in Unresolved \cup {"Sustained"}
    /\ challenges' = [challenges EXCEPT ![i].status = "Withdrawn",
                                        ![i].resolved_at = None]
    /\ UNCHANGED <<decision, reversals>>

withdraw(i) ==
    /\ challenges[i].status \in Unresolved
    /\ challenges' = [challenges EXCEPT ![i].status = "Withdrawn"]
    /\ UNCHANGED <<decision, reversals>>

create_reversal(i, reversal, time) ==
    /\ challenges[i].status = "Sustained"
    /\ reversals' = reversals \cup
          {[original_decision_id |-> challenges[i].decision_id,
            reversal_decision_id |-> reversal, challenge_id |-> i,
            reversed_at |-> time]}
    /\ UNCHANGED <<decision, challenges>>

is_contested(filed, d) ==
    \E c \in filed : c.decision_id = d /\ c.status \in Unresolved

-----------------------------------------------------------------------------
(* The states of the stages of WorkflowDefinition::standard_governance;    *)
(* every stage but the first requires a receipt.                           *)
standard_governance ==
    <<"Draft", "Submitted", "IdentityResolved", "ConsentValidated",
      "Deliberated", "Verified", "Governed", "Approved", "Executed",
      "Recorded", "Closed">>

Stages == 1..Len(standard_governance)

requires_receipt(s) == \E i \in Stages \ {1} : standard_governance[i] = s

(* The stage after the one of state s, if both exist. *)
next_stage(s) ==
    {standard_governance[i + 1] :
        i \in {j \in Stages : j + 1 \in Stages /\ standard_governance[j] = s}}

-----------------------------------------------------------------------------
Init ==
    /\ \E c \in DecisionClass : new(c)
    /\ challenges = <<>>
    /\ reversals = {}

Next ==
    \/ \E to \in Core!BctsState, actor \in Actors, time \in Times :
          transition(to, actor, time)
    \/ \E vote \in Vote : add_vote(vote)
    \/ add_evidence
    \/ add_authority_link
    \/ \E d \in Decisions : file_challenge(d)
    \/ \E i \in 1..Len(challenges) :
          \/ begin_review(i)
          \/ \E verdict \in {"Sustain", "Overrule"}, time \in Times :
                adjudicate(i, verdict, time)
          \/ withdraw(i)
          \/ \E d \in Decisions, time \in Times : create_reversal(i, d, time)

Spec == Init /\ [][Next]_vars

-----------------------------------------------------------------------------
ChallengeStatus ==
    {"Filed", "UnderReview", "Sustained", "Overruled", "Withdrawn"}

(* The fields of the decision and of the challenges keep their types; a    *)
(* challenge has a resolution time when it was adjudicated and only then   *)
(* (adjudicate, withdraw).                                                 *)
TypeOK ==
    /\ class \in DecisionClass
    /\ state \in Core!BctsState
    /\ authority_chain \in 0..MaxItems
    /\ evidence_bundle \in 0..MaxItems
    /\ votes \subseteq Vote
    /\ Len(receipt_chain) <= MaxReceipts
    /\ Len(challenges) <= MaxChallenges
    /\ \A i \in 1..Len(challenges) :
          /\ challenges[i].decision_id \in Decisions
          /\ challenges[i].status \in ChallengeStatus
          /\ challenges[i].resolved_at # None <=>
                challenges[i].status \in {"Sustained", "Overruled"}

(* A decision object lives the life of a transaction of exo_core::bcts,    *)
(* receipt for receipt ("14-state lifecycle matching BCTS",                *)
(* decision_object.rs): what BctsCore shows of transactions, that they     *)
(* execute only through every gate and that an edited receipt is noticed,  *)
(* holds of decisions.                                                     *)
LifeCycle == Core!Spec

(* Once a decision is closed, no call changes its class, votes, evidence,  *)
(* authority chain or receipts (TNC-08, is_terminal in every method).      *)
ClosedIsFinal == [][state = "Closed" => UNCHANGED decision]_vars

(* A quorum is met only by as many different voters as the class demands:  *)
(* a decision whose electorate fails verify_quorum_precondition can never  *)
(* meet it, because add_vote takes one vote of each DID.                   *)
MetByDistinctVoters ==
    check_quorum(with_defaults, class, votes) = "Met" =>
        verify_quorum_precondition(with_defaults, class,
            Cardinality({v.voter_did : v \in votes}))

(* The integer percentage of check_quorum never lets a decision pass below *)
(* the exact share its class requires.                                     *)
MetIsSupermajority ==
    check_quorum(with_defaults, class, votes) = "Met" =>
        Cardinality(Approvals(votes)) * 100 >=
            with_defaults[class].min_approve_pct * Cardinality(votes)

(* A met quorum is a quorum: of enough voters, with their exact share      *)
(* (check_quorum, add_vote).                                               *)
QuorumSound == MetByDistinctVoters /\ MetIsSupermajority

(* One more approval, by whomever, never loses a quorum that was met       *)
(* (check_quorum, add_vote).                                               *)
ApprovalKeepsQuorum ==
    check_quorum(with_defaults, class, votes) = "Met" =>
        \A u \in Voters, k \in ActorKind :
            (\A v \in votes : v.voter_did # u) =>
                check_quorum(with_defaults, class, votes \cup
                    {[voter_did |-> u, choice |-> "Approve", actor_kind |-> k]})
                        = "Met"

(* A quorum that is met was met by the right voters and stays met as more  *)
(* approve (check_quorum, add_vote).                                       *)
QuorumHolds == QuorumSound /\ ApprovalKeepsQuorum

(* The default quorum table and the default gate policy agree: a decision  *)
(* that meets its quorum passes the human gate.                            *)
MetPassesHumanGate ==
    check_quorum(with_defaults, class, votes) = "Met" =>
        enforce_human_gate(class, votes)

(* Fewer than ten votes cannot carry a decision of a human-gated class     *)
(* under the default quorums unless a human approves it.                   *)
AgentsAloneCannotCarry ==
    /\ class \in human_required_classes
    /\ Cardinality(votes) < 10
    /\ check_quorum(with_defaults, class, votes) = "Met"
    => HumanVotes(votes) \cap Approvals(votes) # {}

(* Under the default policies a quorum implies the human gate, and in a    *)
(* small electorate a human approval (check_quorum, enforce_human_gate).   *)
HumansCarry == MetPassesHumanGate /\ AgentsAloneCannotCarry

(* The most permissive context whose quorum and gate flags are honest and  *)
(* in which the ceilings of the agents were not looked up.                 *)
UnverifiedContext ==
    [f \in TncFlag |->
        CASE f = "quorum_met" ->
                check_quorum(with_defaults, class, votes) = "Met"
          [] f = "human_gate_satisfied" -> enforce_human_gate(class, votes)
          [] f = "ai_ceilings_externally_verified" -> FALSE
          [] OTHER -> TRUE]

(* Above Routine, a decision that passes the ten controls while the agents *)
(* ceilings are unverified is carried by humans: they alone are a quorum   *)
(* (enforce_tnc_09, "a fail-closed posture").                              *)
UnverifiedNeedsHumanQuorum ==
    class # "Routine" /\ enforce_all(UnverifiedContext) =>
        check_quorum(with_defaults, class, HumanVotes(votes)) = "Met"

(* Humans decide what the policies reserve for them (enforce_human_gate,   *)
(* enforce_tnc_09, with_defaults).                                         *)
HumansDecide == HumansCarry /\ UnverifiedNeedsHumanQuorum

(* A reversal rests for ever on a sustained challenge against the decision *)
(* it reverses (create_reversal, adjudicate, withdraw).                    *)
ReversalsStand ==
    \A r \in reversals :
        /\ challenges[r.challenge_id].status = "Sustained"
        /\ challenges[r.challenge_id].decision_id = r.original_decision_id

(* The standard workflow is a walk through the life cycle: the next stage  *)
(* is always a legal change, and a decision in a stage that requires a     *)
(* receipt holds one for entering it (standard_governance, transition).    *)
WorkflowFollowsLifeCycle ==
    /\ \A s \in next_stage(state) : Core!can_transition_to(state, s)
    /\ requires_receipt(state) =>
          /\ receipt_chain # <<>>
          /\ receipt_chain[Len(receipt_chain)].to_state = state

(* A decision follows the standard workflow, and its reversals stand.      *)
RecordStands == ReversalsStand /\ WorkflowFollowsLifeCycle

(* HumanGatePolicy says of its human_required_classes that they "always    *)
(* require at least one human approval".                                   *)
GateMeansHumanApproval ==
    /\ class \in human_required_classes
    /\ enforce_human_gate(class, votes)
    /\ check_quorum(with_defaults, class, votes) = "Met"
    => HumanVotes(votes) \cap Approvals(votes) # {}
=============================================================================
