--------------------------- MODULE ForumBindings ----------------------------
(***************************************************************************)
(* The decision forum as a JavaScript host sees it:                        *)
(* crates/exochain-wasm/src/decision_forum_bindings.rs over                *)
(* serde_bridge.rs.                                                        *)
(*                                                                         *)
(* No binding keeps anything.  Each one parses the copy of an object that  *)
(* the host passes in, calls the library and returns a new copy; on an     *)
(* error it returns none, and whatever the library changed before failing  *)
(* is lost.  The host keeps the copies it likes: it may replace the one it *)
(* passed in, or keep both and go on from either.  The host is taken to    *)
(* pass in only what a binding gave it.  Every call makes a clock of its   *)
(* own, so the times of two calls are unrelated.                           *)
(***************************************************************************)
EXTENDS ForumDecision, ForumPowers, ForumRecords

CONSTANTS
    MaxHeld,      \* bound on the copies a host keeps
    MaxForked     \* bound on the receipts of a copy that is not the only one

ASSUME BindingsAssumption == MaxHeld \in Nat /\ MaxForked \in 0..MaxReceipts

VARIABLE held     \* the copies the host keeps

Copies(kind) == {x \in held : x.kind = kind}

(* from_json_str, `?' and to_js_value: one copy, or none with an Err. *)
Return(ok, copy) == IF ok THEN {copy} ELSE {}

(* A copy of a decision, with the library's functions about it. *)
At(d) == INSTANCE ForumDecision
         WITH class           <- d.class,
              state           <- d.state,
              authority_chain <- d.authority_chain,
              votes           <- d.votes,
              evidence_bundle <- d.evidence_bundle,
              receipt_chain   <- d.receipt_chain,
              challenges      <- <<>>,
              reversals       <- {}

wasm_create_decision(c) ==
    [kind |-> "decision", class |-> c, state |-> "Draft", authority_chain |-> 0,
     votes |-> {}, evidence_bundle |-> 0, receipt_chain |-> <<>>]

(* Mutant: the copy's new state is returned without its receipt. *)
wasm_transition_decision_NoReceipt(d, to, actor, time) ==
    Return(~is_terminal(d.state) /\ Core!can_transition_to(d.state, to),
           [d EXCEPT !.state = to])

wasm_transition_decision(d, to, actor, time) ==
    Return(~is_terminal(d.state) /\ Core!can_transition_to(d.state, to),
           [d EXCEPT !.state = to, !.receipt_chain = Append(@,
              [from_state |-> d.state, to_state |-> to, timestamp |-> time,
               receipt_hash |-> At(d)!compute_receipt_hash(d.state, to, time, actor),
               actor_did |-> actor])])

wasm_add_vote(d, vote) ==
    Return(~is_terminal(d.state) /\ \A v \in d.votes : v.voter_did # vote.voter_did,
           [d EXCEPT !.votes = @ \cup {vote}])

wasm_add_evidence(d) ==
    Return(~is_terminal(d.state), [d EXCEPT !.evidence_bundle = @ + 1])

wasm_decision_is_terminal(d) == is_terminal(d.state)
wasm_decision_content_hash(d) == At(d)!content_hash

wasm_workflow_stages ==
    standard_governance \o <<"Denied", "Escalated", "Remediated">>

-----------------------------------------------------------------------------
(* TncFlags: the host names the flags that are true; the others default to *)
(* false.                                                                  *)
build_tnc_ctx(given) == [f \in TncFlag |-> f \in given]

wasm_enforce_tnc(n, d, given) == At(d)!enforce_tnc(n, build_tnc_ctx(given))

wasm_enforce_all_tnc(d, given) == At(d)!enforce_all(build_tnc_ctx(given))

wasm_collect_tnc_violations(d, given) == At(d)!collect_violations(build_tnc_ctx(given))

wasm_enforce_human_gate(d) == enforce_human_gate(d.class, d.votes)
wasm_requires_human_approval(c) == c \in human_required_classes
wasm_ai_within_ceiling(c) == Rank(c) <= Rank(ai_ceiling)

(* A registry without the class is an error. *)
wasm_check_quorum(registry, d) ==
    Return(d.class \in DOMAIN registry, check_quorum(registry, d.class, d.votes))

-----------------------------------------------------------------------------
wasm_file_challenge(id) ==
    [kind |-> "challenge", decision_id |-> id, status |-> "Filed"]

wasm_begin_review(c) ==
    Return(c.status = "Filed", [c EXCEPT !.status = "UnderReview"])

wasm_withdraw_challenge(c) ==
    Return(c.status \in Unresolved, [c EXCEPT !.status = "Withdrawn"])

-----------------------------------------------------------------------------
wasm_propose_accountability(type, t) ==
    [kind |-> "sanction", action_type |-> type, status |-> "Proposed",
     proposed_at |-> t, enacted_at |-> {}]

wasm_begin_due_process(a) ==
    Return(a.status = "Proposed", [a EXCEPT !.status = "DueProcess"])

wasm_enact_accountability(a, t) ==
    Return(a.status \in {"Proposed", "DueProcess"} /\ EnactInTime(a, t),
           [a EXCEPT !.status = "Enacted", !.enacted_at = {t}])

wasm_reverse_accountability(a) ==
    Return(a.status = "Enacted", [a EXCEPT !.status = "Reversed"])

-----------------------------------------------------------------------------
(* No binding calls check_per_actor_limit. *)
wasm_create_emergency_action(actor, t) ==
    [kind |-> "emergency", actor_did |-> actor, ratification_status |-> "Required",
     ratification_deadline |-> t + RATIFICATION_WINDOW,
     ratification_decision_id |-> FALSE]

(* The library expires the action when it is late, but an Err returns no   *)
(* copy: the host's one stays as it was.                                   *)
wasm_ratify_emergency(e, t) ==
    Return(e.ratification_status = "Required" /\ t <= e.ratification_deadline,
           [e EXCEPT !.ratification_status = "Ratified",
                     !.ratification_decision_id = TRUE])

(* Always returns a copy, expired or not. *)
wasm_check_expiry(e, t) ==
    IF e.ratification_status = "Required" /\ t > e.ratification_deadline
    THEN {[e EXCEPT !.ratification_status = "Expired"]} ELSE {e}

-----------------------------------------------------------------------------
wasm_ratify_constitution(c, signatures) ==
    Return(~c.ratified /\ signatures >= REQUIRED_SIGNATURES, [c EXCEPT !.ratified = TRUE])

wasm_amend_constitution(c, article, signatures) ==
    LET articles == Append(c.articles, article)
    IN  Return(c.ratified /\ signatures > 0,
               [c EXCEPT !.articles = articles, !.version = @ + 1,
                         !.hash = compute_corpus_hash(articles),
                         !.amendment_count = @ + 1])

-----------------------------------------------------------------------------
(* The host takes what a call about copy x returned, and keeps x or not. *)
Takes(x, results) ==
    \E r \in results, dropped \in {{}, {x}} : held' = (held \ dropped) \cup {r}

Creates(x) == held' = held \cup {x}

(* The corpus the host is given to start with. *)
CorpusCopy(c) ==
    [kind |-> "corpus", articles |-> c.articles, version |-> c.version,
     ratified |-> c.ratified, hash |-> c.hash, amendment_count |-> c.amendment_count]

HostInit ==
    \/ held = {}
    \/ \E article \in Article : held = {CorpusCopy(new_corpus(<<article>>))}

DecisionCalls ==
    \/ \E c \in DecisionClass : Creates(wasm_create_decision(c))
    \/ \E d \in Copies("decision") :
          \/ \E to \in Core!BctsState, actor \in Actors, time \in Times :
                Takes(d, wasm_transition_decision(d, to, actor, time))
          \/ \E vote \in Vote : Takes(d, wasm_add_vote(d, vote))
          \/ Takes(d, wasm_add_evidence(d))

ChallengeCalls ==
    \/ \E id \in Decisions : Creates(wasm_file_challenge(id))
    \/ \E c \in Copies("challenge") :
          Takes(c, wasm_begin_review(c)) \/ Takes(c, wasm_withdraw_challenge(c))

SanctionCalls ==
    \/ \E type \in SanctionType, t \in Stamps : Creates(wasm_propose_accountability(type, t))
    \/ \E a \in Copies("sanction") :
          \/ Takes(a, wasm_begin_due_process(a))
          \/ \E t \in Stamps : Takes(a, wasm_enact_accountability(a, t))
          \/ Takes(a, wasm_reverse_accountability(a))

EmergencyCalls ==
    \/ \E actor \in Dids, t \in Stamps : Creates(wasm_create_emergency_action(actor, t))
    \/ \E e \in Copies("emergency"), t \in Stamps :
          Takes(e, wasm_ratify_emergency(e, t)) \/ Takes(e, wasm_check_expiry(e, t))

CorpusCalls ==
    \E c \in Copies("corpus"), signatures \in 0..REQUIRED_SIGNATURES :
        \/ Takes(c, wasm_ratify_constitution(c, signatures))
        \/ /\ c.amendment_count < MaxAmendments
           /\ \E article \in Article :
                 Takes(c, wasm_amend_constitution(c, article, signatures))

HostNext ==
    /\ DecisionCalls \/ ChallengeCalls \/ SanctionCalls \/ EmergencyCalls \/ CorpusCalls
    /\ Cardinality(held') <= MaxHeld
    /\ \A x \in held' : x.kind = "decision" =>
          /\ x.evidence_bundle <= MaxItems
          /\ Len(x.receipt_chain) <= IF held' = {x} THEN MaxReceipts ELSE MaxForked

HostSpec == HostInit /\ [][HostNext]_held

-----------------------------------------------------------------------------
(* Flags with at most one missing, and none at all. *)
Givens == {TncFlag, {}} \cup {TncFlag \ {f} : f \in TncFlag}

(* Every copy of a decision, however often the host forked it, is one the  *)
(* library could have made: its receipts verify, no voter voted twice, it  *)
(* stands in the workflow where its receipts say (wasm_transition_decision,*)
(* wasm_add_vote).                                                         *)
DecisionCopiesSound ==
    \A d \in Copies("decision") :
        /\ At(d)!TypeOK /\ At(d)!QuorumSound /\ At(d)!WorkflowFollowsLifeCycle
        /\ At(d)!Core!LogVerifies
        /\ d.state \in {wasm_workflow_stages[i] : i \in DOMAIN wasm_workflow_stages}

(* The three ways to ask for the controls agree; a flag the host leaves    *)
(* out never lets a control pass; and no decision made through bindings    *)
(* alone passes them all, since none of them adds an authority link        *)
(* (wasm_enforce_all_tnc, wasm_collect_tnc_violations, TncFlags).          *)
ControlsFailClosed ==
    \A d \in Copies("decision"), given \in Givens :
        /\ wasm_enforce_all_tnc(d, given) <=> wasm_collect_tnc_violations(d, given) = {}
        /\ wasm_collect_tnc_violations(d, TncFlag) \subseteq wasm_collect_tnc_violations(d, given)
        /\ ~wasm_enforce_tnc(1, d, given)
        /\ wasm_decision_is_terminal(d) => ~wasm_enforce_tnc(8, d, given)

(* Where agents are within their ceiling no human is asked for, and a      *)
(* quorum found by the binding passes the gate (wasm_enforce_human_gate,   *)
(* wasm_check_quorum).                                                     *)
GatesAgree ==
    \A d \in Copies("decision") :
        /\ wasm_ai_within_ceiling(d.class) <=> ~wasm_requires_human_approval(d.class)
        /\ "Met" \in wasm_check_quorum(with_defaults, d) => wasm_enforce_human_gate(d)

(* A new copy has another fingerprint than the one it was made from        *)
(* (wasm_decision_content_hash).                                           *)
CopiesToldApart ==
    \A d \in Copies("decision") :
        LET apart(results) == \A r \in results :
                wasm_decision_content_hash(r) # wasm_decision_content_hash(d)
        IN  /\ apart(wasm_add_evidence(d))
            /\ \A vote \in Vote : apart(wasm_add_vote(d, vote))
            /\ \A to \in Core!BctsState, actor \in Actors, time \in Times :
                  apart(wasm_transition_decision(d, to, actor, time))

(* Through the bindings a challenge is never decided, a decision is        *)
(* contested as long as one open copy is kept, and withdrawing that copy   *)
(* ends it (wasm_is_contested).                                            *)
ChallengeCopiesSound ==
    \A c \in Copies("challenge") :
        /\ c.status \in {"Filed", "UnderReview", "Withdrawn"}
        /\ \A r \in wasm_withdraw_challenge(c) :
              is_contested((Copies("challenge") \ {c}) \cup {r}, c.decision_id) <=>
                  \E o \in Copies("challenge") \ {c} :
                      o.decision_id = c.decision_id /\ o.status \in Unresolved

(* Every copy of a suspension that was enacted was enacted in time, and of *)
(* an emergency action that was ratified names its decision; an expiry     *)
(* never asks for a review that was not due before (wasm_enact_            *)
(* accountability, wasm_ratify_emergency, wasm_needs_governance_review).   *)
PowerCopiesSound ==
    /\ \A a \in Copies("sanction") :
          /\ a.enacted_at # {} <=> a.status \in {"Enacted", "Reversed"}
          /\ a.action_type = "Suspension" =>
                \A t \in a.enacted_at : t <= a.proposed_at + SUSPENSION_LIMIT
    /\ \A e \in Copies("emergency") :
          /\ e.ratification_decision_id <=> e.ratification_status = "Ratified"
          /\ \A t \in Stamps : \A r \in wasm_check_expiry(e, t) :
                needs_governance_review((Copies("emergency") \ {e}) \cup {r}) =>
                    needs_governance_review(Copies("emergency"))

(* What a host can hold is sound copy by copy, whatever it forks, drops or *)
(* passes in late.                                                         *)
HostCopiesSound ==
    /\ DecisionCopiesSound /\ ControlsFailClosed /\ GatesAgree /\ CopiesToldApart
    /\ ChallengeCopiesSound /\ PowerCopiesSound
    /\ \A c \in Copies("corpus") : CorpusBinding(c)

(* What is settled stays: a closed decision in every part, and an emergency  *)
(* action that was ratified or has expired (decision_object.rs is_terminal,  *)
(* emergency.rs ratify_emergency and check_expiry).                          *)
SettledStays ==
    [][/\ state = "Closed" => UNCHANGED decision
       /\ \A i \in DOMAIN emergencies :
             emergencies[i].ratification_status # "Required" =>
                emergencies'[i] = emergencies[i]]_<<vars, powers>>
=============================================================================
