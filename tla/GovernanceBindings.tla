------------------------- MODULE GovernanceBindings -------------------------
(***************************************************************************)
(* Governance, escalation and legal records as a JavaScript host sees them: *)
(* crates/exochain-wasm/src/governance_bindings.rs, escalation_bindings.rs  *)
(* and legal_bindings.rs over serde_bridge.rs.                              *)
(*                                                                         *)
(* No binding keeps anything: it parses the copy the host passes in, calls  *)
(* the library and returns a new copy or a verdict; after an error it       *)
(* returns none.  The host replaces the copy it passed in or keeps both.    *)
(* Malformed DIDs, hex and JSON are refused before the library is called.   *)
(* The fields `policy', `record' and so on of the libraries' modules are    *)
(* rules, recs and so on here.                                              *)
(***************************************************************************)
EXTENDS Governance, AuditLogs, Escalation, LegalRecords

CONSTANTS
    MaxCopies,   \* bound on the copies a host keeps
    MaxForked    \* bound on the votes of a copy that is not the only one

ASSUME GovernanceBindingsAssumption == MaxCopies \in Nat /\ MaxForked \in Nat

VARIABLE copies    \* the copies the host keeps

Kept(kind) == {x \in copies : x.kind = kind}

(* from_json_str, `?' and to_js_value: one copy, or none with an Err. *)
Return(ok, copy) == IF ok THEN {copy} ELSE {}

----------------------------------------------------------------------------
(* governance_bindings.rs *)
wasm_compute_quorum(approvals, rules) == compute_quorum(approvals, rules)

(* The registry is built on the spot, with the caller as a Governor: only an
   action without a policy is denied. *)
wasm_check_clearance(required) == \E level \in required : Len(ClearanceLevel) >= level

wasm_check_conflicts(actor, affected, declarations) ==
    LET found == check_conflicts(actor, affected, declarations)
    IN  [conflicts |-> found, must_recuse |-> must_recuse(found)]

wasm_conflict_enforce(actor, affected, declarations) ==
    check_and_block(check_conflicts(actor, affected, declarations))

(* Always the first entry of a fresh log. *)
wasm_audit_append(fact, at) ==
    [entries |-> 1, head_hash |-> hash_entry([fact |-> fact, at |-> at, chain_hash |-> Zero])]

(* The log is rebuilt by appending, then verified. *)
wasm_audit_verify(entries) ==
    /\ \A i \in DOMAIN entries :
          entries[i].chain_hash = head_hash("audit", SubSeq(entries, 1, i - 1))
    /\ verify_chain("audit", entries)

wasm_open_deliberation == [kind |-> "deliberation", votes |-> {}, status |-> "Open"]

wasm_cast_vote(d, did, position) == Return(MayVote(d, did), WithVote(d, did, position))

(* The result alone is returned: the copy stays open, and may be voted on and
   closed again. *)
wasm_close_deliberation(d, rules) == DeliberationResult(d, rules)

(* The plan is not returned: activated again, it names the same successor. *)
wasm_activate_succession(p, trigger, now) ==
    IF Triggers(p, trigger, now) THEN next_successor(p) ELSE {}

(* The registry comes as three lists of pairs; the last pair of a DID counts. *)
MapOf(pairs) ==
    [did \in Members |->
        LET of == {i \in DOMAIN pairs : pairs[i][1] = did}
        IN  IF of = {} THEN Absent ELSE pairs[CHOOSE i \in of : \A j \in of : j <= i][2]]

wasm_verify_independence(actors, lists) ==
    verify_independence(actors, [kind \in DOMAIN lists |-> MapOf(lists[kind])])

wasm_detect_coordination(actions) == detect_coordination(actions)

wasm_file_governance_challenge == [kind |-> "challenge", status |-> "Filed"]

----------------------------------------------------------------------------
(* escalation_bindings.rs *)
wasm_evaluate_signals(s) == evaluate_signals(s)
wasm_triage(severity) == triage(severity)
wasm_escalate(signal, path) == escalate(signal, path)

(* The log is rebuilt from its entries. *)
wasm_record_feedback(entries, entry) == Append(entries, entry)
wasm_apply_learnings(entries) == apply_learnings(entries)
wasm_check_completeness(case) == check_completeness(case)

(* A stable sort by falling priority. *)
wasm_cases_by_priority(list) ==
    LET of(p) == SelectSeq(list, LAMBDA c : c.priority = p)
    IN  of(4) \o of(3) \o of(2) \o of(1)

----------------------------------------------------------------------------
(* legal_bindings.rs; there is no binding for a transfer of custody, for
   fairness evidence or for a hold. *)
wasm_create_evidence(creator, tag, at) ==
    Return(at # 0, [kind |-> "evidence", type_tag |-> tag, creator |-> creator,
                    timestamp |-> at, chain_of_custody |-> <<>>, status |-> "Pending"])

wasm_verify_chain_of_custody(ev) == verify_chain_of_custody(ev)

wasm_check_fiduciary_duty(d, actions) ==
    check_duty_compliance([d EXCEPT !.actions = actions])

wasm_ediscovery_search(custodians, terms, first, last, corpus) ==
    search(corpus, custodians, terms, first, last)

wasm_assert_privilege(e, type, asserter) ==
    [kind |-> "privilege", evidence_id |-> e, type |-> type, asserter |-> asserter]

(* The challenge is an object of its own; the assertion stays as it is. *)
wasm_challenge_privilege(assertion, challenger) ==
    [kind |-> "challenge", challenger |-> challenger, status |-> "Pending"]

wasm_create_record(class, days) == create_record(class, days)
wasm_apply_retention(recs, rules, now) ==
    [i \in DOMAIN recs |-> Retained(rules, recs[i], now)]

wasm_initiate_safe_harbor(party, path, now) ==
    Return(now # 0, [kind |-> "transaction", interested_party |-> party, path |-> path,
                     status |-> "PendingDisclosure", disclosed |-> FALSE,
                     votes |-> <<>>, fairness |-> FALSE])

wasm_complete_disclosure(t) ==
    Return(t.status = "PendingDisclosure",
           [t EXCEPT !.disclosed = TRUE, !.status = "DisclosureMade"])

wasm_record_disinterested_vote(t, voter, approved) ==
    Return(MayBallot(t, voter), Balloted(t, voter, approved))

(* The verdict alone is returned: the copy stays open for votes. *)
wasm_verify_safe_harbor(t) ==
    /\ t.disclosed
    /\ IF t.path = "FairnessProof" THEN t.fairness ELSE t.votes # <<>> /\ Carried(t)

----------------------------------------------------------------------------
(* The host keeps what a call without a copy returned. *)
Begin(returned) ==
    /\ copies = {}
    /\ copies' = returned

(* It replaces the copy it passed in by what came back, or keeps both. *)
GoOn(x, returned) ==
    \E y \in returned, rest \in {copies, copies \ {x}} :
       /\ copies' = rest \cup {y}
       /\ Cardinality(copies') <= MaxCopies

HostDeliberates ==
    \/ Begin({wasm_open_deliberation})
    \/ \E d \in Kept("deliberation"), did \in Members, position \in Position :
          GoOn(d, wasm_cast_vote(d, did, position))

HostTransacts ==
    \/ \E p \in Parties, path \in SafeHarborPath, now \in Days :
          Begin(wasm_initiate_safe_harbor(p, path, now))
    \/ \E t \in Kept("transaction") :
          \/ GoOn(t, wasm_complete_disclosure(t))
          \/ \E p \in Parties, approved \in BOOLEAN :
                /\ Len(t.votes) < IF copies = {t} THEN MaxBallots ELSE MaxForked
                /\ GoOn(t, wasm_record_disinterested_vote(t, p, approved))

(* The host's own lists of cases and of feedback, on which the bindings work. *)
HostEscalates ==
    \/ \E kind \in {"cases", "feedback"} : Begin({[kind |-> kind, list |-> <<>>]})
    \/ \E x \in Kept("cases"), signal \in DetectionSignal, path \in EscalationPath :
          /\ Len(x.list) < MaxCases
          /\ copies' = (copies \ {x}) \cup
                {[x EXCEPT !.list = wasm_cases_by_priority(Append(@, wasm_escalate(signal, path)))]}
    \/ \E x \in Kept("feedback"), entry \in FeedbackEntry :
          /\ Len(x.list) < MaxFeedback
          /\ copies' = (copies \ {x}) \cup {[x EXCEPT !.list = wasm_record_feedback(@, entry)]}

HostRecords ==
    \/ \E p \in Parties, tag \in Tags, at \in Days : Begin(wasm_create_evidence(p, tag, at))
    \/ \E ev \in Kept("evidence"), type \in PrivilegeType, p \in Parties :
          GoOn(ev, {wasm_assert_privilege(1, type, p)})
    \/ \E a \in Kept("privilege"), p \in Parties : GoOn(a, {wasm_challenge_privilege(a, p)})
    \/ \E class \in Tags, days \in Days :
          Begin({[kind |-> "records", list |-> <<wasm_create_record(class, days)>>]})
    \/ \E x \in Kept("records"), now \in Days, rule \in {<<>>} \cup [Tags -> Days] :
          copies' = {[x EXCEPT !.list = wasm_apply_retention(@, rule, now)]}
    \/ Begin({wasm_file_governance_challenge})

HostInit == copies = {}
HostNext == HostDeliberates \/ HostTransacts \/ HostEscalates \/ HostRecords
HostSpec == HostInit /\ [][HostNext]_copies

----------------------------------------------------------------------------
(* Results are announced about whatever copy the host passes in, stale or
   forked, and no binding closes one.  So of two copies of a deliberation of
   which one has all the votes of the other: a quorum is never lost by further
   votes, an approval is a majority of enough different voters, and a plan or
   a transaction decided again gives the same answer. *)
HostAnnouncementsSound ==
    /\ \A d, e \in Kept("deliberation"), rules \in Policies :
          LET r == wasm_close_deliberation(d, rules)
              s == wasm_close_deliberation(e, rules)
          IN  /\ r.outcome = "NoQuorum" <=> wasm_compute_quorum(Approvals(d), rules) = "NotMet"
              /\ (d.votes \subseteq e.votes /\ s.outcome = "NoQuorum") => r.outcome = "NoQuorum"
              /\ r.outcome = "Approved" =>
                    /\ r.votes_for > r.votes_against
                    /\ Cardinality({v.voter_did : v \in Cast(d, "For")}) >= rules.min_approvals
              /\ d.status = "Open" /\ Cardinality({v.voter_did : v \in d.votes}) = Cardinality(d.votes)
    /\ \A t \in Kept("transaction") :
          /\ t.status \in {"PendingDisclosure", "DisclosureMade", "VotingInProgress"}
          /\ wasm_verify_safe_harbor(t) =>
                /\ t.disclosed /\ t.path # "FairnessProof"
                /\ \A i \in DOMAIN t.votes : t.votes[i][1] # t.interested_party
                /\ Len(t.votes) - Approving(t) < Approving(t)

(* The host's lists: sorting as cases arrive keeps the most urgent first and,
   among equals, the oldest; no lesson and no missed threat is dropped from the
   recommendations as entries are added; a record once due for destruction
   stays so; and a piece of evidence is found by a search for what it is. *)
HostListsSound ==
    /\ \A x \in Kept("cases") :
          /\ \A i, j \in DOMAIN x.list : i < j => x.list[i].priority >= x.list[j].priority
          /\ wasm_cases_by_priority(x.list) = x.list
          /\ \A i \in DOMAIN x.list : wasm_check_completeness(x.list[i])
                <=> x.list[i].path # "SybilAdjudication"
    /\ \A x \in Kept("feedback") : \A i \in DOMAIN x.list :
          /\ {<<lesson, 1>> : lesson \in x.list[i].lessons} \subseteq wasm_apply_learnings(x.list)
          /\ x.list[i].outcome = "FalseNegative" =>
                \E n \in 1..Len(x.list) : <<"lower thresholds", n>> \in wasm_apply_learnings(x.list)
    /\ \A x \in Kept("records"), now \in Days : \A i \in DOMAIN x.list :
          x.list[i].disposition = "PendingDestruction" =>
             wasm_apply_retention(x.list, <<>>, now)[i] = x.list[i]
    /\ \A ev \in Kept("evidence") :
          /\ wasm_verify_chain_of_custody(ev)
          /\ wasm_ediscovery_search({ev.creator}, {ev.type_tag}, 0, ev.timestamp, <<ev>>) = <<ev>>

(* The bindings over the state the libraries keep: a registry that went
   through JSON gives the same independence, in whatever order it is listed;
   the advisory and the enforcing conflict check agree; a log is verified as
   the library does it, tampered copies included; and the flat sort agrees
   with the board when every case is in its backlog. *)
Listed(map) == {<<did, map[did]>> : did \in {m \in Members : map[m] # Absent}}

RegistryTravels ==
    \A actors \in UNION {[1..n -> Members] : n \in 1..2} :
       LET forth == [kind \in DOMAIN registry |-> SetToSeq(Listed(registry[kind]))]
           back == [kind \in DOMAIN registry |-> Reverse(forth[kind])]
       IN  \A lists \in {forth, back} :
              wasm_verify_independence(actors, lists) = verify_independence(actors, registry)

ConflictsAgree ==
    \A m \in Members, affected \in SUBSET Members :
       /\ wasm_conflict_enforce(m, affected, register.entries)
             # wasm_check_conflicts(m, affected, register.entries).must_recuse
       /\ wasm_check_conflicts(m, affected, register.entries).conflicts = {}
             <=> wasm_check_conflicts(m, affected, filed).conflicts = {}

RebuiltLogsAgree ==
    LET log == logs["audit"]
    IN  \A copy \in {log} \cup Altered(log, Facts) \cup Shortened(log) \cup Swapped(log) :
          /\ wasm_audit_verify(copy) <=> verify_chain("audit", copy)
          /\ Len(copy) = 1 /\ wasm_audit_verify(copy) =>
                head_hash("audit", copy) = wasm_audit_append(copy[1].fact, copy[1].at).head_hash

SortsAgree ==
    (\A col \in 2..5 : board[col] = <<>>) =>
       LET listed == cases_by_priority
       IN  Len(board[1]) = Len(cases) /\ (\A i \in DOMAIN cases : board[1][i] = i) =>
              wasm_cases_by_priority(cases) = [i \in DOMAIN listed |-> cases[listed[i]]]

(* A binding is never stricter than the clearances on file, and every trigger
   of a plan that is not yet replaced names the same successor. *)
OfficesAgree ==
    /\ \A m \in Members, level \in DOMAIN ClearanceLevel :
          check_clearance(m, {level}) => wasm_check_clearance({level})
    /\ LET named == {wasm_activate_succession(plan, t, now) : t \in SuccessionTrigger, now \in Thresholds}
       IN  Cardinality(named \ {{}}) <= 1

(* fiduciary.rs: what has broken a duty of loyalty, good faith or
   confidentiality is never cured by another action, and one that met a duty
   of care or disclosure is never undone. *)
DutiesMonotone ==
    duty.type # "None" => \A a \in AuditedAction :
       LET before == wasm_check_fiduciary_duty(duty, duty.actions)
           after == wasm_check_fiduciary_duty(duty, duty.actions \cup {a})
       IN  IF duty.type \in {"Care", "Disclosure"} THEN before => after ELSE after => before

(* escalation_bindings.rs: a case that a host opens for a signal is never less
   urgent than the triage it is told, an EmergencyCondition apart. *)
HostTriageSound ==
    \A signal \in DetectionSignal, path \in EscalationPath :
       signal.signal_type # "EmergencyCondition" =>
          wasm_triage(wasm_evaluate_signals(<<signal>>)).level <= wasm_escalate(signal, path).priority

(* crosscheck.rs: who is signalled does not depend on the order of the log,
   and an actor is never signalled for repeating itself. *)
CoordinationOrderFree ==
    \A actions \in UNION {[1..n -> [actor : Members, timestamp : {0, 100, 101, 200},
                                    action_hash : Evidence]] : n \in {2, 3}} :
       LET found == wasm_detect_coordination(actions)
       IN  /\ found = wasm_detect_coordination(Reverse(actions))
           /\ \A pair \in found : Cardinality(pair) = 2
=============================================================================
