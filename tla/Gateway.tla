------------------------------ MODULE Gateway -------------------------------
(* The GraphQL side of exo-gateway (crates/exo-gateway/src/graphql.rs): the  *)
(* in-memory AppState behind one mutex, the queries and mutations on it, and *)
(* the subscriptions fed by a broadcast channel.                             *)
(*                                                                           *)
(* A mutation holds the mutex from its first read to its return, so it is    *)
(* one action.  A subscription's task takes events off the channel at its    *)
(* own pace, without the mutex, and interleaves with everything.             *)
(*                                                                           *)
(* UUIDs are drawn from Ids and never drawn twice.  Digests are the tuples   *)
(* of what is hashed.  Titles, classes, rationales and times are left out.   *)
EXTENDS Integers, Sequences, FiniteSets, SequencesExt, FiniteSetsExt

CONSTANTS
    Ids,           \* UUIDs of decisions, ordered as the BTreeMap orders them
    GqlTenants,    \* tenant ids
    Bodies,        \* bodies a decision is created with
    Advances,      \* statuses advance_decision is called with
    Reasons,       \* reasons it is called with, "system" for none
    Ballots,       \* choices cast_vote is called with
    Grantees,      \* DIDs that delegations are granted to
    Hours,         \* values of expires_in_hours
    Streams,       \* subscriptions
    EventBuffer,   \* capacity of the broadcast channel
    MaxAudit,      \* bound on the audit entries written
    MaxGrants      \* bound on the delegations granted

ASSUME GatewayAssumption == EventBuffer \in Nat /\ MaxAudit \in Nat /\ MaxGrants \in Nat

VARIABLES
    gql_decisions,      \* AppState.decisions: id -> [decision, audit_trail]
    gql_delegations,    \* AppState.delegations: position -> delegation
    emergency_actions,  \* AppState.emergency_actions, by position
    gql_constitution,   \* AppState.constitution
    next_audit_seq,     \* AppState.next_audit_seq
    event_tx,           \* every event sent on the channel so far
    streams             \* subscription -> what its task holds

gqlVars == <<gql_decisions, gql_delegations, emergency_actions, gql_constitution,
             next_audit_seq, event_tx, streams>>

----------------------------------------------------------------------------
(* The values the schema returns. *)
Caller == "did:exo:caller"
VoteChoices == {"APPROVE", "REJECT", "ABSTAIN"}

GqlVote == [voter : {Caller}, choice : VoteChoices]
GqlChallenge == [status : {"OPEN"}]
Digests(d) == {<<"body", d.body>>, <<d.id, d.status, Len(d.votes)>>}
GqlDelegation == [delegator : {Caller}, delegatee : Grantees, hours : Hours, active : BOOLEAN]
GqlConstitution == [tenant_id : GqlTenants \cup {"default"}, version : Nat, hash : Seq(GqlTenants)]
GqlEmergencyAction == [decision_id : Ids, tenant_id : GqlTenants]

IsDecision(d) ==
    /\ d.id \in Ids /\ d.tenant_id \in GqlTenants /\ d.body \in Bodies
    /\ d.status \in Advances \cup {"CREATED", "CONTESTED"}
    /\ d.votes \in Seq(GqlVote) /\ d.challenges \in Seq(GqlChallenge)
    /\ d.content_hash \in Digests(d)

compute_decision_hash(d) == <<d.id, d.status, Len(d.votes)>>

(* The channel's events; nothing in the code ever sends DelegationExpiring. *)
DecisionUpdated(d) == [kind |-> "DecisionUpdated", decision |-> d]
EmergencyActionCreated(a) == [kind |-> "EmergencyActionCreated", action |-> a]

NoStream == [open |-> FALSE, kind |-> "none", of |-> "none", from |-> 0, read |-> 0, got |-> <<>>]

GqlTypeOK ==
    /\ DOMAIN gql_decisions \subseteq Ids
    /\ \A id \in DOMAIN gql_decisions : IsDecision(gql_decisions[id].decision)
    /\ gql_delegations \in Seq(GqlDelegation)
    /\ emergency_actions \in Seq(GqlEmergencyAction)
    /\ gql_constitution \in GqlConstitution
    /\ next_audit_seq \in 1..(MaxAudit + 1)
    /\ \A s \in Streams : streams[s].read \in 0..Len(event_tx)

GqlInit ==
    /\ gql_decisions = <<>> /\ gql_delegations = <<>> /\ emergency_actions = <<>>
    /\ gql_constitution = [tenant_id |-> "default", version |-> 0, hash |-> <<>>]
    /\ next_audit_seq = 1
    /\ event_tx = <<>>
    /\ streams = [s \in Streams |-> NoStream]

----------------------------------------------------------------------------
(* Queries: what a client reads under the mutex. *)
decision(id) == IF id \in DOMAIN gql_decisions THEN {gql_decisions[id].decision} ELSE {}

audit_trail(id) == IF id \in DOMAIN gql_decisions THEN gql_decisions[id].audit_trail ELSE <<>>

(* BTreeMap order, tenant and status filters, then one page.  AnyStatus is   *)
(* the absent filter.                                                        *)
AnyStatus == "any"
Clamp(x, lo, hi) == IF x < lo THEN lo ELSE IF x > hi THEN hi ELSE x
decisions_of(tenant, status, limit, offset) ==
    LET hits == SelectSeq(SetToSortSeq(DOMAIN gql_decisions, <),
                  LAMBDA id : /\ gql_decisions[id].decision.tenant_id = tenant
                              /\ status \in {AnyStatus, gql_decisions[id].decision.status})
        first == Max({offset, 0}) + 1
        last == Min({Len(hits), first + Clamp(limit, 1, 200) - 1})
    IN SubSeq(hits, first, last)

(* The "chain" is the number of active delegations to the actor. *)
authority_chain(did) ==
    LET n == Cardinality({i \in DOMAIN gql_delegations :
                /\ gql_delegations[i].delegatee = did /\ gql_delegations[i].active})
    IN [chain_length |-> n, valid |-> n > 0]

delegations_of(did) ==
    SelectSeq(gql_delegations, LAMBDA g : did \in {g.delegatee, g.delegator})

(* One corpus is kept for all tenants; another tenant is told the default. *)
constitution_of(tenant) ==
    IF gql_constitution.tenant_id = tenant
    THEN gql_constitution
    ELSE [tenant_id |-> tenant, version |-> 0, hash |-> <<>>]

----------------------------------------------------------------------------
(* append_audit for a decision that exists: the receipt chains the previous  *)
(* receipt of the same decision; the sequence is global.  An event type is   *)
(* its kind and the detail written behind it, kept where it is a status.     *)
receipt(prev, event, actor, seq) == <<prev, event, actor, seq>>

append_audit_ChainToFirst(rec, event, actor) ==   \* mutant: the first receipt, not the last
    LET prev == IF rec.audit_trail = <<>> THEN <<>> ELSE rec.audit_trail[1].receipt_hash
    IN [rec EXCEPT !.audit_trail =
          Append(@, [sequence |-> next_audit_seq, event_type |-> event, actor |-> actor,
                     receipt_hash |-> receipt(prev, event, actor, next_audit_seq)])]

append_audit(rec, event, actor) ==
    LET prev == IF rec.audit_trail = <<>> THEN <<>> ELSE Last(rec.audit_trail).receipt_hash
    IN [rec EXCEPT !.audit_trail =
          Append(@, [sequence |-> next_audit_seq, event_type |-> event, actor |-> actor,
                     receipt_hash |-> receipt(prev, event, actor, next_audit_seq)])]

CountAudit == next_audit_seq <= MaxAudit /\ next_audit_seq' = next_audit_seq + 1

create_decision(id, tenant, body) ==
    /\ id \notin DOMAIN gql_decisions
    /\ LET d == [id |-> id, tenant_id |-> tenant, status |-> "CREATED", body |-> body,
                 votes |-> <<>>, challenges |-> <<>>, content_hash |-> <<"body", body>>]
           rec == append_audit([decision |-> d, audit_trail |-> <<>>], <<"DecisionCreated", "">>, "system")
       IN /\ event_tx' = Append(event_tx, DecisionUpdated(d))
          /\ gql_decisions' = [x \in DOMAIN gql_decisions \cup {id} |->
                                  IF x = id THEN rec ELSE gql_decisions[x]]
    /\ CountAudit
    /\ UNCHANGED <<gql_delegations, emergency_actions, gql_constitution, streams>>

(* The mutations that change a decision: refresh its digest, write one audit *)
(* entry, tell the subscribers.                                              *)
Rehash(d) == [d EXCEPT !.content_hash = compute_decision_hash(d)]

Change_StaleEvent(id, d, event, actor) ==   \* mutant: the event is cloned before the change
    /\ gql_decisions' =
         [gql_decisions EXCEPT ![id] = append_audit([@ EXCEPT !.decision = Rehash(d)], event, actor)]
    /\ event_tx' = Append(event_tx, DecisionUpdated(gql_decisions[id].decision))
    /\ CountAudit
    /\ UNCHANGED <<gql_delegations, emergency_actions, gql_constitution, streams>>

Change(id, d, event, actor) ==
    /\ gql_decisions' =
         [gql_decisions EXCEPT ![id] = append_audit([@ EXCEPT !.decision = Rehash(d)], event, actor)]
    /\ event_tx' = Append(event_tx, DecisionUpdated(Rehash(d)))
    /\ CountAudit
    /\ UNCHANGED <<gql_delegations, emergency_actions, gql_constitution, streams>>

(* Any status may follow any other; the audit entry names the reason, when   *)
(* there is one, as its actor.                                               *)
advance_decision(id, new_status, reason) ==
    /\ id \in DOMAIN gql_decisions
    /\ Change(id, [gql_decisions[id].decision EXCEPT !.status = new_status],
              <<"StatusAdvanced", new_status>>, reason)

(* The code knows every caller by one DID: a decision takes one vote. *)
cast_vote(id, choice) ==
    /\ choice \in VoteChoices
    /\ id \in DOMAIN gql_decisions
    /\ \A i \in DOMAIN gql_decisions[id].decision.votes :
          gql_decisions[id].decision.votes[i].voter # Caller
    /\ Change(id, [gql_decisions[id].decision EXCEPT !.votes = Append(@, [voter |-> Caller, choice |-> choice])],
              <<"VoteCast", "">>, Caller)

raise_challenge(id) ==
    /\ id \in DOMAIN gql_decisions
    /\ Change(id, [gql_decisions[id].decision EXCEPT !.challenges = Append(@, [status |-> "OPEN"]),
                                                     !.status = "CONTESTED"],
              <<"ChallengeRaised", "">>, Caller)

(* The decision itself is left as it is. *)
take_emergency_action(id) ==
    /\ id \in DOMAIN gql_decisions
    /\ LET a == [decision_id |-> id, tenant_id |-> gql_decisions[id].decision.tenant_id]
       IN /\ emergency_actions' = Append(emergency_actions, a)
          /\ event_tx' = Append(event_tx, EmergencyActionCreated(a))
    /\ gql_decisions' = [gql_decisions EXCEPT ![id] = append_audit(@, <<"EmergencyAction", "">>, Caller)]
    /\ CountAudit
    /\ UNCHANGED <<gql_delegations, gql_constitution, streams>>

(* A disclosure about an unknown decision is answered and recorded nowhere. *)
disclose_conflict(id) ==
    /\ id \in DOMAIN gql_decisions
    /\ gql_decisions' = [gql_decisions EXCEPT ![id] = append_audit(@, <<"ConflictDisclosed", "">>, Caller)]
    /\ CountAudit
    /\ UNCHANGED <<gql_delegations, emergency_actions, gql_constitution, event_tx, streams>>

grant_delegation(to, hours) ==
    /\ hours > 0
    /\ Len(gql_delegations) < MaxGrants
    /\ gql_delegations' = Append(gql_delegations,
          [delegator |-> Caller, delegatee |-> to, hours |-> hours, active |-> TRUE])
    /\ UNCHANGED <<gql_decisions, emergency_actions, gql_constitution, next_audit_seq, event_tx, streams>>

revoke_delegation(i) ==
    /\ i \in DOMAIN gql_delegations
    /\ gql_delegations' = [gql_delegations EXCEPT ![i].active = FALSE]
    /\ UNCHANGED <<gql_decisions, emergency_actions, gql_constitution, next_audit_seq, event_tx, streams>>

(* bump_version: the patch number of the version. *)
bump_version(v) == v + 1

amend_constitution(tenant) ==
    /\ gql_constitution.version < MaxGrants
    /\ gql_constitution' = [tenant_id |-> tenant, version |-> bump_version(gql_constitution.version),
                            hash |-> Append(gql_constitution.hash, tenant)]
    /\ UNCHANGED <<gql_decisions, gql_delegations, emergency_actions, next_audit_seq, event_tx, streams>>

----------------------------------------------------------------------------
(* Subscriptions.  A receiver starts at the tail of the channel. *)
Subscribe(s, kind, of) ==
    /\ streams[s] = NoStream
    /\ streams' = [streams EXCEPT ![s] =
          [open |-> TRUE, kind |-> kind, of |-> of,
           from |-> Len(event_tx), read |-> Len(event_tx), got |-> <<>>]]
    /\ UNCHANGED <<gql_decisions, gql_delegations, emergency_actions, gql_constitution,
                   next_audit_seq, event_tx>>

decision_updated(s, id) == Subscribe(s, "decision_updated", id)
emergency_action(s, tenant) == Subscribe(s, "emergency_action", tenant)
delegation_expiring(s, did) == Subscribe(s, "delegation_expiring", did)

Wanted(st, e) ==
    \/ st.kind = "decision_updated" /\ e.kind = "DecisionUpdated" /\ e.decision.id = st.of
    \/ st.kind = "emergency_action" /\ e.kind = "EmergencyActionCreated" /\ e.action.tenant_id = st.of

(* The loop body of a stream, which runs when the client asks for more and   *)
(* perhaps never again: an event that is wanted is yielded, another is       *)
(* skipped, and a receiver the channel has overtaken gets an error, at which *)
(* the loop breaks: the client sees its stream end.                          *)
Behind(s) == streams[s].open /\ streams[s].read < Len(event_tx)
Overtaken(s) == Len(event_tx) - streams[s].read > EventBuffer

recv_GoesOn(s) ==   \* mutant: a receiver that was overtaken goes on with what is left
    LET st == streams[s]
        next == IF Overtaken(s) THEN Len(event_tx) - EventBuffer + 1 ELSE st.read + 1
        e == event_tx[next]
    IN /\ Behind(s)
       /\ streams' = [streams EXCEPT ![s].read = next,
                                     ![s].got = IF Wanted(st, e) THEN Append(@, e) ELSE @]
       /\ UNCHANGED <<gql_decisions, gql_delegations, emergency_actions, gql_constitution,
                      next_audit_seq, event_tx>>

recv(s) ==
    LET st == streams[s]
        e == event_tx[st.read + 1]
    IN /\ Behind(s)
       /\ streams' = [streams EXCEPT ![s] =
             IF Overtaken(s)
             THEN [st EXCEPT !.open = FALSE]
             ELSE [st EXCEPT !.read = st.read + 1,
                             !.got = IF Wanted(st, e) THEN Append(st.got, e) ELSE st.got]]
       /\ UNCHANGED <<gql_decisions, gql_delegations, emergency_actions, gql_constitution,
                      next_audit_seq, event_tx>>

GqlNext ==
    \/ \E id \in Ids :
          \/ \E t \in GqlTenants, b \in Bodies : create_decision(id, t, b)
          \/ \E st \in Advances, r \in Reasons : advance_decision(id, st, r)
          \/ \E c \in Ballots : cast_vote(id, c)
          \/ raise_challenge(id)
          \/ take_emergency_action(id)
          \/ disclose_conflict(id)
    \/ \E g \in Grantees, hr \in Hours : grant_delegation(g, hr)
    \/ \E i \in 1..MaxGrants : revoke_delegation(i)
    \/ \E t \in GqlTenants : amend_constitution(t)
    \/ \E s \in Streams :
          \/ \E id \in Ids : decision_updated(s, id)
          \/ \E t \in GqlTenants : emergency_action(s, t)
          \/ \E g \in Grantees : delegation_expiring(s, g)
          \/ recv(s)

GqlSpec == GqlInit /\ [][GqlNext]_gqlVars

----------------------------------------------------------------------------
Entries(id, kind) == {i \in DOMAIN audit_trail(id) : audit_trail(id)[i].event_type[1] = kind}

(* append_audit shares one counter between all decisions and chains each     *)
(* decision's own receipts.  The trails together hold every number handed    *)
(* out exactly once, each in increasing order, every receipt is the digest   *)
(* of its entry and its predecessor's receipt, and every vote, challenge and *)
(* emergency action of a decision has an entry of its own: nothing happened  *)
(* to a decision that its trail does not show, and nothing is shown twice.   *)
TrailsExact ==
    /\ GqlTypeOK
    /\ UNION {{audit_trail(id)[i].sequence : i \in DOMAIN audit_trail(id)} : id \in Ids}
          = 1..(next_audit_seq - 1)
    /\ \A a, b \in Ids : \A i \in DOMAIN audit_trail(a), j \in DOMAIN audit_trail(b) :
          audit_trail(a)[i].sequence = audit_trail(b)[j].sequence => a = b /\ i = j
    /\ \A id \in DOMAIN gql_decisions :
          LET trail == audit_trail(id)
              d == gql_decisions[id].decision
          IN /\ \A i \in DOMAIN trail :
                   /\ trail[i].receipt_hash =
                        receipt(IF i = 1 THEN <<>> ELSE trail[i - 1].receipt_hash,
                                trail[i].event_type, trail[i].actor, trail[i].sequence)
                   /\ i > 1 => trail[i - 1].sequence < trail[i].sequence
             /\ Cardinality(Entries(id, "VoteCast")) = Len(d.votes)
             /\ Cardinality(Entries(id, "ChallengeRaised")) = Len(d.challenges)
             /\ Cardinality(Entries(id, "EmergencyAction")) =
                  Cardinality({i \in DOMAIN emergency_actions : emergency_actions[i].decision_id = id})

(* A subscriber of decision_updated that has read all the channel holds, and *)
(* was given anything, was last given the decision as it now stands: no      *)
(* mutation changes a decision behind the subscribers' backs, and no event   *)
(* carries a version older than the one stored (graphql.rs:697-756).  A      *)
(* subscriber of emergency_action that was there before the first event has  *)
(* every action of its tenant.                                               *)
SubscribersCurrent ==
    \A s \in Streams :
       LET st == streams[s]
       IN st.open /\ ~Behind(s) =>
          /\ st.kind = "decision_updated" /\ st.got # <<>> =>
                decision(st.of) = {Last(st.got).decision}
          /\ st.kind = "emergency_action" /\ st.from = 0 =>
                Len(st.got) = Cardinality({i \in DOMAIN emergency_actions :
                                              emergency_actions[i].tenant_id = st.of})

(* Reading page after page of any size gives each decision of the tenant     *)
(* once, in order (graphql.rs:267-289).                                      *)
PagesComplete ==
    \A t \in GqlTenants, n \in 1..2 :
       FlattenSeq([k \in 1..Cardinality(Ids) |-> decisions_of(t, AnyStatus, n, (k - 1) * n)])
          = SetToSortSeq({id \in DOMAIN gql_decisions : gql_decisions[id].decision.tenant_id = t}, <)

(* However slowly its client reads, and however far the channel runs ahead,  *)
(* what a stream has yielded is every event it asked for between its         *)
(* subscription and the last one it read, once and in order: a stream that   *)
(* lost events has ended, none skips them silently (graphql.rs:706-713).     *)
StreamsComplete ==
    \A s \in Streams :
       LET st == streams[s]
       IN  st.got = SelectSeq(SubSeq(event_tx, st.from + 1, st.read), LAMBDA e : Wanted(st, e))

----------------------------------------------------------------------------
(* The request path of exo-gateway: authentication (auth.rs), the consent,   *)
(* governance and audit middleware (middleware.rs), process_request          *)
(* (routes.rs), the REST table (rest.rs) and the server around them          *)
(* (server.rs).                                                              *)
(*                                                                           *)
(* The clock is read twice for one request, by the freshness check and by    *)
(* the audit middleware, and may move either way in between.  Signatures are *)
(* only tested for emptiness: authenticate leaves their verification open.   *)
CONSTANTS
    Times,              \* readings of the wall clock, 0 included
    FRESHNESS_WINDOW,   \* accepted distance between a request and the clock
    MaxRequests         \* bound on the requests processed

ASSUME RouteAssumption == Times \subseteq Nat /\ FRESHNESS_WINDOW \in Nat

VARIABLES
    entries,     \* AuditLog.entries
    answers      \* what the callers were told, in order

routeVars == <<entries, answers>>

Routes == {"CreateTransaction", "TransitionState", "QueryTransaction", "GetReceipt",
           "ResolveIdentity", "RegisterIdentity", "Deliberate", "Vote", "Challenge"}
Verdicts == {"Allow", "Deny", "Escalate"}
Outcomes == {"ok", "AuthenticationFailed", "ConsentDenied", "GovernanceDenied", "BadRequest"}

(* A request: is its DID well formed, its signature non-empty, its time. *)
Request == [did : {"did:exo:a", "malformed"}, signed : BOOLEAN, timestamp : Times]

AuditEntries == [actor : {"did:exo:a"}, timestamp : Times, outcome : {"success"}]

RoutesTypeOK ==
    /\ entries \in Seq(AuditEntries)
    /\ answers \in Seq([outcome : Outcomes, request : Request, consent : BOOLEAN,
                        verdict : Verdicts, now : Times])

RoutesInit == entries = <<>> /\ answers = <<>>

check_freshness(ts, now) == (IF now >= ts THEN now - ts ELSE ts - now) <= FRESHNESS_WINDOW

authenticate(request, now) ==
    /\ request.did = "did:exo:a"
    /\ request.signed
    /\ check_freshness(request.timestamp, now)

consent_middleware(granted) == granted
governance_middleware(verdict) == verdict = "Allow"

(* Nothing but explicit consent lets a request through. *)
default_deny_check == "ConsentDenied"

(* audit_middleware refuses the zero timestamp. *)
audit_middleware(now) == now # 0

(* process_request: the first refusal is the answer; only a success reaches  *)
(* the log.                                                                  *)
Outcome(request, consent, verdict, now, later) ==
    IF ~authenticate(request, now) THEN "AuthenticationFailed"
    ELSE IF ~consent_middleware(consent) THEN default_deny_check
    ELSE IF ~governance_middleware(verdict) THEN "GovernanceDenied"
    ELSE IF ~audit_middleware(later) THEN "BadRequest"
    ELSE "ok"

process_request(request, consent, verdict, now, later) ==
    LET outcome == Outcome(request, consent, verdict, now, later)
    IN /\ Len(answers) < MaxRequests
       /\ answers' = Append(answers, [outcome |-> outcome, request |-> request,
                                      consent |-> consent, verdict |-> verdict, now |-> now])
       /\ entries' = IF outcome = "ok"
                     THEN Append(entries, [actor |-> request.did, timestamp |-> later, outcome |-> "success"])
                     ELSE entries

RoutesNext ==
    \E request \in Request, consent \in BOOLEAN, verdict \in Verdicts, now, later \in Times :
       process_request(request, consent, verdict, now, later)

RoutesSpec == RoutesInit /\ [][RoutesNext]_routeVars

----------------------------------------------------------------------------
(* RestRoute::all with method() and path(). *)
RestRoutes ==
    {<<"GET", "/health">>, <<"GET", "/api/v1/decisions/:id">>, <<"POST", "/api/v1/decisions">>,
     <<"POST", "/api/v1/auth/token">>, <<"POST", "/api/v1/auth/saml/callback">>,
     <<"GET", "/api/v1/tenants/:id/constitution">>, <<"POST", "/api/v1/ediscovery/export">>,
     <<"GET", "/api/v1/audit/:decision_id">>, <<"POST", "/api/v1/auth/register">>,
     <<"POST", "/api/v1/auth/login">>, <<"POST", "/api/v1/auth/refresh">>,
     <<"GET", "/api/v1/auth/me">>, <<"POST", "/api/v1/auth/logout">>,
     <<"POST", "/api/v1/agents/enroll">>, <<"GET", "/api/v1/agents">>,
     <<"GET", "/api/v1/agents/:did">>, <<"POST", "/api/v1/agents/:did/advance-pace">>,
     <<"GET", "/api/v1/identity/:did/score">>, <<"GET", "/api/v1/users">>,
     <<"POST", "/api/v1/users/:did/advance-pace">>}

(* build_router: what answers each method and path. *)
Router ==
    [r \in RestRoutes \cup {<<"GET", "/ready">>} |->
        CASE r = <<"GET", "/health">> -> "handle_health"
          [] r = <<"GET", "/ready">> -> "handle_ready"
          [] OTHER -> "handle_not_implemented"]

(* The answers: handle_ready asks the pool, where there is one. *)
Pools == {"none", "up", "down"}
Status(handler, pool) ==
    CASE handler = "handle_health" -> 200
      [] handler = "handle_ready" -> IF pool = "up" THEN 200 ELSE 503
      [] OTHER -> 501

(* start: the configurations that give a running handle. *)
start(bind_address, max_connections) == bind_address # "" /\ max_connections # 0

----------------------------------------------------------------------------
Successes == {j \in DOMAIN answers : answers[j].outcome = "ok"}
Nth(j) == Cardinality({k \in Successes : k <= j})   \* which success the answer j is

(* The log is the list of the requests that succeeded, in order, and each of *)
(* these was consented to, allowed, and signed within the window at the      *)
(* moment it was authenticated, however the clock moved before it was logged *)
(* (routes.rs:33-51).                                                        *)
LogIsSuccesses ==
    /\ Len(entries) = Cardinality(Successes)
    /\ \A j \in Successes :
          LET a == answers[j]
              entry == entries[Nth(j)]
          IN /\ entry.actor = a.request.did /\ entry.timestamp # 0
             /\ a.consent /\ a.verdict = "Allow" /\ a.request.signed
             /\ a.now - a.request.timestamp \in -FRESHNESS_WINDOW..FRESHNESS_WINDOW
=============================================================================
