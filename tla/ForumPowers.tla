---------------------------- MODULE ForumPowers -----------------------------
(***************************************************************************)
(* The powers of crates/decision-forum that outlive a single decision:     *)
(* emergency actions (emergency.rs), accountability actions                *)
(* (accountability.rs), the authority matrix (authority_matrix.rs) and the *)
(* constitution (constitution.rs).                                         *)
(*                                                                         *)
(* Every timestamp is an argument of the caller, who may hold any clock:   *)
(* it is any element of Stamps, in any order.  A timestamp is a point of a  *)
(* total order; the sums with a window stay below u64::MAX.                *)
(***************************************************************************)
EXTENDS Integers, Sequences, FiniteSets

CONSTANTS
    Dids,                 \* actors, delegators and delegates
    Stamps,                \* milliseconds
    Classes,              \* the decision classes a delegation may name
    RootScope,            \* the classes the tenant itself grants
    DelegationIds,        \* ids of delegations, the caller's choice
    ArticleIds, Texts, Tiers, \* what articles are made of
    RATIFICATION_WINDOW,  \* EmergencyPolicy.ratification_window_ms
    MAX_PER_QUARTER,      \* EmergencyPolicy.max_per_quarter
    MAX_PER_ACTOR,        \* EmergencyPolicy.max_per_quarter_per_actor
    EXPIRY_WARNING_DAYS,  \* the thresholds of expiry_warnings
    MS_PER_DAY,           \* 24 * 60 * 60 * 1000
    SUSPENSION_LIMIT,     \* SUSPENSION_ENACT_LIMIT_MS
    REQUIRED_SIGNATURES,  \* ConstitutionQuorum.required_signatures
    MaxActions,           \* bound on emergency and accountability actions
    MaxGrants,            \* bound on the places of the delegations of one delegate
    MaxAmendments         \* bound on amendments

ASSUME PowersAssumption ==
    /\ Stamps \subseteq Nat
    /\ RootScope \subseteq Classes
    /\ EXPIRY_WARNING_DAYS \subseteq Nat /\ MS_PER_DAY \in Nat \ {0}
    /\ {RATIFICATION_WINDOW, MAX_PER_QUARTER, MAX_PER_ACTOR, SUSPENSION_LIMIT,
        REQUIRED_SIGNATURES, MaxActions, MaxGrants, MaxAmendments} \subseteq Nat

VARIABLES
    emergencies,      \* the EmergencyActions of the quarter
    sanctions,        \* the AccountabilityActions
    delegations,      \* AuthorityMatrix.delegations
    corpus            \* the ConstitutionCorpus

powers == <<emergencies, sanctions, delegations, corpus>>

-----------------------------------------------------------------------------
(* Emergency actions.                                                      *)

Pending(s) == {i \in 1..Len(s) : s[i].ratification_status # "Expired"}

(* Mutant: only ratified actions count. *)
ActorCount_Ratified(s, actor) ==
    Cardinality({i \in 1..Len(s) : /\ s[i].actor_did = actor
                                   /\ s[i].ratification_status = "Ratified"})

ActorCount(s, actor) ==
    Cardinality({i \in Pending(s) : s[i].actor_did = actor})

(* Whether check_per_actor_limit returns Ok. *)
check_per_actor_limit(s, actor) ==
    MAX_PER_ACTOR = 0 \/ ActorCount(s, actor) < MAX_PER_ACTOR

(* create_emergency_action, called as its documentation demands, after     *)
(* check_per_actor_limit.  The amount and the kind of the action are       *)
(* compared with the policy and otherwise only stored: a call the policy   *)
(* refuses is no step.                                                     *)
create_emergency_action(actor, t) ==
    /\ Len(emergencies) < MaxActions
    /\ check_per_actor_limit(emergencies, actor)
    /\ emergencies' = Append(emergencies,
          [actor_did |-> actor, ratification_status |-> "Required",
           ratification_deadline |-> t + RATIFICATION_WINDOW,
           ratification_decision_id |-> FALSE])
    /\ UNCHANGED <<sanctions, delegations, corpus>>

Expire(i) ==
    /\ emergencies' = [emergencies EXCEPT ![i].ratification_status = "Expired"]
    /\ UNCHANGED <<sanctions, delegations, corpus>>

(* A ratification after the deadline returns Err and expires the action. *)
ratify_emergency(i, t) ==
    /\ emergencies[i].ratification_status = "Required"
    /\ \/ /\ t > emergencies[i].ratification_deadline
          /\ Expire(i)
       \/ /\ t <= emergencies[i].ratification_deadline
          /\ emergencies' = [emergencies EXCEPT
                ![i].ratification_status = "Ratified",
                ![i].ratification_decision_id = TRUE]
          /\ UNCHANGED <<sanctions, delegations, corpus>>

check_expiry(i, t) ==
    /\ emergencies[i].ratification_status = "Required"
    /\ t > emergencies[i].ratification_deadline
    /\ Expire(i)

(* More unexpired actions than the policy allows in a quarter. *)
needs_governance_review(actions) ==
    Cardinality({a \in actions : a.ratification_status # "Expired"}) > MAX_PER_QUARTER

-----------------------------------------------------------------------------
(* Accountability actions.                                                 *)

SanctionType == {"Censure", "Suspension", "Revocation", "Recall"}

Monus(a, b) == IF a > b THEN a - b ELSE 0

propose(type, t) ==
    /\ Len(sanctions) < MaxActions
    /\ sanctions' = Append(sanctions,
          [action_type |-> type, status |-> "Proposed", proposed_at |-> t,
           enacted_at |-> {}])
    /\ UNCHANGED <<emergencies, delegations, corpus>>

begin_due_process(i) ==
    /\ sanctions[i].status = "Proposed"
    /\ sanctions' = [sanctions EXCEPT ![i].status = "DueProcess"]
    /\ UNCHANGED <<emergencies, delegations, corpus>>

EnactInTime(a, t) ==
    a.action_type = "Suspension" =>
        Monus(t, a.proposed_at) <= SUSPENSION_LIMIT

enact(i, t) ==
    /\ sanctions[i].status \in {"Proposed", "DueProcess"}
    /\ EnactInTime(sanctions[i], t)
    /\ sanctions' = [sanctions EXCEPT ![i].status = "Enacted",
                                      ![i].enacted_at = {t}]
    /\ UNCHANGED <<emergencies, delegations, corpus>>

reverse(i) ==
    /\ sanctions[i].status = "Enacted"
    /\ sanctions' = [sanctions EXCEPT ![i].status = "Reversed"]
    /\ UNCHANGED <<emergencies, delegations, corpus>>

-----------------------------------------------------------------------------
(* The authority matrix.  The Vec of a delegate is the set of its          *)
(* delegations, each with its place: what a retain leaves keeps its order. *)

is_active(d, t) == ~d.revoked /\ ~(d.expires_at <= t)

active_delegations(matrix, did, t) == {e \in matrix[did] : is_active(e[2], t)}

has_authority(matrix, did, class, t) ==
    \E e \in active_delegations(matrix, did, t) : class \in e[2].decision_classes

(* A push: n is the place after the last one. *)
Grant(did, d) ==
    /\ \E n \in 1..MaxGrants :
          /\ \A e \in delegations[did] : e[1] < n
          /\ n = 1 \/ \E e \in delegations[did] : e[1] = n - 1
          /\ delegations' = [delegations EXCEPT ![did] = @ \cup {<<n, d>>}]
    /\ UNCHANGED <<emergencies, sanctions, corpus>>

Delegation(id, scope, expires_at, sub) ==
    [id |-> id, decision_classes |-> scope, expires_at |-> expires_at,
     revoked |-> FALSE, allows_sub_delegation |-> sub]

(* The tenant grants classes of RootScope. *)
grant(did, id, scope, expires_at, sub) ==
    /\ scope \subseteq RootScope
    /\ Grant(did, Delegation(id, scope, expires_at, sub))

revoke(did, id) ==
    /\ \E e \in delegations[did] : e[2].id = id
    /\ delegations' = [delegations EXCEPT ![did] =
          {IF e[2].id = id THEN <<e[1], [e[2] EXCEPT !.revoked = TRUE]>> ELSE e : e \in @}]
    /\ UNCHANGED <<emergencies, sanctions, corpus>>

Purged(matrix, t) ==
    [did \in Dids |-> active_delegations(matrix, did, t)]

purge_expired(t) ==
    /\ delegations' = Purged(delegations, t)
    /\ UNCHANGED <<emergencies, sanctions, corpus>>

(* Whole days; an expired delegation has 0 of them left. *)
days_until_expiry(d, t) ==
    IF d.expires_at <= t THEN 0 ELSE (d.expires_at - t) \div MS_PER_DAY

(* The delegations of a delegate that a warning is due for. *)
expiry_warnings(matrix, did, t) ==
    {e \in active_delegations(matrix, did, t) :
        \E threshold \in EXPIRY_WARNING_DAYS :
            days_until_expiry(e[2], t) <= threshold}

(* The first of the delegations with the given id. *)
First(entries, id, e) ==
    /\ e[2].id = id
    /\ \A f \in entries : f[2].id = id => e[1] <= f[1]

CoversScope(parent, scope) == scope \subseteq parent.decision_classes

sub_delegate(parent_did, parent_id, did, id, scope, expires_at, sub, t) ==
    \E e \in delegations[parent_did] :
        LET parent == e[2]
        IN  /\ First(delegations[parent_did], parent_id, e)
            /\ is_active(parent, t)
            /\ parent.allows_sub_delegation
            /\ CoversScope(parent, scope)
            /\ Grant(did, Delegation(id, scope, expires_at, sub))

-----------------------------------------------------------------------------
(* The constitution.                                                       *)

Article == [id : ArticleIds, text : Texts, tier : Tiers,
            status : {"Active", "Amended", "Repealed"}]

(* The text and the id of every article, in order, are hashed; the tier    *)
(* and the status are not.                                                 *)
compute_corpus_hash(articles) ==
    [i \in 1..Len(articles) |-> <<articles[i].text, articles[i].id>>]

new_corpus(articles) ==
    [articles |-> articles, version |-> 1, ratified |-> FALSE,
     hash |-> compute_corpus_hash(articles), amendment_count |-> 0]

(* The first article with the id; the index 0 stands for None. *)
find_article(articles, id) ==
    LET at == {i \in 1..Len(articles) : articles[i].id = id}
    IN  IF at = {} THEN 0 ELSE CHOOSE i \in at : \A j \in at : i <= j

(* The articles a proposed one would conflict with. *)
dry_run_amendment(articles, proposed) ==
    {i \in 1..Len(articles) : /\ articles[i].status = "Active"
                              /\ articles[i].id = proposed.id}

ratify(signatures) ==
    /\ ~corpus.ratified
    /\ signatures >= REQUIRED_SIGNATURES
    /\ corpus' = [corpus EXCEPT !.ratified = TRUE]
    /\ UNCHANGED <<emergencies, sanctions, delegations>>

amend(article, signatures) ==
    /\ corpus.ratified
    /\ signatures > 0
    /\ corpus.amendment_count < MaxAmendments
    /\ LET articles == Append(corpus.articles, article)
       IN  corpus' = [corpus EXCEPT
              !.articles = articles,
              !.version = @ + 1,
              !.hash = compute_corpus_hash(articles),
              !.amendment_count = @ + 1]
    /\ UNCHANGED <<emergencies, sanctions, delegations>>

-----------------------------------------------------------------------------
PowersInit ==
    /\ emergencies = <<>>
    /\ sanctions = <<>>
    /\ delegations = [did \in Dids |-> {}]
    /\ \E article \in Article : corpus = new_corpus(<<article>>)

EmergencyStep ==
    \/ \E actor \in Dids, t \in Stamps : create_emergency_action(actor, t)
    \/ \E i \in 1..Len(emergencies), t \in Stamps :
          ratify_emergency(i, t) \/ check_expiry(i, t)

SanctionStep ==
    \/ \E type \in SanctionType, t \in Stamps : propose(type, t)
    \/ \E i \in 1..Len(sanctions) :
          \/ begin_due_process(i)
          \/ \E t \in Stamps : enact(i, t)
          \/ reverse(i)

MatrixStep ==
    \/ \E did \in Dids, id \in DelegationIds, scope \in SUBSET Classes,
          expires_at \in Stamps, sub \in BOOLEAN :
          \/ grant(did, id, scope, expires_at, sub)
          \/ \E from \in Dids, parent \in DelegationIds, t \in Stamps :
                sub_delegate(from, parent, did, id, scope, expires_at, sub, t)
    \/ \E did \in Dids, id \in DelegationIds : revoke(did, id)
    \/ \E t \in Stamps : purge_expired(t)

CorpusStep ==
    \E signatures \in 0..REQUIRED_SIGNATURES :
        \/ ratify(signatures)
        \/ \E article \in Article : amend(article, signatures)

PowersNext == EmergencyStep \/ SanctionStep \/ MatrixStep \/ CorpusStep

PowersSpec == PowersInit /\ [][PowersNext]_powers

-----------------------------------------------------------------------------
(* The records keep their types; an emergency action names the decision    *)
(* that ratified it when it is ratified and only then (ratify_emergency),  *)
(* a sanction its time of enactment once it was enacted (enact).           *)
PowersTypeOK ==
    /\ \A i \in 1..Len(emergencies) :
          /\ emergencies[i].actor_did \in Dids
          /\ emergencies[i].ratification_status \in {"Required", "Ratified", "Expired"}
          /\ emergencies[i].ratification_decision_id <=>
                emergencies[i].ratification_status = "Ratified"
    /\ \A i \in 1..Len(sanctions) :
          /\ sanctions[i].action_type \in SanctionType
          /\ sanctions[i].status \in {"Proposed", "DueProcess", "Enacted", "Reversed"}
          /\ sanctions[i].enacted_at # {} <=>
                sanctions[i].status \in {"Enacted", "Reversed"}
    /\ \A did \in Dids : \A e \in delegations[did] :
          /\ e[2].id \in DelegationIds
          /\ e[2].expires_at \in Stamps
    /\ \A i \in 1..Len(corpus.articles) : corpus.articles[i] \in Article

(* As long as invocations go through check_per_actor_limit, no actor holds *)
(* more unexpired emergency actions than the policy allows, however        *)
(* creation, ratification and expiry are interleaved.                      *)
EmergencyLimit ==
    MAX_PER_ACTOR > 0 =>
        \A actor \in Dids :
            Cardinality({i \in 1..Len(emergencies) :
                /\ emergencies[i].actor_did = actor
                /\ emergencies[i].ratification_status # "Expired"})
                    <= MAX_PER_ACTOR

(* Ratification and expiry race for an emergency action, and the first to  *)
(* arrive settles it: neither undoes the other (ratify_emergency,          *)
(* check_expiry).                                                          *)
SettledEmergenciesStay ==
    [][\A i \in 1..Len(emergencies) :
          emergencies[i].ratification_status # "Required" =>
              emergencies'[i] = emergencies[i]]_powers

(* A suspension that was enacted was enacted within the limit, whether or  *)
(* not due process was begun in between ("Suspension must be immediate",   *)
(* accountability.rs).                                                     *)
SuspensionsPrompt ==
    \A i \in 1..Len(sanctions) :
        sanctions[i].action_type = "Suspension" =>
            \A t \in sanctions[i].enacted_at :
                t <= sanctions[i].proposed_at + SUSPENSION_LIMIT

(* The limits of the emergency policy and of suspensions hold, however the *)
(* calls and the clocks behind them are interleaved (check_per_actor_limit,*)
(* enact).                                                                 *)
LimitsHold == EmergencyLimit /\ SuspensionsPrompt

(* Purging the matrix at some time changes no answer of has_authority and  *)
(* no warning of an expiry at that time or later (purge_expired, is_active,*)
(* expiry_warnings).                                                       *)
PurgeIsInvisible ==
    \A t \in Stamps : \A u \in {v \in Stamps : v >= t} : \A did \in Dids :
        /\ \A class \in Classes :
              has_authority(delegations, did, class, u) <=>
                  has_authority(Purged(delegations, t), did, class, u)
        /\ expiry_warnings(delegations, did, u) =
              expiry_warnings(Purged(delegations, t), did, u)

(* No chain of sub-delegations, however its parents are revoked, purged or *)
(* re-granted under the same id, reaches a class the tenant never granted  *)
(* (sub_delegate).                                                         *)
ScopeNarrows ==
    \A did \in Dids : \A e \in delegations[did] :
        e[2].decision_classes \subseteq RootScope

(* The hash a decision is bound to is that of the articles in force, and   *)
(* the version counts the amendments (amend, compute_corpus_hash).         *)
CorpusBinding(c) ==
    /\ c.hash = compute_corpus_hash(c.articles)
    /\ c.version = c.amendment_count + 1
    /\ c.amendment_count > 0 => c.ratified

(* An amendment for which the dry run finds no conflict is what its id     *)
(* leads to once it is adopted, unless an article out of force still holds *)
(* the id (dry_run_amendment, find_article, amend).                        *)
AmendmentIsFound ==
    \A article \in Article :
        LET articles == Append(corpus.articles, article)
            found    == find_article(articles, article.id)
        IN  dry_run_amendment(corpus.articles, article) = {} =>
                found = Len(articles) \/ articles[found].status # "Active"

(* The corpus a decision cites by hash and an application reads by id is   *)
(* the one its amendments made (amend, find_article).                      *)
CorpusSound == CorpusBinding(corpus) /\ AmendmentIsFound

(* No power of the forum grows past what was granted, whatever the order   *)
(* of the calls (emergency.rs, accountability.rs, authority_matrix.rs,     *)
(* constitution.rs).                                                       *)
PowersBounded ==
    PowersTypeOK /\ LimitsHold /\ PurgeIsInvisible /\ ScopeNarrows /\ CorpusSound
=============================================================================
