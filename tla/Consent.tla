------------------------------ MODULE Consent -------------------------------
(***************************************************************************)
(* The consent gate of crates/exo-consent: bailment.rs (a bailment's life  *)
(* cycle), policy.rs (PolicyEngine::evaluate) and gatekeeper.rs            *)
(* (ConsentGate).                                                          *)
(*                                                                         *)
(* The gate owns its bailments: register_bailment and register_consent     *)
(* take them by value, so what the parties do to their own copy afterwards *)
(* (accept, terminate) does not reach the gate.  A policy names its        *)
(* requirements in order; a role and a clearance level are required of a   *)
(* consent for the same action.                                            *)
(*                                                                         *)
(* A Vec of the gate is a set of <<place, entry>> pairs, the place giving  *)
(* the order of insertion: what retain or filter leaves keeps its order.   *)
(*                                                                         *)
(* check changes nothing.  The action Check records the grants the gate    *)
(* gave out, for a caller that keeps the answer until its expiry.          *)
(***************************************************************************)
EXTENDS Naturals, Sequences, FiniteSets

CONSTANTS
    Dids,             \* bailors, bailees and actors
    Parties,          \* the pairs of a bailor and a bailee that deal
    Ids,              \* bailment identifiers
    Actions, Roles,   \* action types and roles
    MaxClearance,     \* greatest clearance level used
    Policies,         \* the policies set_policy may install
    MaxTime,          \* the clock stops here
    Types,            \* the bailment types in use
    MaxRegs,          \* bound on the places of an actor's consents
    MaxHeld,          \* bound on the places of a bailee's bailments
    NoBailment        \* what Ids hold before propose

ConsentRequirement ==
    [action_type : Actions, required_role : Roles, min_clearance_level : 0..MaxClearance]

ASSUME ConsentAssumption ==
    /\ MaxClearance \in Nat /\ MaxTime \in Nat \ {0}
    /\ MaxRegs \in Nat /\ MaxHeld \in Nat
    /\ Parties \subseteq Dids \X Dids
    /\ Types \subseteq {"Custody", "Processing", "Delegation", "Emergency"}
    /\ \A p \in Policies :
          /\ p.deny_by_default \in BOOLEAN
          /\ \A i \in 1..Len(p.required_consents) :
                p.required_consents[i] \in ConsentRequirement

VARIABLES
    bailments,    \* the parties' own copy of each bailment
    registered,   \* ConsentGate.bailments: per bailee
    consents,     \* ConsentGate.consents: per actor
    policy,       \* ConsentGate.policy
    now,          \* the time passed to check
    grants,       \* the grants given out since the policy or a revocation
                  \* last changed the gate
    revoked       \* identifiers revoked and not registered since

gate == <<registered, consents, policy>>
vars == <<bailments, registered, consents, policy, now, grants, revoked>>

None == 0     \* an absent expiry; times start at 1

Bailment == [id : Ids, bailor_did : Dids, bailee_did : Dids,
             bailment_type : Types, expires : 0..MaxTime,
             status : {"Proposed", "Active", "Terminated"}]

ConsentReg == [action_type : Actions, role : Roles,
               clearance_level : 0..MaxClearance, bailment : Bailment]

-----------------------------------------------------------------------------
(* Timestamp::is_expired, exp <= now. *)
is_expired(exp, t) == exp <= t

is_active(b, t) ==
    b.status = "Active" /\ (b.expires = None \/ ~is_expired(b.expires, t))

Applicable(pol, action) ==
    {i \in 1..Len(pol.required_consents) :
        pol.required_consents[i].action_type = action}

(* The test `satisfied` and the expiry loop make on one consent. *)
Meets(c, req, t) ==
    /\ c.action_type = req.action_type
    /\ c.role = req.required_role
    /\ c.clearance_level >= req.min_clearance_level
    /\ is_active(c.bailment, t)

(* The expiries of the consents that meet an applicable requirement. *)
Expiries(pol, regs, action, t) ==
    {e[2].bailment.expires :
        e \in {f \in regs : \E i \in Applicable(pol, action) :
                  Meets(f[2], pol.required_consents[i], t)}} \ {None}

(* Mutant: the grant lasts as long as its longest consent. *)
Earliest_Latest(E) ==
    IF E = {} THEN None ELSE CHOOSE e \in E : \A f \in E : e >= f

Earliest(E) ==
    IF E = {} THEN None ELSE CHOOSE e \in E : \A f \in E : e <= f

(* The consents an unmet requirement may be escalated through. *)
Escalators(regs, action, t) ==
    {e \in regs :
        /\ e[2].action_type = action
        /\ e[2].bailment.bailment_type = "Delegation"
        /\ is_active(e[2].bailment, t)}

(* What find returns of the entries it accepts. *)
FirstOf(E) == CHOOSE e \in E : \A f \in E : e[1] <= f[1]

Denied == [decision |-> "Denied"]
Granted(e) == [decision |-> "Granted", expires |-> e]
Escalated(d) == [decision |-> "Escalated", to |-> d]

evaluate(pol, regs, action, t) ==
    LET app == Applicable(pol, action)
        met(i) == \E e \in regs : Meets(e[2], pol.required_consents[i], t)
        esc == Escalators(regs, action, t)
    IN  CASE app = {} /\ pol.deny_by_default  -> Denied
          [] app = {} /\ ~pol.deny_by_default -> Granted(None)
          [] app # {} /\ (\A i \in app : met(i)) ->
                Granted(Earliest(Expiries(pol, regs, action, t)))
          [] app # {} /\ (\E i \in app : ~met(i)) /\ esc # {} ->
                Escalated(FirstOf(esc)[2].bailment.bailor_did)
          [] OTHER -> Denied

(* ConsentGate::check: only the actor's consents that are active go in. *)
ActiveRegs(actor, t) == {e \in consents[actor] : is_active(e[2].bailment, t)}

check(actor, action, t) == evaluate(policy, ActiveRegs(actor, t), action, t)

-----------------------------------------------------------------------------
Init ==
    /\ bailments = [i \in Ids |-> NoBailment]
    /\ registered = [d \in Dids |-> {}]
    /\ consents = [d \in Dids |-> {}]
    /\ policy \in Policies
    /\ now = 1
    /\ grants = {}
    /\ revoked = {}

(* propose, with the expiry the parties then set in its public field. *)
propose(id, bailor, bailee, type, expires) ==
    /\ bailments[id] = NoBailment
    /\ bailments' = [bailments EXCEPT ![id] =
          [id |-> id, bailor_did |-> bailor, bailee_did |-> bailee,
           bailment_type |-> type, expires |-> expires,
           status |-> "Proposed"]]
    /\ UNCHANGED <<gate, now, grants, revoked>>

(* accept with a signature that is not empty. *)
accept(id) ==
    /\ bailments[id] # NoBailment
    /\ bailments[id].status = "Proposed"
    /\ bailments' = [bailments EXCEPT ![id].status = "Active"]
    /\ UNCHANGED <<gate, now, grants, revoked>>

terminate(id, actor) ==
    /\ bailments[id] # NoBailment
    /\ bailments[id].status # "Terminated"
    /\ actor \in {bailments[id].bailor_did, bailments[id].bailee_did}
    /\ bailments' = [bailments EXCEPT ![id].status = "Terminated"]
    /\ UNCHANGED <<gate, now, grants, revoked>>

(* n is the place after the last one of v. *)
IsNext(v, n) ==
    /\ \A e \in v : e[1] < n
    /\ n = 1 \/ \E e \in v : e[1] = n - 1

register_bailment(id) ==
    /\ bailments[id] # NoBailment
    /\ LET d == bailments[id].bailee_did
       IN  \E n \in 1..MaxHeld :
              /\ IsNext(registered[d], n)
              /\ registered' = [registered EXCEPT ![d] =
                                   @ \cup {<<n, bailments[id]>>}]
    /\ revoked' = revoked \ {id}
    /\ UNCHANGED <<bailments, consents, policy, now, grants>>

(* No relation between the actor and the parties is asked for. *)
register_consent(actor, action, role, clearance, id) ==
    /\ bailments[id] # NoBailment
    /\ \E n \in 1..MaxRegs :
          /\ IsNext(consents[actor], n)
          /\ consents' = [consents EXCEPT ![actor] = @ \cup
                {<<n, [action_type |-> action, role |-> role,
                       clearance_level |-> clearance,
                       bailment |-> bailments[id]]>>}]
    /\ revoked' = revoked \ {id}
    /\ UNCHANGED <<bailments, registered, policy, now, grants>>

(* Mutant: only what is held for the bailee is dropped. *)
RetainConsents_BaileeOnly(id) ==
    [d \in Dids |-> {e \in consents[d] :
        e[2].bailment.id # id \/ e[2].bailment.bailee_did # d}]

RetainConsents(id) ==
    [d \in Dids |-> {e \in consents[d] : e[2].bailment.id # id}]

revoke_by_bailment_id(id) ==
    /\ consents' = RetainConsents(id)
    /\ registered' = [d \in Dids |-> {e \in registered[d] : e[2].id # id}]
    /\ grants' = {}
    /\ revoked' = revoked \cup {id}
    /\ UNCHANGED <<bailments, policy, now>>

set_policy(p) ==
    /\ policy' = p
    /\ grants' = {}
    /\ UNCHANGED <<bailments, registered, consents, now, revoked>>

(* A call of check that is granted. *)
Check(actor, action) ==
    /\ check(actor, action, now).decision = "Granted"
    /\ grants' = grants \cup
          {[actor |-> actor, action |-> action,
            expires |-> check(actor, action, now).expires]}
    /\ UNCHANGED <<bailments, gate, now, revoked>>

Tick ==
    /\ now < MaxTime
    /\ now' = now + 1
    /\ UNCHANGED <<bailments, gate, grants, revoked>>

Next ==
    \/ \E id \in Ids, p \in Parties, type \in Types,
          exp \in {None} \cup (2..MaxTime) :
          propose(id, p[1], p[2], type, exp)
    \/ \E id \in Ids : accept(id)
    \/ \E id \in Ids, actor \in Dids : terminate(id, actor)
    \/ \E id \in Ids : register_bailment(id)
    \/ \E actor \in Dids, action \in Actions, role \in Roles,
          c \in 0..MaxClearance, id \in Ids :
          register_consent(actor, action, role, c, id)
    \/ \E id \in Ids : revoke_by_bailment_id(id)
    \/ \E p \in Policies : set_policy(p)
    \/ \E actor \in Dids, action \in Actions : Check(actor, action)
    \/ Tick

Spec == Init /\ [][Next]_vars

-----------------------------------------------------------------------------
(* The gate's tables hold what their types say, bailments filed under      *)
(* their bailee.                                                           *)
TypeOK ==
    /\ bailments \in [Ids -> Bailment \cup {NoBailment}]
    /\ registered \in [Dids -> SUBSET ((1..MaxHeld) \X Bailment)]
    /\ \A d \in Dids : \A e \in registered[d] : e[2].bailee_did = d
    /\ consents \in [Dids -> SUBSET ((1..MaxRegs) \X ConsentReg)]
    /\ policy \in Policies
    /\ now \in 1..MaxTime
    /\ revoked \subseteq Ids

(* A caller may act on a grant until it expires: unless the policy was     *)
(* changed or a bailment revoked since, the gate would still grant, at any *)
(* time before the expiry it gave and whatever was registered, accepted or *)
(* terminated meanwhile (check, evaluate).                                 *)
GrantHonoured ==
    \A g \in grants :
        g.expires = None \/ now < g.expires =>
            check(g.actor, g.action, now).decision = "Granted"

(* The tables are of their types and what they grant holds. *)
GrantsSound == TypeOK /\ GrantHonoured

(* A revoked bailment has no part in any decision, for any actor and at    *)
(* any time, until it is registered again: dropping everything that        *)
(* mentions it changes no answer (revoke_by_bailment_id).                  *)
RevokedSupportsNothing ==
    \A id \in revoked, d \in Dids, action \in Actions, t \in now..MaxTime :
        check(d, action, t) =
            evaluate(policy,
                     {e \in ActiveRegs(d, t) : e[2].bailment.id # id},
                     action, t)

(* "No action may proceed without an active bailment" (bailment.rs): a     *)
(* grant by a policy that covers the action rests on a bailment that its   *)
(* parties hold to be active.                                              *)
GrantRestsOnActiveBailment ==
    \A d \in Dids, action \in Actions :
        /\ check(d, action, now).decision = "Granted"
        /\ Applicable(policy, action) # {}
        => \E e \in consents[d] :
              is_active(bailments[e[2].bailment.id], now)
=============================================================================
