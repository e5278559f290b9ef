--------------------------- MODULE ConsentProofs ----------------------------
(***************************************************************************)
(* What holds of the consent gate for every set of parties, bailments,     *)
(* actions, roles and policies and any number of registrations.            *)
(*                                                                         *)
(* A grant is honoured because of the consents it was computed from, and   *)
(* those are not in the answer: the inductive invariant says that they are *)
(* still in the gate, active, and none of them ends before the grant does. *)
(***************************************************************************)
EXTENDS Consent, WellFoundedInduction, TLAPS

(* A requirement's consent, whatever the time is. *)
Fits(c, req) ==
    /\ c.action_type = req.action_type
    /\ c.role = req.required_role
    /\ c.clearance_level >= req.min_clearance_level
    /\ c.bailment.status = "Active"

(* The consent lasts at least as long as the grant. *)
Outlasts(c, e) == c.bailment.expires = None \/ (e # None /\ e <= c.bailment.expires)

(* What a grant given out rests on: nothing, under a policy that lets      *)
(* uncovered actions pass, or a consent for each requirement.              *)
Supported(g) ==
    IF Applicable(policy, g.action) = {} THEN ~policy.deny_by_default
    ELSE \A i \in Applicable(policy, g.action) : \E e \in consents[g.actor] :
            /\ Fits(e[2], policy.required_consents[i])
            /\ Outlasts(e[2], g.expires)

Grant == [actor : Dids, action : Actions, expires : 0..MaxTime]

(* A revoked identifier is mentioned by no consent. *)
RevokedGone ==
    \A id \in revoked, d \in Dids : \A e \in consents[d] : e[2].bailment.id # id

(* A bailment carries the identifier it was proposed under. *)
OwnId == \A id \in Ids : bailments[id] # NoBailment => bailments[id].id = id

IInv ==
    /\ TypeOK
    /\ OwnId
    /\ grants \subseteq Grant
    /\ \A g \in grants : Supported(g)
    /\ RevokedGone

-----------------------------------------------------------------------------
(* A set of times that is not empty has a least one. *)
LEMMA LeastTime ==
    ASSUME NEW T \in SUBSET Nat, T # {}
    PROVE  \E m \in T : \A k \in T : m <= k
<1> DEFINE R == {ss \in Nat \X Nat : ss[1] < ss[2]}
<1>1. IsWellFoundedOn(R, Nat)
  BY NatLessThanWellFounded DEF OpToRel
<1>2. \E x \in T : \A y \in T : ~(<<y, x>> \in R)
  BY <1>1, WFMin, Zenon
<1>3. PICK x \in T : \A y \in T : ~(<<y, x>> \in R)
  BY <1>2
<1>4. \A y \in T : x <= y
  <2> TAKE y \in T
  <2>1. x \in Nat /\ y \in Nat
    OBVIOUS
  <2>2. y < x => <<y, x>> \in R
    BY <2>1
  <2> QED BY <2>1, <2>2, <1>3
<1> QED BY <1>4

(* The expiry evaluate computes is the least of the ones it saw, or none. *)
LEMMA EarliestExact ==
    ASSUME NEW E \in SUBSET Nat
    PROVE  /\ E = {} => Earliest(E) = None
           /\ E # {} => Earliest(E) \in E /\ \A f \in E : Earliest(E) <= f
<1>1. CASE E = {}
  BY <1>1 DEF Earliest
<1>2. CASE E # {}
  <2>1. \E e \in E : \A f \in E : e <= f
    BY <1>2, LeastTime
  <2> QED BY <1>2, <2>1 DEF Earliest
<1> QED BY <1>1, <1>2

(* Meeting a requirement is fitting it while the bailment runs. *)
LEMMA MeetsExact ==
    ASSUME NEW c \in ConsentReg, NEW req, NEW t \in Nat
    PROVE  Meets(c, req, t) <=>
             Fits(c, req) /\ (c.bailment.expires = None \/ t < c.bailment.expires)
<1>1. c.bailment \in Bailment
  BY DEF ConsentReg
<1>2. c.bailment.expires \in 0..MaxTime
  BY <1>1 DEF Bailment
<1>3. c.bailment.expires \in Nat
  BY <1>2, ConsentAssumption
<1> QED BY <1>3 DEF Meets, Fits, is_active, is_expired, None

(* The answers of evaluate, from the requirements that are met. *)
LEMMA EvaluateGrants ==
    ASSUME NEW pol, NEW regs, NEW action, NEW t
    PROVE  /\ evaluate(pol, regs, action, t).decision = "Granted" <=>
                IF Applicable(pol, action) = {} THEN ~pol.deny_by_default
                ELSE \A i \in Applicable(pol, action) : \E e \in regs :
                        Meets(e[2], pol.required_consents[i], t)
           /\ evaluate(pol, regs, action, t).decision = "Granted" =>
                evaluate(pol, regs, action, t).expires =
                   IF Applicable(pol, action) = {} THEN None
                   ELSE Earliest(Expiries(pol, regs, action, t))
<1> DEFINE app == Applicable(pol, action)
           met(i) == \E e \in regs : Meets(e[2], pol.required_consents[i], t)
           esc == Escalators(regs, action, t)
           exp == Earliest(Expiries(pol, regs, action, t))
           to == FirstOf(esc)[2].bailment.bailor_did
           ev == evaluate(pol, regs, action, t)
<1>1. ev = CASE app = {} /\ pol.deny_by_default -> Denied
              [] app = {} /\ ~pol.deny_by_default -> Granted(None)
              [] app # {} /\ (\A i \in app : met(i)) -> Granted(exp)
              [] app # {} /\ (\E i \in app : ~met(i)) /\ esc # {} -> Escalated(to)
              [] OTHER -> Denied
  BY DEF evaluate
<1>2. /\ Denied.decision = "Denied"
      /\ \A x : Escalated(x).decision = "Escalated"
      /\ \A x : Granted(x).decision = "Granted" /\ Granted(x).expires = x
  BY DEF Denied, Escalated, Granted
<1>3. CASE app = {}
  <2>1. ev = IF pol.deny_by_default THEN Denied ELSE Granted(None)
    BY <1>1, <1>3
  <2> QED BY <2>1, <1>2, <1>3
<1>4. CASE app # {} /\ \A i \in app : met(i)
  <2>1. ev = Granted(exp)
    BY <1>1, <1>4
  <2> QED BY <2>1, <1>2, <1>4
<1>5. CASE app # {} /\ \E i \in app : ~met(i)
  <2>1. ev = Denied \/ ev = Escalated(to)
    BY <1>1, <1>5
  <2> QED BY <2>1, <1>2, <1>5
<1> QED BY <1>3, <1>4, <1>5

-----------------------------------------------------------------------------
(* A supported grant is honoured until it expires. *)
LEMMA SupportedIsHonoured ==
    ASSUME TypeOK, NEW g \in Grant, Supported(g),
           g.expires = None \/ now < g.expires
    PROVE  check(g.actor, g.action, now).decision = "Granted"
<1> DEFINE app == Applicable(policy, g.action)
           regs == ActiveRegs(g.actor, now)
<1>1. now \in Nat /\ g.actor \in Dids /\ g.expires \in Nat
  BY ConsentAssumption DEF TypeOK, Grant
<1>2. SUFFICES ASSUME app # {}, NEW i \in app
               PROVE  \E e \in regs : Meets(e[2], policy.required_consents[i], now)
  BY EvaluateGrants DEF check, Supported
<1>3. PICK e \in consents[g.actor] :
          /\ Fits(e[2], policy.required_consents[i])
          /\ Outlasts(e[2], g.expires)
  BY <1>2 DEF Supported
<1>4. e[2] \in ConsentReg
  BY <1>1 DEF TypeOK
<1>5. e[2].bailment.expires \in Nat
  <2>1. e[2].bailment \in Bailment
    BY <1>4 DEF ConsentReg
  <2> QED BY <2>1, ConsentAssumption DEF Bailment
<1>6. e[2].bailment.expires = None \/ now < e[2].bailment.expires
  BY <1>1, <1>3, <1>5 DEF Outlasts, None
<1>7. Meets(e[2], policy.required_consents[i], now)
  BY <1>1, <1>3, <1>4, <1>6, MeetsExact
<1>8. e \in regs
  BY <1>7 DEF Meets, ActiveRegs
<1> QED BY <1>7, <1>8

(* The inductive invariant gives what the runs check. *)
LEMMA InvImplies ==
    ASSUME IInv
    PROVE  GrantsSound /\ RevokedSupportsNothing
<1>1. GrantHonoured
  BY SupportedIsHonoured DEF IInv, GrantHonoured
<1>2. ASSUME NEW id \in revoked, NEW d \in Dids, NEW t
      PROVE  {e \in ActiveRegs(d, t) : e[2].bailment.id # id} = ActiveRegs(d, t)
  BY <1>2 DEF IInv, RevokedGone, ActiveRegs
<1>3. RevokedSupportsNothing
  <2> SUFFICES ASSUME NEW id \in revoked, NEW d \in Dids, NEW action \in Actions,
                      NEW t \in now..MaxTime
               PROVE  check(d, action, t) =
                        evaluate(policy,
                                 {e \in ActiveRegs(d, t) : e[2].bailment.id # id},
                                 action, t)
    BY DEF RevokedSupportsNothing
  <2> QED BY <1>2 DEF check
<1> QED BY <1>1, <1>3 DEF IInv, GrantsSound

LEMMA InitInv == Init => IInv
BY ConsentAssumption DEF Init, IInv, TypeOK, OwnId, RevokedGone

(* A new grant is supported by the consents evaluate found. *)
LEMMA CheckSupports ==
    ASSUME TypeOK, NEW actor \in Dids, NEW action \in Actions,
           check(actor, action, now).decision = "Granted"
    PROVE  LET g == [actor |-> actor, action |-> action,
                     expires |-> check(actor, action, now).expires]
           IN  g \in Grant /\ Supported(g)
<1> DEFINE app == Applicable(policy, action)
           regs == ActiveRegs(actor, now)
           E == Expiries(policy, regs, action, now)
           x == check(actor, action, now).expires
           g == [actor |-> actor, action |-> action, expires |-> x]
<1>1. now \in Nat
  BY ConsentAssumption DEF TypeOK
<1>2. \A e \in regs : /\ e \in consents[actor] /\ e[2] \in ConsentReg
                       /\ e[2].bailment.expires \in 0..MaxTime
  BY DEF TypeOK, ActiveRegs, ConsentReg, Bailment
<1>3. E \subseteq 0..MaxTime
  BY <1>2 DEF Expiries
<1>4. E \in SUBSET Nat
  BY <1>3, ConsentAssumption
<1>5. CASE app = {}
  <2>1. x = None /\ ~policy.deny_by_default
    BY <1>5, EvaluateGrants DEF check
  <2>2. g \in Grant
    BY <2>1, ConsentAssumption DEF Grant, None
  <2>3. Supported(g)
    BY <1>5, <2>1 DEF Supported
  <2> QED BY <2>2, <2>3
<1>6. CASE app # {}
  <2>1. x = Earliest(E)
    BY <1>6, EvaluateGrants DEF check
  <2>2. /\ E = {} => x = None
        /\ E # {} => x \in E /\ \A f \in E : x <= f
    BY <2>1, <1>4, EarliestExact
  <2>3. g \in Grant
    <3>1. x \in 0..MaxTime
      BY <2>2, <1>3, ConsentAssumption DEF None
    <3> QED BY <3>1 DEF Grant
  <2>4. ASSUME NEW i \in app
        PROVE  \E e \in consents[actor] :
                  /\ Fits(e[2], policy.required_consents[i])
                  /\ Outlasts(e[2], x)
    <3>1. PICK e \in regs : Meets(e[2], policy.required_consents[i], now)
      BY <1>6, <2>4, EvaluateGrants DEF check
    <3>2. Fits(e[2], policy.required_consents[i])
      BY <1>1, <1>2, <3>1, MeetsExact
    <3>3. e[2].bailment.expires = None \/ e[2].bailment.expires \in E
      BY <2>4, <3>1 DEF Expiries
    <3>4. Outlasts(e[2], x)
      <4>1. CASE e[2].bailment.expires = None
        BY <4>1 DEF Outlasts
      <4>2. CASE e[2].bailment.expires # None
        <5>1. x \in E /\ x <= e[2].bailment.expires
          BY <4>2, <3>3, <2>2
        <5>2. None \notin E
          BY DEF Expiries
        <5> QED BY <5>1, <5>2 DEF Outlasts
      <4> QED BY <4>1, <4>2
    <3> QED BY <1>2, <3>2, <3>4
  <2>5. Supported(g)
    BY <1>6, <2>4 DEF Supported
  <2> QED BY <2>3, <2>5
<1> QED BY <1>5, <1>6

(* What keeps the policy and loses no consent keeps a grant supported. *)
LEMMA SupportedStays ==
    ASSUME NEW g \in Grant, Supported(g), UNCHANGED policy,
           consents[g.actor] \subseteq consents'[g.actor]
    PROVE  Supported(g)'
BY DEF Supported, Applicable

LEMMA NextInv == IInv /\ [Next]_vars => IInv'
<1> SUFFICES ASSUME IInv, [Next]_vars PROVE IInv'
  OBVIOUS
<1> USE DEF gate
<1>1. ASSUME NEW id \in Ids, NEW p \in Parties, NEW type \in Types,
             NEW exp \in {None} \cup (2..MaxTime),
             propose(id, p[1], p[2], type, exp)
      PROVE  IInv'
  <2>1. bailments' \in [Ids -> Bailment \cup {NoBailment}]
    <3>1. p[1] \in Dids /\ p[2] \in Dids /\ exp \in 0..MaxTime
      BY ConsentAssumption DEF None
    <3>2. [id |-> id, bailor_did |-> p[1], bailee_did |-> p[2],
           bailment_type |-> type, expires |-> exp, status |-> "Proposed"]
             \in Bailment
      BY <3>1 DEF Bailment
    <3> QED BY <1>1, <3>2 DEF propose, IInv, TypeOK
  <2>3. OwnId'
    BY <1>1 DEF propose, IInv, TypeOK, OwnId
  <2>2. UNCHANGED <<registered, consents, policy, now, grants, revoked>>
    BY <1>1 DEF propose
  <2> QED BY <2>1, <2>2, <2>3, SupportedStays DEF IInv, TypeOK, RevokedGone
<1>2. ASSUME NEW id \in Ids, accept(id) \/ \E actor \in Dids : terminate(id, actor)
      PROVE  IInv'
  <2>1. PICK st \in {"Active", "Terminated"} :
           /\ bailments[id] # NoBailment
           /\ bailments' = [bailments EXCEPT ![id].status = st]
    BY <1>2 DEF accept, terminate
  <2>2. bailments[id] \in Bailment
    BY <2>1 DEF IInv, TypeOK
  <2>3. [bailments[id] EXCEPT !.status = st] \in Bailment
    BY <2>2 DEF Bailment
  <2>4. bailments' \in [Ids -> Bailment \cup {NoBailment}]
    BY <2>1, <2>3 DEF IInv, TypeOK
  <2>5. UNCHANGED <<registered, consents, policy, now, grants, revoked>>
    BY <1>2 DEF accept, terminate
  <2>6. OwnId'
    <3>1. \A i \in Ids \ {id} : bailments'[i] = bailments[i]
      BY <2>1 DEF IInv, TypeOK
    <3>2. bailments'[id] = [bailments[id] EXCEPT !.status = st]
      BY <2>1 DEF IInv, TypeOK
    <3>3. bailments'[id].id = bailments[id].id
      BY <3>2, <2>2 DEF Bailment
    <3> QED BY <3>1, <3>3, <2>1 DEF IInv, OwnId
  <2> QED BY <2>4, <2>5, <2>6, SupportedStays DEF IInv, TypeOK, RevokedGone
<1>3. ASSUME NEW id \in Ids, register_bailment(id)
      PROVE  IInv'
  <2> DEFINE d == bailments[id].bailee_did
  <2>1. /\ bailments[id] \in Bailment /\ d \in Dids
    BY <1>3 DEF register_bailment, IInv, TypeOK, Bailment
  <2>2. PICK n \in 1..MaxHeld :
           registered' = [registered EXCEPT ![d] = @ \cup {<<n, bailments[id]>>}]
    BY <1>3 DEF register_bailment
  <2>3. registered' \in [Dids -> SUBSET ((1..MaxHeld) \X Bailment)]
    BY <2>1, <2>2 DEF IInv, TypeOK
  <2>4. \A c \in Dids : \A e \in registered'[c] : e[2].bailee_did = c
    BY <2>1, <2>2 DEF IInv, TypeOK
  <2>5. UNCHANGED <<bailments, consents, policy, now, grants>>
        /\ revoked' \subseteq revoked
    BY <1>3 DEF register_bailment
  <2> QED BY <2>3, <2>4, <2>5, SupportedStays DEF IInv, TypeOK, OwnId, RevokedGone
<1>4. ASSUME NEW actor \in Dids, NEW action \in Actions, NEW role \in Roles,
             NEW c \in 0..MaxClearance, NEW id \in Ids,
             register_consent(actor, action, role, c, id)
      PROVE  IInv'
  <2> DEFINE reg == [action_type |-> action, role |-> role,
                     clearance_level |-> c, bailment |-> bailments[id]]
  <2>1. bailments[id] \in Bailment
    BY <1>4 DEF register_consent, IInv, TypeOK
  <2>2. reg \in ConsentReg
    BY <2>1 DEF ConsentReg
  <2>3. PICK n \in 1..MaxRegs :
           consents' = [consents EXCEPT ![actor] = @ \cup {<<n, reg>>}]
    BY <1>4 DEF register_consent
  <2>4. /\ UNCHANGED <<bailments, registered, policy, now, grants>>
        /\ revoked' = revoked \ {id}
    BY <1>4 DEF register_consent
  <2>5. reg.bailment = bailments[id]
    OBVIOUS
  <2>6. bailments[id].id = id
    BY <1>4 DEF register_consent, IInv, OwnId
  <2> HIDE DEF reg
  <2>7. consents' \in [Dids -> SUBSET ((1..MaxRegs) \X ConsentReg)]
    BY <2>2, <2>3 DEF IInv, TypeOK
  <2>8. \A d \in Dids : consents[d] \subseteq consents'[d]
    BY <2>3 DEF IInv, TypeOK
  <2>9. \A g \in grants' : Supported(g)'
    BY <2>4, <2>8, SupportedStays DEF IInv, Grant
  <2>10. RevokedGone'
    BY <2>3, <2>4, <2>5, <2>6 DEF RevokedGone, IInv, TypeOK
  <2> QED BY <2>4, <2>7, <2>9, <2>10 DEF IInv, TypeOK, OwnId
<1>5. ASSUME NEW id \in Ids, revoke_by_bailment_id(id)
      PROVE  IInv'
  <2>1. /\ consents' = [d \in Dids |-> {e \in consents[d] : e[2].bailment.id # id}]
        /\ registered' = [d \in Dids |-> {e \in registered[d] : e[2].id # id}]
        /\ grants' = {} /\ revoked' = revoked \cup {id}
        /\ UNCHANGED <<bailments, policy, now>>
    BY <1>5 DEF revoke_by_bailment_id, RetainConsents
  <2>2. TypeOK'
    BY <2>1 DEF IInv, TypeOK
  <2>3. RevokedGone'
    BY <2>1 DEF IInv, RevokedGone
  <2> QED BY <2>1, <2>2, <2>3 DEF IInv, OwnId
<1>6. ASSUME NEW p \in Policies, set_policy(p)
      PROVE  IInv'
  BY <1>6 DEF set_policy, IInv, TypeOK, OwnId, RevokedGone
<1>7. ASSUME NEW actor \in Dids, NEW action \in Actions, Check(actor, action)
      PROVE  IInv'
  <2> DEFINE g == [actor |-> actor, action |-> action,
                   expires |-> check(actor, action, now).expires]
  <2>1. g \in Grant /\ Supported(g)
    BY <1>7, CheckSupports DEF Check, IInv
  <2>2. /\ grants' = grants \cup {g}
        /\ UNCHANGED <<bailments, registered, consents, policy, now, revoked>>
    BY <1>7 DEF Check
  <2> HIDE DEF g
  <2>3. \A h \in grants' : h \in Grant /\ Supported(h)
    BY <2>1, <2>2 DEF IInv
  <2>4. \A h \in grants' : Supported(h)'
    BY <2>2, <2>3, SupportedStays
  <2> QED BY <2>2, <2>3, <2>4 DEF IInv, TypeOK, OwnId, RevokedGone
<1>8. ASSUME Tick
      PROVE  IInv'
  <2>1. now' \in 1..MaxTime
    BY <1>8, ConsentAssumption DEF Tick, IInv, TypeOK
  <2>2. UNCHANGED <<bailments, registered, consents, policy, grants, revoked>>
    BY <1>8 DEF Tick
  <2> QED BY <2>1, <2>2, SupportedStays DEF IInv, TypeOK, OwnId, RevokedGone
<1>9. CASE UNCHANGED vars
  <2>1. UNCHANGED <<bailments, registered, consents, policy, now, grants, revoked>>
    BY <1>9 DEF vars
  <2> QED BY <2>1, SupportedStays DEF IInv, TypeOK, OwnId, RevokedGone
<1> QED
  BY <1>1, <1>2, <1>3, <1>4, <1>5, <1>6, <1>7, <1>8, <1>9 DEF Next

(* The invariant holds throughout: what the gate answered is still backed  *)
(* by what it holds (register_consent, revoke_by_bailment_id, set_policy,  *)
(* check).                                                                 *)
THEOREM GateInvariant == Spec => []IInv
BY InitInv, NextInv, PTL DEF Spec

(* For every policy and any number of consents, a grant is honoured until  *)
(* the expiry check gave it, unless the policy was set or a bailment       *)
(* revoked since (PolicyEngine::evaluate's earliest_expiry).               *)
THEOREM GrantsAreSound == Spec => []GrantsSound
BY GateInvariant, InvImplies, PTL

(* A bailment revoked and not registered again has no part in any answer   *)
(* of the gate (ConsentGate::revoke_by_bailment_id, check).                *)
THEOREM RevocationIsComplete == Spec => []RevokedSupportsNothing
BY GateInvariant, InvImplies, PTL
=============================================================================
