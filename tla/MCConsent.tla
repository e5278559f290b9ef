----------------------------- MODULE MCConsent ------------------------------
(* Small instances of Consent: one action, two roles, policies with no, one  *)
(* and two requirements for it.  MCSpec explores two scopes, picked in the   *)
(* initial state: two required roles behind bailments of different lengths,  *)
(* and bailments revoked and registered again while the policy changes.      *)
EXTENDS Consent, TLC

CONSTANTS alice, bob, b1, b2, read, owner, viewer

VARIABLE scope

Req(role, level) == [action_type |-> read, required_role |-> role,
                     min_clearance_level |-> level]
Policy(deny, reqs) == [deny_by_default |-> deny, required_consents |-> reqs]

TwoRequirements == {Policy(TRUE, <<Req(viewer, 0), Req(owner, 0)>>)}
OneRequirement == {Policy(TRUE, <<Req(owner, 1)>>)}
MixedPolicies == OneRequirement \cup {Policy(FALSE, <<>>), Policy(TRUE, <<>>)}
AllPolicies == TwoRequirements \cup MixedPolicies

Scopes ==
    {[policies |-> TwoRequirements, roles |-> {owner, viewer}, level |-> 0,
      types |-> {"Custody"}, time |-> 3, actors |-> {bob}, regs |-> 2, held |-> 0],
     [policies |-> MixedPolicies, roles |-> {owner}, level |-> 1,
      types |-> {"Custody", "Delegation"}, time |-> 2, actors |-> {alice, bob},
      regs |-> 1, held |-> 1]}

InScope ==
    /\ policy \in scope.policies
    /\ now <= scope.time
    /\ \A id \in Ids : bailments[id] = NoBailment \/
          /\ bailments[id].bailment_type \in scope.types
          /\ bailments[id].expires <= scope.time
    /\ \A d \in Dids :
          /\ Cardinality(registered[d]) <= scope.held
          /\ Cardinality(consents[d]) <=
                IF d \in scope.actors THEN scope.regs ELSE 0
          /\ \A e \in consents[d] :
                /\ e[2].role \in scope.roles
                /\ e[2].clearance_level <= scope.level

MCInit == Init /\ scope \in Scopes /\ policy \in scope.policies

MCNext == Next /\ UNCHANGED scope /\ InScope'

MCSpec == MCInit /\ [][MCNext]_<<vars, scope>>

MCDids == {alice, bob}
MCIds == {b1, b2}
MCActions == {read}
MCRoles == {owner, viewer}
AliceToBob == {<<alice, bob>>}
MCTypes == {"Custody", "Delegation"}

Symm == Permutations(MCIds)
=============================================================================
