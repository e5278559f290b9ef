----------------------------- MODULE MCGateway ------------------------------
(* Instances of Gatekeeper for TLC, and below of the gateway, of the tenants *)
(* and of the peers.  The scope picked in the initial state says which part  *)
(* of the gatekeeper moves.                                                  *)
EXTENDS Combinators, Edge

CONSTANTS h, o, k1, k2

VARIABLE scope

(* Papers that are in order, and what may be wrong with each field. *)
GoodContext ==
    [actor |-> h, actor_branches |-> {"Executive"}, bailment_state |-> "Active",
     consent_records |-> {[granted_to |-> h, active |-> TRUE]},
     authority_chain |-> <<[grantor |-> o, grantee |-> h, key |-> k1, signature |-> k1]>>,
     is_self_grant |-> FALSE, human_override_preserved |-> TRUE,
     kernel_modification_attempted |-> FALSE,
     quorum_evidence |-> {[threshold |-> 2, votes |-> <<[voter |-> o, approved |-> TRUE],
                                                       [voter |-> h, approved |-> TRUE]>>]},
     provenance |-> {[actor |-> h, signed |-> TRUE]}]

Link(from, to, key, sig) == [grantor |-> from, grantee |-> to, key |-> key, signature |-> sig]

Others ==
    [actor |-> {o},
     actor_branches |-> {{}, {"Executive", "Judicial"}},
     bailment_state |-> {"Suspended"},
     consent_records |-> {{}, {[granted_to |-> h, active |-> FALSE], [granted_to |-> o, active |-> TRUE]}},
     authority_chain |->
        {<<>>, <<Link(o, o, k1, k1)>>, <<Link(o, h, k1, k2)>>, <<Link(o, h, NoKey, Empty)>>,
         <<Link(h, h, k2, k2), Link(o, h, k1, k1)>>, <<Link(h, o, k2, k2), Link(o, h, NoKey, k1)>>,
         <<Link(o, h, Malformed, k1)>>, <<Link(o, h, k1, Malformed)>>},
     is_self_grant |-> {TRUE}, human_override_preserved |-> {FALSE},
     kernel_modification_attempted |-> {TRUE},
     quorum_evidence |-> {{}, {[threshold |-> 2, votes |-> <<[voter |-> o, approved |-> TRUE],
                                                            [voter |-> o, approved |-> FALSE]>>]}},
     provenance |-> {{}, {[actor |-> o, signed |-> TRUE]}}]

Spoilt(ctxs) ==
    ctxs \cup UNION {UNION {{[c EXCEPT ![f] = x] : x \in Others[f]} : f \in DOMAIN c} : c \in ctxs}
MCContexts == Spoilt(Spoilt({GoodContext}))

Id == [op |-> "Identity"]
Set(inner, key, v) == [op |-> "Transform", inner |-> inner, key |-> key, value |-> v]
When(inner, key, v) ==
    [op |-> "Guard", inner |-> inner, predicate |-> [required_key |-> key, expected |-> v]]
MCPrograms ==
    {Id,
     [op |-> "Sequence", parts |-> <<>>],
     [op |-> "Sequence", parts |-> <<Set(Id, "x", "1"), When(Id, "x", {"1"})>>],
     [op |-> "Choice", parts |-> <<When(Id, "x", {"1"}), [op |-> "Retry", inner |-> Id]>>],
     [op |-> "Parallel", parts |-> <<Set(Id, "x", "1"), [op |-> "Checkpoint", inner |-> Id, id |-> "cp"]>>],
     [op |-> "Timeout", inner |-> When(Id, "x", {}), duration |-> "9"]}
MCInputs == {<<>>, [x |-> "0"], [x |-> "1"]}

(* An output no program makes. *)
MCForeign == {{[x |-> "9"]}}

(* Checks of one property: that it is set, that it is not set, and one that
   always warns. *)
MCProperties == {<<>>, set_property(<<>>, "x", 1), set_property(set_property(<<>>, "x", 1), "x", 2)}
MCChecks ==
    {[c \in MCProperties |->
        IF get_property(c, "x") = {1} THEN {} ELSE {Violation("is_one", "Error")}],
     [c \in MCProperties |->
        IF get_property(c, "x") = {} THEN {} ELSE {Violation("is_unset", "Critical")}],
     [c \in MCProperties |-> {Violation("advice", "Warning")}]}

(* What is looked at once. *)
KernelSetsExact ==
    scope = "kernel" =>
       /\ SetsChecked(MCChecks, MCProperties, 3)
       /\ DigestsBound({1, 2})
       /\ SignerTypeBound([1..2 -> {1, 2}], UNION {[1..n -> {1, 2}] : n \in 0..3})

----------------------------------------------------------------------------
MCInit ==
    /\ scope \in {"kernel", "holon", "monitor"}
    /\ HolonInit /\ MonInit
    /\ scope # "holon" => \A x \in Holons : holons[x] = spawn(Id)

MCNext ==
    /\ UNCHANGED scope
    /\ \/ scope = "holon" /\ HolonNext /\ UNCHANGED monVars
       \/ /\ scope = "monitor" /\ MonNext /\ UNCHANGED holonVars
          /\ decisions' = <<>> \/ all_found' = {}

----------------------------------------------------------------------------
(* The gatekeeper, the gateway, tenants and peers share no state: the part   *)
(* picked in the initial state says which moves, and of the database one     *)
(* table.                                                                    *)
VARIABLE part

edgeVars == <<gqlVars, dbVars, routeVars, tenantVars, peerVars>>

(* Five peers, three of them of one ASN, in two orders, and a list that names *)
(* one of them twice at the same ASN and one at two.                          *)
Peer(p, a, t) == [id |-> p, asn |-> a, last_seen |-> t]
MCCandidates ==
    LET ps == <<Peer(1, 7, 0), Peer(2, 7, 1), Peer(3, 0, 1), Peer(4, 7, 2), Peer(5, 9, 2)>>
        twice == <<Peer(3, 0, 1), Peer(1, 7, 0), Peer(3, 9, 2), Peer(1, 7, 2), Peer(5, 9, 2)>>
    IN {ps, [i \in DOMAIN ps |-> ps[Len(ps) + 1 - i]], twice}

PartInit ==
    /\ part \in {"gatekeeper", "mutations", "grants", "routes", "tenants", "tiers", "peers", "limits"}
                  \cup DbTables
    /\ part # "gatekeeper" => scope = "monitor"
    /\ MCInit
    /\ GqlInit /\ DbInit /\ RoutesInit /\ TenantsInit /\ PeersInit

GatekeeperStep == part = "gatekeeper" /\ MCNext /\ UNCHANGED edgeVars

GqlStep ==
    /\ \/ part = "mutations" /\ GqlNext /\ gql_delegations' = gql_delegations
                             /\ gql_constitution' = gql_constitution
       \/ part = "grants" /\ GqlNext /\ next_audit_seq' = next_audit_seq /\ streams' = streams
    /\ UNCHANGED <<dbVars, routeVars, tenantVars, peerVars>>

DbStep ==
    /\ part \in DbTables /\ DbNext(part)
    /\ UNCHANGED <<gqlVars, routeVars, tenantVars, peerVars>>

(* A refusal changes nothing: only a success is followed by more requests. *)
RouteStep ==
    /\ part = "routes" /\ RoutesNext
    /\ Len(answers) = Len(entries)
    /\ UNCHANGED <<gqlVars, dbVars, tenantVars, peerVars>>

TenantStep ==
    /\ \/ part = "tenants" /\ TenantsNext /\ tiers' = tiers
       \/ part = "tiers" /\ TenantsNext /\ tenants' = tenants /\ store' = store /\ handed' = handed
    /\ UNCHANGED <<gqlVars, dbVars, routeVars, peerVars>>

PeerStep ==
    /\ part \in {"peers", "limits"}
    /\ \E cand \in MCCandidates, n \in 2..4 : PeersNext(cand, n)
    /\ \/ part = "peers" /\ peers' = peers /\ counts' = counts
       \/ part = "limits" /\ current' = current /\ DOMAIN peers' \cup DOMAIN counts' \subseteq 1..3
    /\ UNCHANGED <<gqlVars, dbVars, routeVars, tenantVars>>

PartNext ==
    /\ UNCHANGED part
    /\ \/ GatekeeperStep
       \/ /\ GqlStep \/ DbStep \/ RouteStep \/ TenantStep \/ PeerStep
          /\ UNCHANGED <<holonVars, monVars, scope>>

PartSpec ==
    PartInit /\ [][PartNext]_<<holonVars, monVars, scope, edgeVars, part>>

(* Gateway, Edge, Combinators: the log is what succeeded, pages give every   *)
(* decision once, tenants do not see each other, replicas are spread, no     *)
(* peer exceeds its limit, and peers are as diverse as their candidates let  *)
(* them be, and no more often listed; programs                               *)
(* compose as they read, and sets of checks answer for all their members.    *)
EdgeSound ==
    /\ part = "routes" => RoutesTypeOK /\ LogIsSuccesses
    /\ part = "mutations" => PagesComplete
    /\ part = "tenants" => TenantsTypeOK /\ TenantsIsolated
    /\ part = "limits" => PeersTypeOK /\ RateHolds
    /\ part = "tiers" /\ tiers = <<>> => ReplicasSpread(0..12, 1..5)
    /\ part = "peers" => PeersTypeOK /\ PeersRepeatNothing(MCCandidates)
          /\ (current = <<>> => \A cand \in MCCandidates : SelectionDiverse(cand, 1..6))
    /\ part = "gatekeeper" => ProgramsCompose /\ KernelSetsExact
=============================================================================
