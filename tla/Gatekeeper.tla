----------------------------- MODULE Gatekeeper -----------------------------
(***************************************************************************)
(* The gatekeeper, crates/exo-gatekeeper.  First the constitutional kernel: *)
(* the eight invariants (invariants.rs), the verdict (kernel.rs), the MCP   *)
(* rules (mcp.rs) and the types they read (types.rs), all functions of the  *)
(* context a caller hands over; then the holons that run under it, and the  *)
(* governance monitor with the TEE attestations.                            *)
(*                                                                          *)
(* An option is a set of at most one element.                               *)
(***************************************************************************)
EXTENDS Integers, FiniteSets, Sequences, TLC, SequencesExt, FiniteSetsExt

CONSTANTS
    Actors,       \* DIDs
    SigningKeys,  \* key pairs
    NoKey,        \* grantor_public_key is None
    Malformed,    \* a key that is not 32 bytes, a signature that is not 64
    Empty         \* an empty signature

ASSUME KernelAssumption == {NoKey, Malformed, Empty} \cap SigningKeys = {}

----------------------------------------------------------------------------
(* types.rs *)
GovernmentBranch == {"Legislative", "Executive", "Judicial"}
BailmentState == {"None", "Active", "Suspended", "Terminated"}
is_active(bailment) == bailment = "Active"

ConsentRecord == [granted_to : Actors, active : BOOLEAN]

(* A signature is known by the key pair that made it over the link's payload. *)
AuthorityLink ==
    [grantor : Actors, grantee : Actors, key : SigningKeys \cup {NoKey, Malformed},
     signature : SigningKeys \cup {Malformed, Empty}]

QuorumVote == [voter : Actors, approved : BOOLEAN]
QuorumEvidence == [threshold : Nat, votes : Seq(QuorumVote)]

(* Two votes of one voter are two approvals. *)
is_met(q) == Cardinality({i \in DOMAIN q.votes : q.votes[i].approved}) >= q.threshold

Provenance == [actor : Actors, signed : BOOLEAN]

(* kernel.rs: what an ActionRequest and an AdjudicationContext say, which is
   also the InvariantContext built from them. *)
InvariantContext ==
    [actor : Actors, actor_branches : SUBSET GovernmentBranch, bailment_state : BailmentState,
     consent_records : SUBSET ConsentRecord, authority_chain : Seq(AuthorityLink),
     is_self_grant : BOOLEAN, human_override_preserved : BOOLEAN,
     kernel_modification_attempted : BOOLEAN,
     quorum_evidence : SUBSET QuorumEvidence, provenance : SUBSET Provenance]

----------------------------------------------------------------------------
(* invariants.rs *)
ConstitutionalInvariant ==
    {"SeparationOfPowers", "ConsentRequired", "NoSelfGrant", "HumanOverride",
     "KernelImmutability", "AuthorityChainValid", "QuorumLegitimate", "ProvenanceVerifiable"}

check_separation_of_powers(ctx) == Cardinality(ctx.actor_branches) <= 1

check_consent_required(ctx) ==
    /\ is_active(ctx.bailment_state)
    /\ \E c \in ctx.consent_records : c.granted_to = ctx.actor /\ c.active

check_no_self_grant(ctx) == ~ctx.is_self_grant
check_human_override(ctx) == ctx.human_override_preserved
check_kernel_immutability(ctx) == ~ctx.kernel_modification_attempted

(* A key comes with the link, and the signature must be that key's; without a
   key any signature that is not empty will do. *)
LinkSigned(link) ==
    IF link.key = NoKey THEN link.signature # Empty
    ELSE link.key \in SigningKeys /\ link.signature = link.key

check_authority_chain_valid(ctx) ==
    LET links == ctx.authority_chain
    IN  /\ links # <<>>
        /\ \A i \in 1..(Len(links) - 1) : links[i].grantee = links[i + 1].grantor
        /\ links[Len(links)].grantee = ctx.actor
        /\ \A i \in DOMAIN links : LinkSigned(links[i])

(* Without quorum evidence there is nothing to check. *)
check_quorum_legitimate(ctx) == \A q \in ctx.quorum_evidence : is_met(q)

check_provenance_verifiable(ctx) ==
    \E p \in ctx.provenance : p.signed /\ p.actor = ctx.actor

check_invariant(inv, ctx) ==
    CASE inv = "SeparationOfPowers"   -> check_separation_of_powers(ctx)
      [] inv = "ConsentRequired"      -> check_consent_required(ctx)
      [] inv = "NoSelfGrant"          -> check_no_self_grant(ctx)
      [] inv = "HumanOverride"        -> check_human_override(ctx)
      [] inv = "KernelImmutability"   -> check_kernel_immutability(ctx)
      [] inv = "AuthorityChainValid"  -> check_authority_chain_valid(ctx)
      [] inv = "QuorumLegitimate"     -> check_quorum_legitimate(ctx)
      [] inv = "ProvenanceVerifiable" -> check_provenance_verifiable(ctx)

(* The violations of the engine's set, and not only of the first. *)
enforce_all(engine, ctx) == {inv \in engine : ~check_invariant(inv, ctx)}

(* kernel.rs *)
Verdict == {"Permitted", "Denied", "Escalated"}

(* Mutant: one violation that can be escalated is enough. *)
adjudicate_AnyEscalates(engine, ctx) ==
    LET violations == enforce_all(engine, ctx)
    IN  CASE violations = {} -> "Permitted"
          [] violations \cap {"QuorumLegitimate", "AuthorityChainValid"} # {} -> "Escalated"
          [] OTHER -> "Denied"

adjudicate(engine, ctx) ==
    LET violations == enforce_all(engine, ctx)
    IN  CASE violations = {} -> "Permitted"
          [] \E v \in {"QuorumLegitimate", "AuthorityChainValid"} : violations = {v} -> "Escalated"
          [] OTHER -> "Denied"

(* Kernel::new with the constitution it is bound to; a hash stands for what was
   hashed.  Every kernel of the program has all eight invariants. *)
Kernel(constitution) ==
    [constitution_hash |-> <<"blake3", constitution>>, engine |-> ConstitutionalInvariant]
verify_kernel_integrity(kernel, constitution) ==
    kernel.constitution_hash = <<"blake3", constitution>>

verdict_of(ctx) == adjudicate(ConstitutionalInvariant, ctx)

----------------------------------------------------------------------------
(* exochain-wasm/src/gatekeeper_bindings.rs.  A request is the context as a
   record of the fields its JSON has; serde fills in the fields it may lack. *)
Optional == {"is_self_grant", "human_override_preserved", "kernel_modification_attempted",
             "quorum_evidence", "provenance"}
Defaults ==
    [is_self_grant |-> FALSE, human_override_preserved |-> TRUE,
     kernel_modification_attempted |-> FALSE, quorum_evidence |-> {}, provenance |-> {}]

WasmInvariantRequest(request) ==
    [f \in DOMAIN request \cup Optional |-> IF f \in DOMAIN request THEN request[f] ELSE Defaults[f]]

wasm_enforce_invariants(request) ==
    LET violations == enforce_all(ConstitutionalInvariant, WasmInvariantRequest(request))
    IN  [passed |-> violations = {}, violations |-> violations]

(* What the host may leave out of a request about ctx. *)
LeavingOut(ctx, F) == [f \in DOMAIN ctx \ F |-> ctx[f]]

(* gatekeeper_bindings.rs: the bindings pass what the kernel permits and nothing
   else.  Leaving a field out hides what it would have shown and adds no
   violation, except that without provenance nothing is verifiable. *)
BindingsAgree(ctxs) ==
    \A ctx \in ctxs :
       /\ wasm_enforce_invariants(ctx).passed <=> verdict_of(ctx) = "Permitted"
       /\ \A F \in SUBSET Optional :
            wasm_enforce_invariants(LeavingOut(ctx, F)).violations \subseteq
               wasm_enforce_invariants(ctx).violations \cup
                  (IF "provenance" \in F THEN {"ProvenanceVerifiable"} ELSE {})

----------------------------------------------------------------------------
(***************************************************************************)
(* The invariant sets of crates/exo-core/src/invariants.rs, for a component *)
(* to fill with checks of its own: a sequence of checks, each a function    *)
(* from the properties of a context to an option of a violation.            *)
(***************************************************************************)
ViolationSeverity == {"Warning", "Error", "Critical"}
Violation(name, severity) == [invariant_name |-> name, severity |-> severity]

(* A context's properties: DeterministicMap::insert and get. *)
set_property(properties, key, value) == (key :> value) @@ properties
get_property(properties, key) == IF key \in DOMAIN properties THEN {properties[key]} ELSE {}

add(set, inv) == Append(set, inv)

check_all_collect(set, properties) ==
    LET violations == [i \in DOMAIN set |-> set[i][properties]]
    IN  SelectSeq(violations, LAMBDA v : v # {})

(* The first violation stops the check, whatever its severity. *)
check_all(set, properties) ==
    LET failing == {i \in DOMAIN set : set[i][properties] # {}}
    IN  IF failing = {} THEN {} ELSE set[Min(failing)][properties]

(* invariants.rs: check_all refuses with the first of what check_all_collect
   reports and passes only if that reports nothing; a check added later never
   hides a violation, nor does it come before one. *)
SetsChecked(checks, contexts, n) ==
    \A set \in UNION {[1..k -> checks] : k \in 0..n}, c \in contexts :
       /\ check_all(set, c) = IF check_all_collect(set, c) = <<>> THEN {}
                              ELSE Head(check_all_collect(set, c))
       /\ \A inv \in checks : IsPrefix(check_all_collect(set, c), check_all_collect(add(set, inv), c))

----------------------------------------------------------------------------
(* mcp.rs *)
McpRule == <<"Mcp001BctsScope", "Mcp002NoSelfEscalation", "Mcp003ProvenanceRequired",
             "Mcp004NoIdentityForge", "Mcp005Distinguishable", "Mcp006ConsentBoundaries">>

McpContext ==
    [is_ai : BOOLEAN, has_scope : BOOLEAN, self_escalation : BOOLEAN, has_provenance : BOOLEAN,
     forging_identity : BOOLEAN, output_marked_ai : BOOLEAN, consent_active : BOOLEAN]

check_rule(rule, ctx) ==
    CASE rule = "Mcp001BctsScope"          -> ctx.has_scope
      [] rule = "Mcp002NoSelfEscalation"   -> ~ctx.self_escalation
      [] rule = "Mcp003ProvenanceRequired" -> ctx.has_provenance
      [] rule = "Mcp004NoIdentityForge"    -> ~ctx.forging_identity
      [] rule = "Mcp005Distinguishable"    -> ctx.output_marked_ai
      [] rule = "Mcp006ConsentBoundaries"  -> ctx.consent_active

(* The first rule an AI breaks; nothing is asked of a human. *)
enforce(rules, ctx) ==
    LET broken == {i \in DOMAIN rules : ~check_rule(rules[i], ctx)}
    IN  IF ~ctx.is_ai \/ broken = {} THEN {}
        ELSE {rules[CHOOSE i \in broken : \A j \in broken : i <= j]}

(* SignerType::to_payload_prefix of exo-core: a human is <<>> here, an AI its
   delegation id, which has a fixed length. *)
to_payload_prefix(signer_type) == IF signer_type = <<>> THEN <<1>> ELSE <<2>> \o signer_type

build_signed_payload(signer_type, message) == to_payload_prefix(signer_type) \o message

verify_typed_signature(signer_type, message, signed) ==
    signed = build_signed_payload(signer_type, message)

----------------------------------------------------------------------------
(* The context with one of its fields as in another. *)
Repair(ctx, good, f) == [ctx EXCEPT ![f] = good[f]]

Severity == [Permitted |-> 0, Escalated |-> 1, Denied |-> 2]

(* kernel.rs: putting one thing right in a context never makes the verdict on
   it worse, a kernel of fewer invariants is never stricter, and an action is
   permitted only if it would be permitted for no other actor with the same
   papers. *)
FixingHelps(ctxs, good) ==
    \A ctx \in ctxs :
       /\ \A f \in DOMAIN ctx : Severity[verdict_of(Repair(ctx, good, f))] <= Severity[verdict_of(ctx)]
       /\ \A inv \in ConstitutionalInvariant :
            Severity[adjudicate(ConstitutionalInvariant \ {inv}, ctx)] <= Severity[verdict_of(ctx)]
       /\ \A other \in Actors \ {ctx.actor} :
            verdict_of(ctx) = "Permitted" => verdict_of([ctx EXCEPT !.actor = other]) # "Permitted"

(* mcp.rs: what was signed as one signer verifies as no other signer, whatever
   the message.  Delegation ids have one length. *)
SignerTypeBound(ids, messages) ==
    \A t, u \in {<<>>} \cup ids, m, n \in messages :
       verify_typed_signature(t, m, build_signed_payload(u, n)) => t = u /\ m = n

----------------------------------------------------------------------------
(***************************************************************************)
(* Holons, crates/exo-gatekeeper/src/holon.rs: agents that run a combinator *)
(* program one step at a time under the kernel.  What the programs do       *)
(* (combinator.rs) is the module Combinators.                               *)
(***************************************************************************)
CONSTANTS
    Holons,      \* the DIDs that are holons
    Programs,    \* combinator programs
    Inputs,      \* inputs of steps: functions from keys to values
    Reduction(_, _),  \* what a program makes of an input: an option, {} for an error
    Foreign,     \* options: the outputs in checkpoints suspend did not make
    Contexts     \* the contexts an action may be adjudicated in

ASSUME HolonAssumption ==
    /\ Holons \subseteq Actors /\ Contexts \subseteq InvariantContext
    /\ \A p \in Programs, in \in Inputs : \A o \in Reduction(p, in) : Reduction(p, in) = {o}
    /\ \A f \in Foreign : \A o \in f : f = {o}

VARIABLES
    holons,      \* holon -> [state, program, last_output]
    saved,       \* the checkpoints handed out
    presented,   \* history: other checkpoints a holon was resumed with
    verdict      \* holon -> the verdict on its last step

holonVars == <<holons, saved, presented, verdict>>

----------------------------------------------------------------------------
(* holon.rs *)
HolonState == {"Idle", "Executing", "Suspended", "Terminated"}

spawn(program) == [state |-> "Idle", program |-> program, last_output |-> {}]

(* gatekeeper_bindings.rs: a host reduces and steps a program with no kernel in
   between, and is told a holon's name and state. *)
wasm_reduce_combinator(c, input) == Reduction(c, input)
wasm_step_combinator(c, input) == Reduction(c, input)
wasm_spawn_holon(did, program) == [id |-> did, state |-> spawn(program).state]

(* The context with the action of a step: no self grant, no change of the
   kernel. *)
StepContext(h, ctx) ==
    [ctx EXCEPT !.actor = h, !.is_self_grant = FALSE, !.kernel_modification_attempted = FALSE]

CanStep(h) == holons[h].state \notin {"Terminated", "Suspended"}

(* When the program fails the holon is left Executing. *)
step(h, input, ctx) ==
    LET v == verdict_of(StepContext(h, ctx))
        output == Reduction(holons[h].program, input)
    IN  /\ CanStep(h)
        /\ verdict' = [verdict EXCEPT ![h] = v]
        /\ holons' = [holons EXCEPT
              ![h].state = CASE v = "Denied" -> "Terminated"
                             [] v = "Escalated" -> "Suspended"
                             [] v = "Permitted" /\ output = {} -> "Executing"
                             [] v = "Permitted" /\ output # {} -> "Idle",
              ![h].last_output = IF v = "Permitted" /\ output # {} THEN output ELSE @]
        /\ UNCHANGED <<saved, presented>>

CheckpointOf(h, output) == [holon_id |-> h, last_output |-> output]

suspend(h) ==
    /\ holons[h].state # "Terminated"
    /\ holons' = [holons EXCEPT ![h].state = "Suspended"]
    /\ saved' = saved \cup {CheckpointOf(h, holons[h].last_output)}
    /\ UNCHANGED <<presented, verdict>>

(* Any checkpoint with the holon's id will do, also after a suspension by the
   kernel, however old and whoever made it; its output comes with it. *)
resume(h, checkpoint) ==
    /\ holons[h].state = "Suspended"
    /\ checkpoint.holon_id = h
    /\ holons' = [holons EXCEPT ![h].state = "Idle", ![h].last_output = checkpoint.last_output]
    /\ presented' = presented \cup ({checkpoint} \ saved)
    /\ UNCHANGED <<saved, verdict>>

----------------------------------------------------------------------------
HolonInit ==
    /\ holons \in [Holons -> {spawn(p) : p \in Programs}]
    /\ saved = {} /\ presented = {}
    /\ verdict = [h \in Holons |-> "None"]

HolonNext ==
    \E h \in Holons :
       \/ \E input \in Inputs, ctx \in Contexts : step(h, input, ctx)
       \/ suspend(h)
       \/ \E c \in saved \cup [holon_id : Actors, last_output : Foreign] : resume(h, c)

HolonSpec == HolonInit /\ [][HolonNext]_holonVars

----------------------------------------------------------------------------
(* holon.rs: a holon the kernel denied does nothing ever again; a suspended one
   leaves its suspension only with a checkpoint of its own; otherwise its output
   changes only in a step the kernel permitted. *)
HolonsGoverned ==
    \A h \in Holons :
       /\ holons[h].state = "Terminated" => holons'[h] = holons[h]
       /\ holons[h].state = "Suspended" /\ holons'[h] # holons[h] =>
             CheckpointOf(h, holons'[h].last_output) \in saved \cup presented'
       /\ holons[h].state \notin {"Suspended", "Terminated"}
            /\ holons'[h].last_output # holons[h].last_output =>
                 verdict'[h] = "Permitted"

(* holon.rs, gatekeeper_bindings.rs: whatever a holon went through, denials,
   suspensions and old checkpoints, the output it holds is one that its program
   makes of an input, so a host can make it again, or came in with a checkpoint
   from elsewhere that names this holon; a holon is spawned idle. *)
OutputsReproducible ==
    \A h \in Holons :
       /\ \A o \in holons[h].last_output :
             \/ \E in \in Inputs :
                   /\ wasm_step_combinator(holons[h].program, in) = {o}
                   /\ wasm_reduce_combinator(holons[h].program, in) = {o}
             \/ CheckpointOf(h, {o}) \in presented
       /\ verdict[h] = "None" /\ saved = {} =>
             wasm_spawn_holon(h, holons[h].program) = [id |-> h, state |-> holons[h].state]

----------------------------------------------------------------------------
(***************************************************************************)
(* The governance monitor and the TEE attestations of crates/exo-gatekeeper *)
(* (governance_monitor.rs, tee.rs).                                         *)
(***************************************************************************)
CONSTANTS
    Threshold, Window,      \* of the circuit breaker
    MaxTime, MaxFindings,   \* bounds on the clock and the findings recorded
    Measurements,           \* hashes of enclave code
    SimulatedAllowed        \* built with allow-simulated-tee

ASSUME MonitorAssumption ==
    /\ Threshold \in Nat /\ Window \in Nat /\ MaxTime \in Nat /\ MaxFindings \in Nat
    /\ SimulatedAllowed \in BOOLEAN

VARIABLES
    clock,      \* the time, in steps of the window
    critical,   \* critical_timestamps, each with a number that tells equal ones apart
    all_found,  \* every critical finding recorded
    gate,       \* the approval gate of a run
    decisions   \* what its approvers were told, latest last

monVars == <<clock, critical, all_found, gate, decisions>>

----------------------------------------------------------------------------
(* The attestation of a scan's findings: a signature over their digest.  Its
   caller checks it before the findings are recorded. *)
GovernanceAttestation(key, digest) ==
    [findings_digest |-> digest, signature |-> <<key, digest>>]
verify_findings(att, public_key) == att.signature = <<public_key, att.findings_digest>>

Recent(found, now) == {f \in found : f[1] >= now - Window}

Kept(found, now) == {f \in found : f[1] >= now - Window}

(* The breaker trips above the threshold, not at it. *)
check(found, now) == Cardinality(Recent(found, now)) <= Threshold

record_critical_findings(n) ==
    LET before == Cardinality(all_found)
        new == {clock} \X ((before + 1)..(before + n))
    IN  /\ before + n <= MaxFindings
        /\ critical' = critical \cup new
        /\ all_found' = all_found \cup new
        /\ UNCHANGED <<clock, gate, decisions>>

evict_expired ==
    /\ critical' = Kept(critical, clock)
    /\ UNCHANGED <<clock, all_found, gate, decisions>>

Tick == clock < MaxTime /\ clock' = clock + 1 /\ UNCHANGED <<critical, all_found, gate, decisions>>

ApprovalStatus == {"Pending", "Approved", "Rejected"}

(* approve and reject: humans only; a later decision replaces an earlier one. *)
Decide(status, signer_type) ==
    /\ Len(decisions) < 3
    /\ gate' = IF signer_type = "Human" THEN status ELSE gate
    /\ decisions' = Append(decisions, <<status, signer_type>>)
    /\ UNCHANGED <<clock, critical, all_found>>

approve(signer_type) == Decide("Approved", signer_type)
reject(signer_type) == Decide("Rejected", signer_type)

requires_approval_gate(critical_count, high_count) == critical_count > 0 \/ high_count > 0

MonInit ==
    /\ clock = 0
    /\ critical = {} /\ all_found = {}
    /\ gate = "Pending" /\ decisions = <<>>

MonNext ==
    \/ \E n \in 1..(Threshold + 1) : record_critical_findings(n)
    \/ evict_expired
    \/ Tick
    \/ \E signer_type \in {"Human", "Ai"} : approve(signer_type) \/ reject(signer_type)

MonSpec == MonInit /\ [][MonNext]_monVars

----------------------------------------------------------------------------
(* tee.rs *)
TeePlatform == {"Sgx", "TrustZone", "Sev", "Simulated"}
TeeEnvironment == {"Production", "Testing"}
TeePolicy ==
    [accepted_platforms : SUBSET TeePlatform, required_measurements : SUBSET Measurements,
     max_age_ms : 0..MaxTime, environment : TeeEnvironment]

production == [accepted_platforms |-> TeePlatform \ {"Simulated"}, required_measurements |-> {},
               max_age_ms |-> 0, environment |-> "Production"]
testing == [accepted_platforms |-> TeePlatform, required_measurements |-> {},
            max_age_ms |-> 0, environment |-> "Testing"]

is_platform_allowed(platform, policy) ==
    /\ platform \in policy.accepted_platforms
    /\ platform = "Simulated" /\ ~SimulatedAllowed => policy.environment # "Production"

Quote(measurement, timestamp, platform) == <<measurement, timestamp, platform>>

generate_attestation(platform, measurement, timestamp) ==
    [platform |-> platform, measurement_hash |-> measurement, timestamp |-> timestamp,
     signature |-> Quote(measurement, timestamp, platform)]

(* A policy without measurements or maximal age does not ask for them; a quote
   from the future is not too old. *)
verify_attestation(att, policy, now) ==
    /\ is_platform_allowed(att.platform, policy)
    /\ policy.required_measurements # {} => att.measurement_hash \in policy.required_measurements
    /\ policy.max_age_ms > 0 => now - att.timestamp <= policy.max_age_ms
    /\ att.signature = Quote(att.measurement_hash, att.timestamp, att.platform)

----------------------------------------------------------------------------
(* governance_monitor.rs: evicting what has expired never changes what the
   breaker says, now or later: it is tripped iff more findings than the
   threshold were recorded within the window; and an agent's decision never
   moves the gate, which stands where the last human put it. *)
ByHuman(i) == decisions[i][2] = "Human"
BreakerExact ==
    /\ \A now \in clock..MaxTime :
          check(critical, now) <=> Cardinality(Recent(all_found, now)) <= Threshold
    /\ (\A i \in DOMAIN decisions : ~ByHuman(i)) => gate = "Pending"
    /\ \A i \in DOMAIN decisions :
          ByHuman(i) /\ (\A j \in DOMAIN decisions : j > i => ~ByHuman(j)) => gate = decisions[i][1]

(* governance_monitor.rs, kernel.rs: findings attested by one signer are good
   under no other key and with no other digest; a kernel answers for its own
   constitution only. *)
DigestsBound(constitutions) ==
    /\ \A key, other \in SigningKeys, d, e \in constitutions :
          verify_findings([GovernanceAttestation(key, d) EXCEPT !.findings_digest = e], other)
             <=> key = other /\ d = e
    /\ \A c, d \in constitutions : verify_kernel_integrity(Kernel(c), d) <=> c = d

(* tee.rs: an attestation loses its validity once and for all as time passes, a
   genuine one is never good for another platform, measurement or time, and a
   simulated one is never good in production. *)
AttestationsAge ==
    \A platform \in TeePlatform, m \in Measurements, policy \in {production, testing} :
    \A made, max_age \in 0..MaxTime, required \in SUBSET Measurements :
       LET p == [policy EXCEPT !.max_age_ms = max_age, !.required_measurements = required]
           att == generate_attestation(platform, m, made)
       IN  /\ \A now \in made..MaxTime :
                /\ platform = "Simulated" /\ policy = production => ~verify_attestation(att, p, now)
                /\ verify_attestation(att, p, now + 1) => verify_attestation(att, p, now)
                /\ max_age > 0 /\ now - made > max_age => ~verify_attestation(att, p, now)
           /\ \A other \in TeePlatform, n \in Measurements, at, now \in 0..MaxTime :
                verify_attestation([att EXCEPT !.platform = other, !.measurement_hash = n,
                                               !.timestamp = at], p, now)
                => other = platform /\ n = m /\ at = made

(* Of contexts with the same actor, one that is in order helps to put another
   right, field by field, and the bindings judge each as the kernel does. *)
KernelSound ==
    /\ \A good \in Contexts :
          verdict_of(good) = "Permitted" =>
             FixingHelps({ctx \in Contexts : ctx.actor = good.actor}, good)
    /\ BindingsAgree(Contexts)

(* Gatekeeper: putting one thing right never makes a verdict worse, the
   bindings answer as the kernel does, a holon's program makes every output the
   holon holds, the breaker is open exactly when the recent findings say so, and
   attestations age (kernel.rs, holon.rs, governance_monitor.rs, tee.rs). *)
GatekeeperSound == KernelSound /\ OutputsReproducible /\ BreakerExact /\ AttestationsAge
=============================================================================
