------------------------------ MODULE Proofs ------------------------------
(* The proof systems of crates/exo-proofs: the rank-1 constraint system      *)
(* (circuit.rs), the hash-based SNARK and STARK skeletons (snark.rs,         *)
(* stark.rs), inference proofs (zkml.rs) and the unified verifier            *)
(* (verifier.rs), as operators.                                              *)
(*                                                                           *)
(* Machine words are numbers below Word.  A digest is the tuple of its       *)
(* domain tag and of what is hashed.  The query positions of a STARK are the *)
(* digest they are read from, with their number and the length they are      *)
(* taken modulo; the values opened at them are looked at by nobody.          *)
EXTENDS Integers, Sequences, FiniteSets, SequencesExt, Functions

CONSTANTS
    Word,        \* 2^64 in the code
    FieldSize    \* StarkConfig.field_size

(* Wrapping arithmetic on words. *)
WAdd(x, y) == (x + y) % Word
WMul(x, y) == (x * y) % Word

----------------------------------------------------------------------------
(* circuit.rs.  A linear combination is a sequence of <<coefficient, index>>;*)
(* index 0 is the constant one (usize::MAX in the code), and an index beyond *)
(* the variables counts as zero.  A system is [vars, public, constraints]:   *)
(* the number of variables, the indices of the public ones in order, and the *)
(* constraints [a, b, c].                                                    *)
EmptySystem == [vars |-> 0, public |-> <<>>, constraints |-> <<>>]

ConstantOne == 0
from_variable(v) == <<<<1, v>>>>
constant(value) == <<<<value, ConstantOne>>>>

evaluate(lc, vals) ==
    LET val(i) == IF i = ConstantOne THEN 1 ELSE IF i \in DOMAIN vals THEN vals[i] ELSE 0
    IN FoldLeft(LAMBDA sum, t : WAdd(sum, WMul(t[1], val(t[2]))), 0, lc)

allocate(cs) == [cs EXCEPT !.vars = @ + 1]
allocate_public(cs) == [cs EXCEPT !.vars = @ + 1, !.public = Append(@, cs.vars + 1)]
enforce_constraint(cs, a, b, c) ==
    [cs EXCEPT !.constraints = Append(@, [a |-> a, b |-> b, c |-> c])]

is_satisfied(cs, vals) ==
    \A i \in DOMAIN cs.constraints :
       LET k == cs.constraints[i]
       IN WMul(evaluate(k.a, vals), evaluate(k.b, vals)) = evaluate(k.c, vals)

----------------------------------------------------------------------------
(* snark.rs.  The circuit's digest covers the number of public inputs, not   *)
(* which variables they are.                                                 *)
compute_circuit_hash(cs) == <<"circuit", cs.vars, Len(cs.public), cs.constraints>>

CanSetup(cs) == cs.constraints # <<>>
setup(cs) ==
    [pk |-> [num_variables |-> cs.vars, circuit_hash |-> compute_circuit_hash(cs)],
     vk |-> [num_public_inputs |-> Len(cs.public), circuit_hash |-> compute_circuit_hash(cs)]]

compute_proof_component(tag, hash, witness) == <<tag, hash, witness>>
compute_c_component(hash, inputs, a, b) == <<"snark:c", hash, inputs, a, b>>

PublicInputs(cs, witness) == [i \in DOMAIN cs.public |-> witness[cs.public[i]]]

CanProve(pk, cs, witness) ==
    /\ Len(witness) = cs.vars
    /\ compute_circuit_hash(cs) = pk.circuit_hash
    /\ is_satisfied(cs, witness)

prove(cs, witness) ==
    LET h == compute_circuit_hash(cs)
        a == compute_proof_component("snark:a", h, witness)
        b == compute_proof_component("snark:b", h, witness)
    IN [a |-> a, b |-> b, c |-> compute_c_component(h, PublicInputs(cs, witness), a, b)]

verify_snark(vk, proof, inputs) ==
    /\ Len(inputs) = vk.num_public_inputs
    /\ proof.c = compute_c_component(vk.circuit_hash, inputs, proof.a, proof.b)

----------------------------------------------------------------------------
(* stark.rs.  A constraint is a sequence of terms [col, curr, next].  The    *)
(* additions are not reduced between the two products: they wrap in a        *)
(* release build before the field's modulus is applied.                      *)
Column(row, i) == IF i \in DOMAIN row THEN row[i] ELSE 0

evaluate_constraint(terms, curr, next) ==
    FoldLeft(LAMBDA sum, t :
                WAdd(WAdd(sum, WMul(t.curr, Column(curr, t.col))), WMul(t.next, Column(next, t.col))) % FieldSize,
             0, terms)

(* One value for each adjacent pair of rows and each constraint. *)
Evaluations(trace, constraints) ==
    [i \in 1..(Len(trace) - 1) |->
        [k \in DOMAIN constraints |-> evaluate_constraint(constraints[k], trace[i], trace[i + 1])]]

CanProveStark(trace, constraints) ==
    /\ Len(trace) >= 2
    /\ \A i \in DOMAIN trace : Len(trace[i]) = Len(trace[1])
    /\ \A i \in 1..(Len(trace) - 1), k \in DOMAIN constraints : Evaluations(trace, constraints)[i][k] = 0

hash_row(row) == <<"row", row>>
commit_trace(trace) == <<"trace", [i \in DOMAIN trace |-> hash_row(trace[i])]>>
commit_constraints(trace, constraints) == <<"constraints", Evaluations(trace, constraints)>>

derive_queries(tc, cc, num_queries, trace_length) ==
    IF trace_length = 0 THEN <<>> ELSE <<<<"queries", tc, cc>>, num_queries, trace_length>>

compute_fri_base_commitment(tc, cc) == <<"base", tc, cc>>
FoldLayer(layer) == <<"fold", layer>>

(* expansion_factor layers, and the base when that is zero. *)
build_fri_proof(tc, cc, config) ==
    LET layer[i \in 1..(config.expansion_factor + 1)] ==
          IF i = 1 THEN compute_fri_base_commitment(tc, cc) ELSE FoldLayer(layer[i - 1])
    IN [i \in 1..(IF config.expansion_factor > 1 THEN config.expansion_factor ELSE 1) |-> layer[i]]

prove_stark(trace, constraints, config) ==
    LET tc == commit_trace(trace)
        cc == commit_constraints(trace, constraints)
    IN [trace_commitment |-> tc, constraint_commitment |-> cc,
        query_indices |-> derive_queries(tc, cc, config.num_queries, Len(trace)),
        layer_commitments |-> build_fri_proof(tc, cc, config),
        config |-> config, trace_length |-> Len(trace), public_input_hash |-> hash_row(trace[1])]

verify_stark(p, inputs) ==
    /\ p.query_indices = derive_queries(p.trace_commitment, p.constraint_commitment,
                                        p.config.num_queries, p.trace_length)
    /\ p.layer_commitments # <<>>
    /\ hash_row(inputs) = p.public_input_hash
    /\ p.layer_commitments[1] = compute_fri_base_commitment(p.trace_commitment, p.constraint_commitment)
    /\ \A i \in 1..(Len(p.layer_commitments) - 1) :
          p.layer_commitments[i + 1] = FoldLayer(p.layer_commitments[i])

----------------------------------------------------------------------------
(* zkml.rs. *)
ModelCommitment(architecture, weights, version) ==
    [architecture_hash |-> <<architecture>>, weights_hash |-> <<weights>>, version |-> version]
commitment_hash(m) == <<"model", m.architecture_hash, m.weights_hash, m.version>>

compute_inference_proof(mh, ih, oh) == <<"zkml:proof", mh, ih, oh>>
compute_verification_tag(mh, ih, oh, proof) == <<"zkml:verify", mh, ih, oh, proof>>

prove_inference(model, input, output) ==
    LET mh == commitment_hash(model)
        proof == compute_inference_proof(mh, <<input>>, <<output>>)
    IN [model_commitment |-> model, input_hash |-> <<input>>, output_hash |-> <<output>>,
        proof |-> proof, verification_tag |-> compute_verification_tag(mh, <<input>>, <<output>>, proof),
        prompt_hash |-> <<>>]

prove_inference_with_provenance(model, prompt, input, output) ==
    [prove_inference(model, input, output) EXCEPT !.prompt_hash = <<prompt>>]

verify_inference(p) ==
    LET mh == commitment_hash(p.model_commitment)
    IN /\ p.proof = compute_inference_proof(mh, p.input_hash, p.output_hash)
       /\ p.verification_tag = compute_verification_tag(mh, p.input_hash, p.output_hash, p.proof)

(* What a human reviewer signs, and the comparison with the machine's word.  *)
AttestationDecision == {"Adopted", "Modified", "Rejected"}
signing_message(reviewer, ai, final, verdict) == <<"zkml:attestation", reviewer, ai, final, verdict>>
AiDelta(ai, human) == [ai_output_hash |-> <<ai>>, human_output_hash |-> <<human>>,
                       divergence_detected |-> <<ai>> # <<human>>]
DaubertComplete(list) ==
    list.methodology_documented /\ list.peer_reviewable /\ list.generally_accepted

----------------------------------------------------------------------------
(* verifier.rs: a bundle of the named type, or an error ({}). *)
verify_any(type, bundle, inputs) ==
    IF bundle.type # type THEN {}
    ELSE CASE type = "Snark" -> {verify_snark(bundle.vk, bundle.proof, inputs)}
           [] type = "Stark" -> {verify_stark(bundle.proof, inputs)}
           [] type = "Zkml" -> {verify_inference(bundle.proof)}

----------------------------------------------------------------------------
(* A witness that satisfies a circuit gives a proof that its verifying key   *)
(* accepts with the witness's own public inputs and with no others, and that *)
(* the key of a circuit with other constraints refuses (snark.rs:101-172).   *)
SnarkBinds(circuits, witnesses) ==
    \A cs \in circuits, w \in witnesses :
       CanSetup(cs) /\ CanProve(setup(cs).pk, cs, w) =>
          LET bundle(of) == [type |-> "Snark", vk |-> setup(of).vk, proof |-> prove(cs, w)]
          IN /\ verify_any("Snark", bundle(cs), PublicInputs(cs, w)) = {TRUE}
             /\ \A v \in {x \in witnesses : Len(x) = cs.vars} :
                   TRUE \in verify_any("Snark", bundle(cs), PublicInputs(cs, v)) =>
                      PublicInputs(cs, v) = PublicInputs(cs, w)
             /\ \A other \in circuits :
                   other.constraints # cs.constraints =>
                      TRUE \notin verify_any("Snark", bundle(other), PublicInputs(other, w))

(* A trace is accepted by prove_stark exactly when every transition keeps    *)
(* every constraint in the field, given that no sum leaves the word; its     *)
(* proof verifies with the trace's first row and no other, and not with any  *)
(* of its committed parts taken from the proof of another trace              *)
(* (stark.rs:112-240).                                                       *)
StarkBinds(traces, constraints, config) ==
    \A t \in {x \in traces : CanProveStark(x, constraints)} :
       LET p == prove_stark(t, constraints, config)
       IN /\ verify_stark(p, t[1])
          /\ \A i \in 1..(Len(t) - 1), k \in DOMAIN constraints :
                FoldLeft(LAMBDA sum, m : sum + m.curr * Column(t[i], m.col) + m.next * Column(t[i + 1], m.col),
                         0, constraints[k]) % FieldSize = 0
          /\ \A u \in {x \in traces : CanProveStark(x, constraints)} :
                LET q == prove_stark(u, constraints, config)
                IN /\ verify_stark(p, u[1]) => u[1] = t[1]
                   /\ \A f \in {"trace_commitment", "query_indices", "layer_commitments", "public_input_hash"} :
                         p[f] # q[f] => ~verify_stark([p EXCEPT ![f] = q[f]], t[1])

(* An inference proof verifies, and not after any of its parts but the       *)
(* prompt's digest is replaced by that of another inference                  *)
(* (zkml.rs:245-310).                                                        *)
InferenceBinds(models, data) ==
    \A m, n \in models, i, j, o, r \in data :
       LET p == prove_inference_with_provenance(m, "prompt", i, o)
           q == prove_inference(n, j, r)
       IN /\ verify_inference(p) /\ verify_inference(q)
          /\ \A f \in DOMAIN p \ {"prompt_hash"} :
                p[f] # q[f] => ~verify_inference([p EXCEPT ![f] = q[f]])
============================================================================
