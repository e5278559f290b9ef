-------------------------- MODULE IdentityBindings --------------------------
(***************************************************************************)
(* Signatures, events, authority chains and identities as a JavaScript host *)
(* sees them: crates/exochain-wasm/src/core_bindings.rs (but for the Merkle *)
(* trees, see Merkle), authority_bindings.rs and identity_bindings.rs.      *)
(*                                                                         *)
(* A binding that returns Err gives {}, one that returns Ok a singleton.    *)
(* Signatures cross the boundary in their serialized form.                  *)
(***************************************************************************)
EXTENDS ChainVerify, Identity

----------------------------------------------------------------------------
(* core_bindings.rs *)
wasm_sign(message, secret_key) == serialize(sign(message, secret_key))

(* The secret half stays behind; a public key goes by the pair's name. *)
wasm_sign_with_ephemeral_key(message, pair) ==
    [signature |-> wasm_sign(message, pair), public_key |-> pair]

wasm_verify(message, proxy, public) ==
    {verify(message, s, public) : s \in deserialize(proxy)}

wasm_create_signed_event(fields, secret_key) ==
    LET event == create_signed_event(fields, secret_key)
    IN  [event EXCEPT !.signature = serialize(@)]

wasm_verify_event(event, public) ==
    {verify_event([event EXCEPT !.signature = s], public) : s \in deserialize(event.signature)}

----------------------------------------------------------------------------
(* authority_bindings.rs *)
wasm_build_authority_chain_with_depth(links, max_depth) ==
    IF build_chain_with_depth(links, max_depth) THEN {links} ELSE {}

wasm_build_authority_chain(links) == wasm_build_authority_chain_with_depth(links, MaxLinks)

wasm_has_permission(links, p) == has_permission(links, p)

(* The host's list of keys; the last pair of a DID counts. *)
Lookup(keys) ==
    [did \in {keys[i][1] : i \in DOMAIN keys} |->
        keys[CHOOSE i \in DOMAIN keys :
                keys[i][1] = did /\ \A j \in DOMAIN keys : keys[j][1] = did => j <= i][2]]

wasm_verify_authority_chain(links, now, keys) ==
    verify_chain_with(links, MaxLinks, now, Lookup(keys))

----------------------------------------------------------------------------
(* identity_bindings.rs *)
wasm_shamir_split(poly, threshold, shares) ==
    LET c == [threshold |-> threshold, shares |-> shares]
    IN  IF Valid(c) THEN {split(poly, c)} ELSE {}

wasm_shamir_reconstruct(shares, threshold, total) ==
    reconstruct(shares, [threshold |-> threshold, shares |-> total])

wasm_pace_resolve(c, l) == [operator |-> resolve_operator(c, l), state |-> l]
wasm_pace_escalate(l) == IF l < 4 THEN {l + 1} ELSE {}
wasm_pace_deescalate(l) == IF l > 1 THEN {l - 1} ELSE {}

wasm_is_expired(att, now) == risk_expired(att, now)

(* The key is generated for this one signature, and neither half of it is
   returned. *)
wasm_assess_risk(subject, attester, evidence, risk, validity, now, throwaway) ==
    assess_risk(subject, attester, risk, evidence, now, validity, throwaway)

----------------------------------------------------------------------------
(* core_bindings.rs: what a host had signed verifies for that message and that
   key after the trip through JSON, and for no other; a signature whose
   classical half lost bytes on the way is refused, not judged. *)
HostSignaturesBind ==
    \A m, n \in Messages, p, q \in Pairs :
       LET given == wasm_sign_with_ephemeral_key(m, p)
           event == wasm_create_signed_event([f \in EventFields |-> m], p)
       IN  /\ wasm_verify(n, given.signature, q) = {n = m /\ q = given.public_key}
           /\ wasm_verify(m, [given.signature EXCEPT !.classical = <<>>], p) = {}
           /\ \A f \in EventFields :
                 wasm_verify_event([event EXCEPT ![f] = n], q) = {n = m /\ q = p}

(* authority_bindings.rs: with everyone's key, listed in any order, a host's
   verdict is the library's; a key that is missing, or replaced by another
   one further down the list, is never a reason to accept more. *)
HostChainsAgree ==
    LET all == SetToSeq({<<h, h>> : h \in Holders})
        good == verify_chain(chain, MaxLinks, instant)
    IN  /\ wasm_verify_authority_chain(chain, instant, all) = good
        /\ wasm_verify_authority_chain(chain, instant, Reverse(all)) = good
        /\ \A h, other \in Holders :
              LET without == SelectSeq(all, LAMBDA pair : pair[1] # h)
                  delegates == \E i \in DOMAIN chain : chain[i].delegator = h
              IN  /\ delegates => ~wasm_verify_authority_chain(chain, instant, without)
                  /\ wasm_verify_authority_chain(chain, instant, Append(all, <<h, h>>)) = good
                  /\ delegates /\ other # h /\ good =>
                        ~wasm_verify_authority_chain(chain, instant, Append(all, <<h, other>>))
        /\ wasm_build_authority_chain(chain) # {} /\ good =>
              \A p \in Granted : wasm_has_permission(chain, p) <=> p \in chain[Len(chain)].scope

(* pace.rs: a host that keeps the level goes up and down as the library does,
   and an escalation is undone by a de-escalation. *)
HostPaceAgrees ==
    validate(config) =>
       /\ \A up \in wasm_pace_escalate(level) : wasm_pace_deescalate(up) = {level}
       /\ (wasm_pace_escalate(level) = {}) <=> level = 4
       /\ \A other \in wasm_pace_escalate(level) \cup wasm_pace_deescalate(level) :
             wasm_pace_resolve(config, other).operator # wasm_pace_resolve(config, level).operator

(* shamir.rs: shares handed to the host come back together as the secret, unless
   the thresholds it names differ and are not met. *)
HostSharesSound ==
    \A shares \in wasm_shamir_split(coeffs, sharing.threshold, sharing.shares) :
       /\ wasm_shamir_reconstruct(shares, sharing.threshold, sharing.shares) = {secret}
       /\ wasm_shamir_reconstruct(shares, Len(shares) + 1, Len(shares) + 1) = {}

(* risk.rs: an attestation made by the binding is good for no key that anyone
   else holds. *)
HostAttestationsUnverifiable ==
    \A a, b \in Subjects, n \in 0..MaxValid, v \in 1..MaxValid, known \in 1..2 :
       LET att == wasm_assess_risk(a, b, "e", "Low", v, n, 3)
       IN  ~verify_risk(att, known) /\ (wasm_is_expired(att, n + v) /\ ~wasm_is_expired(att, n))
=============================================================================
