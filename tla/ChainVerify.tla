----------------------------- MODULE ChainVerify ----------------------------
(***************************************************************************)
(* Signatures and signed events of crates/exo-core (crypto.rs, the          *)
(* Signature of types.rs, events.rs), and the building and verifying of     *)
(* authority chains, crates/exo-authority/src/chain.rs, with the permission *)
(* sets of permission.rs.                                                   *)
(*                                                                         *)
(* The primitives are perfect: a block of signature bytes is known by the   *)
(* algorithm, key pair and message that made it.  Sixty-four Ed25519 bytes  *)
(* are one block; post-quantum bytes are any number of blocks.              *)
(***************************************************************************)
EXTENDS Integers, Sequences, FiniteSets

CONSTANTS
    Pairs,     \* key pairs
    Messages   \* byte strings that get signed

VARIABLE
    signature  \* a signature somebody holds

sigVars == <<signature>>

Block(alg, pair, message) == <<alg, pair, message>>
Zeros == <<>>
Blocks == {Block(alg, p, m) : alg \in {"ed", "pq"}, p \in Pairs, m \in Messages} \cup {Zeros}

(* The variants of Signature; what a variant lacks is empty. *)
Ed25519(classical) == [kind |-> "Ed25519", classical |-> classical, pq |-> <<>>]
PostQuantum(pq) == [kind |-> "PostQuantum", classical |-> <<>>, pq |-> pq]
Hybrid(classical, pq) == [kind |-> "Hybrid", classical |-> classical, pq |-> pq]
EmptySignature == [kind |-> "Empty", classical |-> <<>>, pq |-> <<>>]

Bytes == {<<b>> : b \in Blocks}
Ed25519s == [kind : {"Ed25519"}, classical : Bytes, pq : {<<>>}]
PostQuantums == [kind : {"PostQuantum"}, classical : {<<>>}, pq : {<<>>} \cup Bytes]
Hybrids == [kind : {"Hybrid"}, classical : Bytes, pq : {<<>>} \cup Bytes]
Signatures == Ed25519s \cup PostQuantums \cup Hybrids \cup {EmptySignature}

is_empty(s) ==
    \/ s.kind = "Empty"
    \/ s.kind = "Ed25519" /\ s.classical = <<Zeros>>
    \/ s.kind = "PostQuantum" /\ s.pq = <<>>
    \/ s.kind = "Hybrid" /\ s.classical = <<Zeros>> /\ s.pq = <<>>

(* Zeros where there is no Ed25519 part. *)
as_bytes(s) == IF s.kind \in {"Ed25519", "Hybrid"} THEN s.classical[1] ELSE Zeros

to_bytes(s) == s.classical \o s.pq

(* SignatureProxy: any bytes may arrive where the classical part should be. *)
serialize(s) == [kind |-> s.kind, classical |-> s.classical, pq |-> s.pq]
deserialize(p) ==
    IF p.kind \in {"Ed25519", "Hybrid"} /\ Len(p.classical) # 1 THEN {} ELSE {p}

----------------------------------------------------------------------------
sign(message, secret) == Ed25519(<<Block("ed", secret, message)>>)
verify_ed25519_bytes(message, bytes, public) == bytes = <<Block("ed", public, message)>>
verify(message, s, public) ==
    s.kind = "Ed25519" /\ verify_ed25519_bytes(message, s.classical, public)

sign_pq(message, secret) == PostQuantum(<<Block("pq", secret, message)>>)
verify_pq(message, s, public) ==
    s.kind = "PostQuantum" /\ s.pq = <<Block("pq", public, message)>>

sign_hybrid(message, secret, pq_secret) ==
    Hybrid(sign(message, secret).classical, sign_pq(message, pq_secret).pq)

verify_hybrid(message, s, public, pq_public) ==
    /\ s.kind = "Hybrid"
    /\ verify_ed25519_bytes(message, s.classical, public)
    /\ verify_pq(message, PostQuantum(s.pq), pq_public)

(* events.rs: everything but the signature is signed. *)
EventFields == {"id", "timestamp", "event_type", "payload", "source_did"}
signable_bytes(event) == [f \in EventFields |-> event[f]]
create_signed_event(fields, secret) ==
    [f \in EventFields \cup {"signature"} |->
        IF f = "signature" THEN sign(signable_bytes(fields), secret) ELSE fields[f]]
verify_event(event, public) == verify(signable_bytes(event), event.signature, public)

----------------------------------------------------------------------------
SigInit == signature \in Signatures

(* Signed anew, or stored and read back. *)
SigNext ==
    \/ \E m \in Messages, p \in Pairs : signature' = sign(m, p)
    \/ \E m \in Messages, p \in Pairs : signature' = sign_pq(m, p)
    \/ \E m \in Messages, p, q \in Pairs : signature' = sign_hybrid(m, p, q)
    \/ signature' \in deserialize(serialize(signature))

SigSpec == SigInit /\ [][SigNext]_sigVars

(* crypto.rs "Both the Ed25519 and ML-DSA-65 components must pass": none is good
   under two algorithms, for two messages or for two keys, a hybrid of halves
   that sign different things is good for nothing, nothing verifies as empty,
   and storing a signature does not change what it is good for; of a signed
   event no field can change. *)
SignaturesBind ==
    /\ \A m \in Messages, p, q \in Pairs :
          /\ verify(m, signature, p) => signature = sign(m, p)
          /\ verify_pq(m, signature, p) => signature = sign_pq(m, p)
          /\ verify_hybrid(m, signature, p, q) => signature = sign_hybrid(m, p, q)
          /\ is_empty(signature) =>
                ~verify(m, signature, p) /\ ~verify_pq(m, signature, p) /\ ~verify_hybrid(m, signature, p, q)
    /\ deserialize(serialize(signature)) = {signature}
    /\ \A f \in EventFields, x, y \in Messages, p, q \in Pairs :
          LET event == create_signed_event([g \in EventFields |-> x], p)
          IN  verify_event([event EXCEPT ![f] = y], q) <=> x = y /\ p = q

----------------------------------------------------------------------------
(* Authority chains: chain.rs and permission.rs. *)
CONSTANTS
    Holders,     \* DIDs
    MaxLinks,    \* max_depth
    MaxInstant,  \* bound on time
    Forever      \* expires is None

Permission == {"Read", "Write", "Execute", "Delegate", "Govern", "Escalate", "Challenge"}

(* The permissions the instance hands out. *)
CONSTANT Granted
ASSUME ChainAssumption == Granted \subseteq Permission /\ MaxLinks \in Nat /\ MaxInstant \in Nat

VARIABLES
    chain,   \* the links of the chain being put together
    instant  \* now

chainVars == <<chain, instant>>

DelegateeKind == {"Human", "AiAgent", "Unknown"}

(* The signature covers every other field. *)
signable_payload(l) == <<l.delegator, l.delegate, l.scope, l.expires, l.depth, l.kind>>

Sign(l, signer) == [key |-> signer, over |-> signable_payload(l)]

(* is_subset of permission.rs. *)
is_subset(a, b) == a \subseteq b
intersect(a, b) == a \cap b

build_chain_with_depth(links, max_depth) ==
    /\ links # <<>>
    /\ Len(links) <= max_depth
    /\ \A i \in DOMAIN links : links[i].depth = i - 1
    /\ \A i \in 2..Len(links) : links[i - 1].delegate = links[i].delegator

LinkExpired(l, now) == l.expires # Forever /\ l.expires <= now

(* Mutant: every scope is compared with the root's. *)
Narrows_Root(links, i) == i > 1 => is_subset(links[i].scope, links[1].scope)

Narrows(links, i) == i > 1 => is_subset(links[i].scope, links[i - 1].scope)

(* resolve_key: DID -> key, for some DIDs. *)
verify_chain_with(links, max_depth, now, resolve_key) ==
    /\ links # <<>>
    /\ Len(links) <= max_depth
    /\ \A i \in DOMAIN links :
          /\ links[i].delegator \in DOMAIN resolve_key
          /\ links[i].signature = Sign(links[i], resolve_key[links[i].delegator])
          /\ ~LinkExpired(links[i], now)
          /\ Narrows(links, i)

(* Every holder's key is known; a key goes by its holder's name. *)
verify_chain(links, max_depth, now) ==
    verify_chain_with(links, max_depth, now, [h \in Holders |-> h])

has_permission(links, p) == \A i \in DOMAIN links : p \in links[i].scope

----------------------------------------------------------------------------
ChainInit == chain = <<>> /\ instant = 0

Unsigned(from, to, scope, expires, depth) ==
    [delegator |-> from, delegate |-> to, scope |-> scope, expires |-> expires,
     depth |-> depth, kind |-> "Unknown", signature |-> EmptySignature]

(* Somebody adds a link, signed by the delegator or by somebody else, with a
   depth that may be wrong. *)
AddLink(from, to, scope, expires, signer, depth) ==
    /\ Len(chain) < MaxLinks
    /\ LET l == Unsigned(from, to, scope, expires, depth)
       IN  chain' = Append(chain, [l EXCEPT !.signature = Sign(l, signer)])
    /\ UNCHANGED instant

Wait == instant < MaxInstant /\ instant' = instant + 1 /\ UNCHANGED chain

ChainNext ==
    \/ \E from, to, signer \in Holders, scope \in SUBSET Granted,
          expires \in {1, Forever}, depth \in {Len(chain), Len(chain) + 1} :
          AddLink(from, to, scope, expires, signer, depth)
    \/ Wait

ChainSpec == ChainInit /\ [][ChainNext]_chainVars

----------------------------------------------------------------------------
(* chain.rs `has_permission' "must appear in the leaf (last) link's scope, and
   scope must have narrowed properly through the chain": for a chain that builds
   and verifies, that is the leaf's scope exactly; so does every chain it begins
   with, of which no one can be left out, and what has failed by now never
   verifies later. *)
ChainsNarrow ==
    LET n == Len(chain)
        good(links) == build_chain_with_depth(links, MaxLinks) /\ verify_chain(links, MaxLinks, instant)
    IN  good(chain) =>
          /\ \A p \in Granted : has_permission(chain, p) <=> p \in chain[n].scope
          /\ \A k \in 1..(n - 1) :
                good(SubSeq(chain, 1, k)) /\ ~good(SubSeq(chain, k + 1, n))
          /\ \A earlier \in 0..instant : verify_chain(chain, MaxLinks, earlier)
=============================================================================
