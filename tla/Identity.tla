------------------------------ MODULE Identity ------------------------------
(***************************************************************************)
(* Identities, crates/exo-identity: the DID registry (did.rs), versioned    *)
(* verification keys (did_verification.rs), the key store                   *)
(* (key_management.rs), operator continuity (pace.rs), risk attestations    *)
(* (risk.rs) and the vault (vault.rs).                                      *)
(*                                                                         *)
(* A key is a number: generate_keypair hands out the next unused one.  A    *)
(* signature is known by the key that made it and what it is over.          *)
(***************************************************************************)
EXTENDS Integers, Sequences, FiniteSets, SequencesExt

CONSTANTS
    Subjects,   \* DIDs
    MaxKeys,    \* bound on the key pairs generated
    MaxMethods, \* bound on the verification methods of a document
    Successors, \* DIDs a PACE configuration names
    MaxValid    \* bound on validity periods and times

ASSUME IdentityAssumption == MaxKeys \in Nat \ {0} /\ MaxMethods \in Nat /\ MaxValid \in Nat

VARIABLES
    documents,  \* DidRegistry: did -> [public_keys, updated, revoked]
    methods,    \* verification methods of one document
    retired,    \* ids of the methods that were rotated away
    records,    \* KeyStore: did -> Vec of KeyRecord
    fresh,      \* keys generated so far
    config,     \* a PaceConfig
    level       \* its PaceState

idVars == <<documents, methods, retired, records, fresh, config, level>>

Sig(key, over) == <<key, over>>

----------------------------------------------------------------------------
(* did.rs *)
DidDocument == [public_keys : Seq(1..MaxKeys), updated : Nat, revoked : BOOLEAN]

resolve(did) == IF did \in DOMAIN documents /\ ~documents[did].revoked THEN {documents[did]} ELSE {}

(* The subject generates its first key pair. *)
register(did) ==
    /\ did \notin DOMAIN documents
    /\ fresh < MaxKeys
    /\ fresh' = fresh + 1
    /\ documents' = [d \in DOMAIN documents \cup {did} |->
          IF d = did THEN [public_keys |-> <<fresh'>>, updated |-> 0, revoked |-> FALSE]
          ELSE documents[d]]
    /\ UNCHANGED <<methods, retired, records, config, level>>

(* Any key the document ever had will do. *)
SignedByOne(did, proof, over) ==
    \E i \in DOMAIN documents[did].public_keys :
       proof = Sig(documents[did].public_keys[i], over)

revoke(did, proof) ==
    /\ did \in DOMAIN documents
    /\ SignedByOne(did, proof, did)
    /\ documents' = [documents EXCEPT ![did].revoked = TRUE]
    /\ UNCHANGED <<methods, retired, records, fresh, config, level>>

(* Mutant: a revoked document takes new keys. *)
Rotatable_Revoked(did) == did \in DOMAIN documents

Rotatable(did) == did \in DOMAIN documents /\ ~documents[did].revoked

(* The old keys stay. *)
rotate_key(did, new_key, proof) ==
    /\ Rotatable(did)
    /\ SignedByOne(did, proof, new_key)
    /\ documents' = [documents EXCEPT ![did].public_keys = Append(@, new_key), ![did].updated = @ + 1]
    /\ UNCHANGED <<methods, retired, records, fresh, config, level>>

RegistryStep ==
    \/ \E did \in Subjects : register(did)
    \/ \E did \in Subjects, k \in 1..fresh, d \in Subjects : revoke(did, Sig(k, d))
    \/ \E did \in Subjects, k, n \in 1..MaxKeys :
          /\ did \in DOMAIN documents /\ Len(documents[did].public_keys) < MaxKeys
          /\ rotate_key(did, n, Sig(k, n))

----------------------------------------------------------------------------
(* did_verification.rs; a method's id is its version, as rotation names it. *)
VerificationMethod ==
    [id : Nat, version : Nat, key : 1..MaxKeys, active : BOOLEAN]

First(id) == CHOOSE i \in DOMAIN methods :
    methods[i].id = id /\ \A j \in DOMAIN methods : methods[j].id = id => i <= j

(* Mutant: the last method of an id counts. *)
MethodOf_Last(id) == CHOOSE i \in DOMAIN methods :
    methods[i].id = id /\ \A j \in DOMAIN methods : methods[j].id = id => j <= i

MethodOf(id) == First(id)

HasMethod(id) == \E i \in DOMAIN methods : methods[i].id = id

verify_did_signature(id, message, signature) ==
    /\ HasMethod(id)
    /\ methods[MethodOf(id)].active
    /\ signature = Sig(methods[MethodOf(id)].key, message)

(* A method may be rotated again when it is no longer active, and the new one
   then has the number of an earlier one. *)
rotate_verification_key(old, key) ==
    LET i == First(old)
        n == methods[i].version + 1
    IN  /\ HasMethod(old)
        /\ Len(methods) < MaxMethods
        /\ methods' = Append([methods EXCEPT ![i].active = FALSE],
                             [id |-> n, version |-> n, key |-> key, active |-> TRUE])
        /\ retired' = retired \cup {old}
        /\ UNCHANGED <<documents, records, fresh, config, level>>

MethodStep == \E old \in 1..(MaxMethods + 1), key \in 1..MaxKeys : rotate_verification_key(old, key)

----------------------------------------------------------------------------
(* key_management.rs; created is the place in the order of creation, which is
   the key's number. *)
KeyStatus == {"Active", "Rotated", "Revoked", "Expired"}
KeyRecord == [public_key : 1..MaxKeys, status : KeyStatus, rotated_to : SUBSET (1..MaxKeys)]

ActiveRecord(key) == [public_key |-> key, status |-> "Active", rotated_to |-> {}]

RecordOf(did, key) == CHOOSE i \in DOMAIN records[did] : records[did][i].public_key = key
HasKey(did, key) == \E i \in DOMAIN records[did] : records[did][i].public_key = key

create_key(did) ==
    /\ fresh < MaxKeys
    /\ fresh' = fresh + 1
    /\ records' = [records EXCEPT ![did] = Append(@, ActiveRecord(fresh'))]
    /\ UNCHANGED <<documents, methods, retired, config, level>>

rotate_stored_key(did, old) ==
    LET i == RecordOf(did, old)
    IN  /\ HasKey(did, old)
        /\ records[did][i].status = "Active"
        /\ fresh < MaxKeys
        /\ fresh' = fresh + 1
        /\ records' = [records EXCEPT ![did] =
              Append([@ EXCEPT ![i].status = "Rotated", ![i].rotated_to = {fresh'}], ActiveRecord(fresh'))]
        /\ UNCHANGED <<documents, methods, retired, config, level>>

(* A rotated key can still be revoked. *)
revoke_key(did, key) ==
    LET i == RecordOf(did, key)
    IN  /\ HasKey(did, key)
        /\ records[did][i].status # "Revoked"
        /\ records' = [records EXCEPT ![did][i].status = "Revoked"]
        /\ UNCHANGED <<documents, methods, retired, fresh, config, level>>

active_key(did) ==
    LET active == {i \in DOMAIN records[did] : records[did][i].status = "Active"}
    IN  {records[did][i].public_key : i \in {j \in active : \A k \in active : k <= j}}

StoreStep ==
    \E did \in Subjects :
       \/ create_key(did)
       \/ \E key \in 1..fresh : rotate_stored_key(did, key) \/ revoke_key(did, key)

----------------------------------------------------------------------------
(* pace.rs *)
PaceState == <<"Normal", "AlternateActive", "ContingencyActive", "EmergencyActive">>
PaceConfig ==
    [primary : Successors, alternates : Seq(Successors), contingency : Seq(Successors),
     emergency : Seq(Successors)]

AllDids(c) == <<c.primary>> \o c.alternates \o c.contingency \o c.emergency

validate(c) ==
    /\ c.alternates # <<>> /\ c.contingency # <<>> /\ c.emergency # <<>>
    /\ \A i, j \in DOMAIN AllDids(c) : AllDids(c)[i] = AllDids(c)[j] => i = j

resolve_operator(c, l) ==
    CASE l = 1 -> c.primary
      [] l = 2 -> c.alternates[1]
      [] l = 3 -> c.contingency[1]
      [] l = 4 -> c.emergency[1]

escalate == level < 4 /\ level' = level + 1
deescalate == level > 1 /\ level' = level - 1
PaceStep ==
    /\ validate(config)
    /\ escalate \/ deescalate
    /\ UNCHANGED <<documents, methods, retired, records, fresh, config>>

----------------------------------------------------------------------------
(* risk.rs; the derived order puts Unassessed above Critical. *)
RiskLevel == [Minimal |-> 0, Low |-> 1, Medium |-> 2, High |-> 3, Critical |-> 4, Unassessed |-> 5]

signing_payload(a) == <<a.subject, a.attester, RiskLevel[a.level], a.evidence, a.timestamp, a.expiry>>

assess_risk(subject, attester, risk, evidence, now, validity, key) ==
    LET a == [subject |-> subject, attester |-> attester, level |-> risk, evidence |-> evidence,
              timestamp |-> now, expiry |-> now + validity]
    IN  [body |-> a, signature |-> Sig(key, signing_payload(a))]

verify_risk(att, key) == att.signature = Sig(key, signing_payload(att.body))
risk_expired(att, now) == now >= att.body.expiry

(* thresholds: operation -> maximal level, for some operations. *)
is_acceptable(thresholds, operation, risk) ==
    operation \in DOMAIN thresholds /\ RiskLevel[risk] <= RiskLevel[thresholds[operation]]

(* vault.rs: an AEAD opens under the key, nonce and data it was sealed with. *)
derive_key(secret, context) == <<secret, context>>
encrypt(key, plaintext, aad, nonce) == [nonce |-> nonce, box |-> <<key, nonce, aad, plaintext>>]
decrypt(key, ciphertext, aad) ==
    IF /\ ciphertext.box[1] = key
       /\ ciphertext.box[2] = ciphertext.nonce
       /\ ciphertext.box[3] = aad
    THEN {ciphertext.box[4]} ELSE {}

----------------------------------------------------------------------------
IdInit ==
    /\ documents = [d \in {} |-> {}]
    /\ methods = <<[id |-> 1, version |-> 1, key |-> 1, active |-> TRUE]>>
    /\ retired = {}
    /\ records = [d \in Subjects |-> <<>>]
    /\ fresh = 0
    /\ config \in [primary : Successors, alternates : {<<>>} \cup {<<o>> : o \in Successors},
                   contingency : {<<o>> : o \in Successors}, emergency : {<<o>> : o \in Successors}]
    /\ level = 1

IdNext == RegistryStep \/ MethodStep \/ StoreStep \/ PaceStep

IdSpec == IdInit /\ [][IdNext]_idVars

IdTypeOK ==
    /\ \A d \in DOMAIN documents : documents[d] \in DidDocument
    /\ methods \in Seq(VerificationMethod)
    /\ records \in [Subjects -> Seq(KeyRecord)]
    /\ config \in PaceConfig /\ level \in DOMAIN PaceState

----------------------------------------------------------------------------
(* What a step may not undo. *)
KeepsWithdrawn ==
    /\ \A d \in DOMAIN documents : documents[d].revoked => documents'[d] = documents[d]
    /\ \A d \in Subjects : \A i \in DOMAIN records[d] :
         /\ i <= Len(records'[d]) /\ records'[d][i].public_key = records[d][i].public_key
         /\ records[d][i].status # "Active" => records'[d][i].status # "Active"
         /\ records[d][i].status = "Revoked" => records'[d][i] = records[d][i]
         /\ \A k \in records'[d][i].rotated_to :
              \E j \in (i + 1)..Len(records'[d]) : records'[d][j].public_key = k

(* did.rs, key_management.rs: what was withdrawn stays withdrawn.  A revoked
   document never resolves or changes again; a key that left Active never comes
   back, and a revoked one stays revoked; no record is lost; a rotated key leads
   along rotated_to to a later record of the same DID. *)
WithdrawnForGood == [][KeepsWithdrawn]_idVars

(* did_verification.rs: once a method was rotated away, no signature verifies
   under its id, however often ids are given out anew; and what verifies was
   signed with a key some rotation installed and none withdrew. *)
RotatedNeverVerifies ==
    /\ \A id \in retired, key \in 1..MaxKeys :
          ~verify_did_signature(id, "message", Sig(key, "message"))
    /\ \A id \in 1..(MaxMethods + 1), key \in 1..MaxKeys :
          verify_did_signature(id, "message", Sig(key, "message")) =>
             \E i \in DOMAIN methods : methods[i].key = key /\ methods[i].active

(* pace.rs: with a valid configuration every level has an operator of its own,
   so escalating and de-escalating always changes who is in charge. *)
OwnOperator ==
    validate(config) => \A k, l \in 1..4 :
       resolve_operator(config, k) = resolve_operator(config, l) => k = l

(* The identities are of the types of their structs, keys that were rotated away
   verify nothing, and every PACE level has its own operator. *)
IdentitySound == IdTypeOK /\ RotatedNeverVerifies /\ OwnOperator

(* risk.rs, vault.rs: an attestation is of one subject, level and period, and
   expires after its validity; a box opens for one key and one DID only. *)
SealsHold ==
    \A a, b \in Subjects, k, l \in 1..2, n \in 0..MaxValid, v \in 1..MaxValid :
    \A risk, other \in DOMAIN RiskLevel :
       LET att == assess_risk(a, b, risk, "e", n, v, k)
       IN  /\ verify_risk(att, l) <=> k = l
           /\ verify_risk([att EXCEPT !.body.level = other], k) <=> risk = other
           /\ \A s \in Subjects : verify_risk([att EXCEPT !.body.subject = s], k) <=> s = a
           /\ \A t \in 0..(2 * MaxValid) : risk_expired(att, t) <=> t >= n + v
           /\ is_acceptable([op |-> risk], "op", "Unassessed") => risk = "Unassessed"
           /\ decrypt(derive_key(k, a), encrypt(derive_key(l, b), "m", a, n), b) # {} => k = l /\ a = b

----------------------------------------------------------------------------
(***************************************************************************)
(* Secret sharing over GF(256), crates/exo-identity/src/shamir.rs.          *)
(*                                                                         *)
(* A byte is the set of its bits, so exclusive or is the symmetric          *)
(* difference.  A secret is one byte: split and reconstruct treat the bytes *)
(* of a longer one alike.                                                   *)
(***************************************************************************)
CONSTANTS
    Secrets,     \* bytes to share
    Coeffs,      \* bytes the random generator may return
    MaxShares    \* bound on the number of shares

VARIABLES
    secret, coeffs,   \* the secret byte and the polynomial
    sharing,          \* [threshold, shares]
    collected         \* shares somebody has, in the order they came

shamirVars == <<secret, coeffs, sharing, collected>>

Byte == SUBSET (0..7)
Xor(a, b) == (a \ b) \cup (b \ a)
ByteOf(n) == {i \in 0..7 : (n \div (2^i)) % 2 = 1}

(* One round of the loop of gf256_mul. *)
Double(a) == Xor({i + 1 : i \in a \ {7}}, IF 7 \in a THEN {0, 1, 3, 4} ELSE {})

gf256_mul(a, b) ==
    LET shifted[i \in 0..7] == IF i = 0 THEN a ELSE Double(shifted[i - 1])
        sum[i \in 0..8] ==
            IF i = 0 THEN {}
            ELSE IF (i - 1) \in b THEN Xor(sum[i - 1], shifted[i - 1]) ELSE sum[i - 1]
    IN  sum[8]

(* a^254: seven squarings and six multiplications. *)
gf256_inv(a) ==
    LET power[i \in 1..7] ==   \* a^(2^i - 1)
            IF i = 1 THEN a ELSE gf256_mul(gf256_mul(power[i - 1], power[i - 1]), a)
    IN  IF a = {} THEN {} ELSE gf256_mul(power[7], power[7])

Valid(c) == c.threshold > 0 /\ c.shares > 0 /\ c.threshold <= c.shares

(* The polynomial at the share's index. *)
ShareAt(poly, x) ==
    LET at[i \in 0..Len(poly)] ==    \* <<sum of the first i terms, x^i>>
            IF i = 0 THEN <<{}, {0}>>
            ELSE <<Xor(at[i - 1][1], gf256_mul(poly[i], at[i - 1][2])), gf256_mul(at[i - 1][2], x)>>
    IN  at[Len(poly)][1]

split(poly, c) == [i \in 1..c.shares |-> [index |-> i, data |-> ShareAt(poly, ByteOf(i))]]

Basis(used, i) ==
    FoldLeft(LAMBDA b, j : IF i = j THEN b
                ELSE gf256_mul(b, gf256_mul(ByteOf(used[j].index),
                                            gf256_inv(Xor(ByteOf(used[j].index), ByteOf(used[i].index))))),
             {0}, [j \in DOMAIN used |-> j])

(* {} on an error; only the first threshold shares are used. *)
reconstruct(shares, c) ==
    LET used == SubSeq(shares, 1, c.threshold)
    IN  IF \/ ~Valid(c) \/ Len(shares) < c.threshold
           \/ \E i \in DOMAIN shares : shares[i].index = 0
           \/ \E i, j \in DOMAIN shares : i # j /\ shares[i].index = shares[j].index
        THEN {}
        ELSE {FoldLeft(LAMBDA v, i : Xor(v, gf256_mul(used[i].data, Basis(used, i))),
                       {}, [i \in DOMAIN used |-> i])}

ShamirInit ==
    /\ secret \in Secrets
    /\ \E t, n \in 0..MaxShares :
          /\ sharing = [threshold |-> t, shares |-> n]
          /\ coeffs \in {<<secret>> \o cs : cs \in [1..(t - 1) -> Coeffs]}
    /\ collected = <<>>

(* A holder hands over its share, perhaps a second time. *)
Collect(i) ==
    /\ Valid(sharing)
    /\ Len(collected) < MaxShares
    /\ collected' = Append(collected, split(coeffs, sharing)[i])
    /\ UNCHANGED <<secret, coeffs, sharing>>

ShamirNext == \E i \in 1..sharing.shares : Collect(i)

(* shamir.rs: any threshold of different shares, in any order, gives the secret
   back, and fewer or repeated ones give nothing; one share of a threshold of
   two is as likely for every other secret. *)
SharesSound ==
    /\ LET different == \A i, j \in DOMAIN collected : collected[i] = collected[j] => i = j
       IN  reconstruct(collected, sharing) =
             IF Valid(sharing) /\ Len(collected) >= sharing.threshold /\ different THEN {secret} ELSE {}
    /\ sharing.threshold = 2 /\ Len(collected) = 1 =>
          \A other \in Secrets :
             LET c == gf256_mul(Xor(other, collected[1].data), gf256_inv(ByteOf(collected[1].index)))
             IN  ShareAt(<<other, c>>, ByteOf(collected[1].index)) = collected[1].data
=============================================================================
