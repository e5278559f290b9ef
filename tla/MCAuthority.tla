---------------------------- MODULE MCAuthority -----------------------------
(* Instances of ChainCache (with Delegation) for TLC, and below of           *)
(* ChainVerify, Identity and IdentityBindings.  MCNext explores two          *)
(* scopes, picked in the initial state: the registry alone over all DIDs,    *)
(* and the cache beside a registry of three DIDs that each delegate and      *)
(* receive at most once, and that only revokes once the cache is in use.     *)
EXTENDS ChainCache, IdentityBindings, TLC

VARIABLE scope

Scopes == {[dids |-> Dids, pushes |-> 2, calls |-> 0]}
            \cup {[dids |-> D, pushes |-> 1, calls |-> MaxNow] :
                     D \in {S \in SUBSET Dids : Cardinality(S) = 3}}

InScope ==
    /\ \A d \in Dids :
          LET room == IF d \in scope.dids THEN scope.pushes ELSE 0
          IN  /\ Cardinality(by_delegator[d]) <= room
              /\ Cardinality(by_delegate[d]) <= room
    /\ now <= scope.calls
    /\ just_invalidated \in IF scope.calls = 0 THEN {NoDid} ELSE scope.dids \cup {NoDid}
    /\ scope.calls = 0 => found = {}
    /\ scope.calls > 0 => \A l \in links : l.depth <= 1

MCInit == Init /\ scope \in Scopes

MCNext ==
    /\ Next
    /\ UNCHANGED scope
    /\ InScope'
    /\ now > 0 => links' \subseteq links

DidSymmetry == Permutations(Dids)

----------------------------------------------------------------------------
(* The delegations, ChainVerify, Identity and the bindings over them         *)
(* share no state: the part picked in the initial state says which moves.    *)
VARIABLE part

elseVars == <<sigVars, chainVars, idVars, shamirVars>>

MCSecrets == {ByteOf(0), ByteOf(1), ByteOf(131), ByteOf(255)}
MCCoeffs == {ByteOf(0), ByteOf(29), ByteOf(202)}
OneConfig ==
    LET op == CHOOSE x \in Successors : TRUE
    IN  [primary |-> op, alternates |-> <<>>, contingency |-> <<op>>, emergency |-> <<op>>]

PartInit ==
    /\ part \in {"delegations", "signatures", "chains", "registry", "methods", "store", "pace", "shamir"}
    /\ part # "signatures" => signature = EmptySignature
    /\ part # "pace" => config = OneConfig
    /\ part # "shamir" => secret = ByteOf(0) /\ coeffs = <<secret>>
          /\ sharing = [threshold |-> 0, shares |-> 0]
    /\ part # "delegations" => scope = CHOOSE x \in Scopes : x.calls = 0
    /\ MCInit
    /\ SigInit /\ ChainInit /\ IdInit /\ ShamirInit

(* Only a chain that is good so far is made longer. *)
GrowGood ==
    chain # <<>> =>
       build_chain_with_depth(chain, MaxLinks) /\ verify_chain(chain, MaxLinks, instant)

PartNext ==
    /\ UNCHANGED part
    /\ \/ part = "delegations" /\ MCNext /\ UNCHANGED elseVars
       \/ /\ UNCHANGED <<vars, scope>>
          /\ \/ /\ part = "signatures" /\ SigNext
                /\ UNCHANGED <<chainVars, idVars, shamirVars>>
             \/ /\ part = "chains" /\ GrowGood /\ ChainNext
                /\ UNCHANGED <<sigVars, idVars, shamirVars>>
             \/ /\ \/ part = "registry" /\ RegistryStep
                   \/ part = "methods" /\ MethodStep
                   \/ part = "store" /\ StoreStep
                   \/ part = "pace" /\ PaceStep
                /\ UNCHANGED <<sigVars, chainVars, shamirVars>>
             \/ /\ part = "shamir" /\ ShamirNext
                /\ UNCHANGED <<sigVars, chainVars, idVars>>

(* Delegation, ChainVerify, Identity: a chain is found exactly when one
   short enough exists, what is signed, attested, sealed or shared is good for
   that and for nothing else, a chain that verifies never grants more further
   down, and a host that goes through the bindings sees the same. *)
ChainsSealed ==
    /\ part = "delegations" => FindChainExact
    /\ part = "signatures" => SignaturesBind
    /\ part = "signatures" /\ signature = EmptySignature =>
          SealsHold /\ HostSignaturesBind /\ HostAttestationsUnverifiable
    /\ part = "chains" => ChainsNarrow /\ HostChainsAgree
    /\ part = "pace" => HostPaceAgrees
    /\ part = "shamir" => SharesSound
    /\ part = "shamir" /\ collected = <<>> => HostSharesSound

PartSpec == PartInit /\ [][PartNext]_<<vars, scope, elseVars, part>>
=============================================================================
