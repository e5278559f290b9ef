----------------------------- MODULE Delegation -----------------------------
(***************************************************************************)
(* The registry of delegations, crates/exo-authority/src/delegation.rs,    *)
(* and the chains it resolves (chain.rs).                                  *)
(*                                                                         *)
(* A link's id is the digest of its fields, so a link is its own id.  Its  *)
(* scope, creation, expiry and kind are one `terms' value: the registry    *)
(* copies them and reads none of them.  The Vec of an index entry is a set *)
(* of <<place, link>> pairs, the place giving the order of insertion.      *)
(***************************************************************************)
EXTENDS Integers, FiniteSets, Sequences

CONSTANTS
    Dids,
    Terms,         \* (scope, created, expires, delegatee_kind) combinations
    MAX_DEPTH,     \* DEFAULT_MAX_DEPTH of chain.rs
    MaxLinkDepth,  \* bound on the recorded depth, which revocations let grow
    MaxPushes      \* bound on the length of an index Vec

ASSUME DelegationAssumption ==
    MAX_DEPTH \in Nat /\ MaxLinkDepth \in Nat /\ MaxPushes \in Nat

AuthorityLink ==
    [delegator : Dids, delegate : Dids, terms : Terms, depth : 0..MaxLinkDepth]

VARIABLES
    links,         \* the links by id
    by_delegator,  \* did -> Vec of link ids
    by_delegate    \* did -> Vec of link ids

regVars == <<links, by_delegator, by_delegate>>

Place == 1..MaxPushes
Vec == SUBSET (Place \X AuthorityLink)

Ids(v) == {e[2] : e \in v}

(* n is the place after the last one of v. *)
IsNext(v, n) ==
    /\ \A e \in v : e[1] < n
    /\ n = 1 \/ \E e \in v : e[1] = n - 1

Push(v, n, l) == v \cup {<<n, l>>}

Retain(v, l) == {e \in v : e[2] # l}

RegInit ==
    /\ links = {}
    /\ by_delegator = [d \in Dids |-> {}]
    /\ by_delegate  = [d \in Dids |-> {}]

----------------------------------------------------------------------------
(* DIDs that hold a delegation from d, found through the forward index. *)
Delegates(d) == {l.delegate : l \in Ids(by_delegator[d]) \cap links}

(* Mutant: only the direct delegates are looked at. *)
has_path_Direct(from, to) == from = to \/ to \in Delegates(from)

(* The search with its visited set finds `to' iff every set that holds `from'
   and all delegates of its members holds `to'. *)
has_path(from, to) ==
    \A C \in SUBSET Dids :
       from \in C /\ (\A d \in C : Delegates(d) \subseteq C) => to \in C

(* The depth after the oldest delegation to did. *)
compute_depth(did) ==
    IF by_delegate[did] = {} THEN 0
    ELSE LET first == CHOOSE e \in by_delegate[did] :
                         \A f \in by_delegate[did] : e[1] <= f[1]
         IN  IF first[2] \in links THEN first[2].depth + 1 ELSE 0

delegate(from, to, terms) ==
    LET l == [delegator |-> from, delegate |-> to, terms |-> terms,
              depth |-> compute_depth(from)]
    IN  /\ ~has_path(to, from)
        /\ l.depth <= MaxLinkDepth
        /\ links' = links \cup {l}
        /\ \E n \in Place : /\ IsNext(by_delegator[from], n)
                            /\ by_delegator' = [by_delegator EXCEPT ![from] = Push(@, n, l)]
        /\ \E n \in Place : /\ IsNext(by_delegate[to], n)
                            /\ by_delegate' = [by_delegate EXCEPT ![to] = Push(@, n, l)]

revoke_delegation(l) ==
    /\ l \in links
    /\ links' = links \ {l}
    /\ by_delegator' = [by_delegator EXCEPT ![l.delegator] = Retain(@, l)]
    /\ by_delegate'  = [by_delegate EXCEPT ![l.delegate] = Retain(@, l)]

RegNext ==
    \/ \E from, to \in Dids, terms \in Terms : delegate(from, to, terms)
    \/ \E l \in links : revoke_delegation(l)

RegSpec == RegInit /\ [][RegNext]_regVars

----------------------------------------------------------------------------
(* A link of the DFS leads to the target with k links at most. *)
Hits(search, k, l, target) ==
    l.delegate = target \/ search[k - 1, l.delegate] # <<>>

(* find_path_dfs: the first path, in index order, of at most k links. *)
find_path_dfs(target) ==
    LET search[k \in 0..MAX_DEPTH, current \in Dids] ==
          LET good == {e \in by_delegator[current] :
                          e[2] \in links /\ k > 0 /\ Hits(search, k, e[2], target)}
          IN  IF good = {} THEN <<>>
              ELSE LET l == (CHOOSE e \in good : \A f \in good : e[1] <= f[1])[2]
                   IN  IF l.delegate = target THEN <<l>>
                       ELSE <<l>> \o search[k - 1, l.delegate]
    IN  search

(* find_chain renumbers the depths of the path, which makes build_chain's test
   of them succeed.  <<>> is None: build_chain refuses an empty chain. *)
find_chain(from, to) ==
    LET path == find_path_dfs(to)[MAX_DEPTH, from]
    IN  [i \in DOMAIN path |-> [path[i] EXCEPT !.depth = i - 1]]

----------------------------------------------------------------------------
TypeOK ==
    /\ links \subseteq AuthorityLink
    /\ by_delegator \in [Dids -> Vec]
    /\ by_delegate \in [Dids -> Vec]

(* delegation.rs "CircularDelegation if this would create a cycle": after any
   history of delegations and revocations, every non-empty set of DIDs has a
   member that delegates to no member. *)
NoCircularDelegation ==
    \A T \in SUBSET Dids :
       T # {} => \E d \in T : \A l \in links : l.delegator = d => l.delegate \notin T

(* The two indices list exactly the active links of a DID, also when the same
   delegation was made twice and then revoked. *)
IndexExact ==
    \A d \in Dids :
       /\ Ids(by_delegator[d]) = {l \in links : l.delegator = d}
       /\ Ids(by_delegate[d])  = {l \in links : l.delegate = d}

(* delegation.rs, `delegate' and `revoke_delegation' together: what the search
   for a cycle follows is every active link, and no cycle gets past it. *)
DelegationsSound == NoCircularDelegation /\ IndexExact

(* DIDs at the end of a path of exactly k active links from `from'. *)
ReachIn(from) ==
    LET reach[k \in 0..MAX_DEPTH] ==
          IF k = 0 THEN {from}
          ELSE {l.delegate : l \in {m \in links : m.delegator \in reach[k - 1]}}
    IN  reach

(* find_chain finds a chain whenever one of at most MAX_DEPTH links exists,
   and what it returns starts at `from', ends at `to', has no gap, and consists
   of active links. *)
FindChainExact ==
    \A from, to \in Dids :
       LET chain == find_chain(from, to)
           n == Len(chain)
       IN  /\ (n > 0) <=> \E k \in 1..MAX_DEPTH : to \in ReachIn(from)[k]
           /\ n > 0 => /\ n <= MAX_DEPTH
                       /\ chain[1].delegator = from
                       /\ chain[n].delegate = to
                       /\ \A i \in 2..n : chain[i - 1].delegate = chain[i].delegator
                       /\ \A i \in 1..n : \E l \in links : [l EXCEPT !.depth = i - 1] = chain[i]
=============================================================================
