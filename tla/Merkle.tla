------------------------------- MODULE Merkle -------------------------------
(***************************************************************************)
(* The Merkle structures: the list tree of crates/exo-core/src/hash.rs, the *)
(* mountain range, the sparse tree and the checkpoint over their roots of   *)
(* crates/exo-dag (mmr.rs, smt.rs, checkpoint.rs).                          *)
(*                                                                         *)
(* A digest is the tuple of what is hashed, so it never collides.  Keys of  *)
(* the sparse tree have KeyBits bits instead of 256.                        *)
(***************************************************************************)
EXTENDS Integers, Sequences, FiniteSets

CONSTANTS
    Data,       \* leaf hashes and values
    MaxLeaves,  \* bound on the leaves appended
    KeyBits     \* TREE_DEPTH

ASSUME MerkleAssumption == MaxLeaves \in Nat /\ KeyBits \in Nat \ {0}

VARIABLES
    leaves,   \* the leaves of the mountain range, oldest first
    peaks,    \* its peaks
    smt       \* the sparse tree: key -> value, for some keys

merkleVars == <<leaves, peaks, smt>>

Digest(tag, parts) == <<tag>> \o parts
Leaf(d) == Digest("leaf", <<d>>)
hash_pair(left, right) == Digest("node", <<left, right>>)
NoHash == <<>>

----------------------------------------------------------------------------
(* hash.rs: a level of odd length has its last node doubled. *)
Level(nodes) ==
    [i \in 1..((Len(nodes) + 1) \div 2) |->
        hash_pair(nodes[2 * i - 1], IF 2 * i <= Len(nodes) THEN nodes[2 * i] ELSE nodes[2 * i - 1])]

(* The levels from the leaves to the root; a list of n leaves has at most n. *)
Levels(nodes) ==
    LET level[k \in 1..Len(nodes)] ==
            IF k = 1 THEN nodes ELSE IF Len(level[k - 1]) = 1 THEN level[k - 1] ELSE Level(level[k - 1])
        height == CHOOSE k \in 1..Len(nodes) :
                     Len(level[k]) = 1 /\ \A j \in 1..(k - 1) : Len(level[j]) > 1
    IN  [k \in 1..height |-> level[k]]

merkle_root(nodes) ==
    IF nodes = <<>> THEN NoHash ELSE Levels(nodes)[Len(Levels(nodes))][1]

(* The place, from 0, of a leaf's ancestor k levels up. *)
Ancestor(index, k) == index \div (2^k)

(* Mutant: the last node of an odd level has no sibling but its neighbour. *)
Sibling_Neighbour(nodes, i) ==
    IF i % 2 = 0 /\ i + 2 <= Len(nodes) THEN nodes[i + 2] ELSE IF i = 0 THEN nodes[1] ELSE nodes[i]

Sibling(nodes, i) ==
    IF i % 2 = 1 THEN nodes[i] ELSE IF i + 2 <= Len(nodes) THEN nodes[i + 2] ELSE nodes[i + 1]

merkle_proof(nodes, index) ==
    [k \in 1..(Len(Levels(nodes)) - 1) |-> Sibling(Levels(nodes)[k], Ancestor(index, k - 1))]

(* The hash a path of siblings leads to; right[k] says whether the node at the
   k-th step is a right child. *)
Climb(leaf, siblings, right) ==
    LET up[k \in 0..Len(siblings)] ==
            IF k = 0 THEN leaf
            ELSE IF right[k] THEN hash_pair(siblings[k], up[k - 1]) ELSE hash_pair(up[k - 1], siblings[k])
    IN  up[Len(siblings)]

verify_merkle_proof(root, leaf, siblings, index) ==
    Climb(leaf, siblings, [k \in DOMAIN siblings |-> Ancestor(index, k - 1) % 2 = 1]) = root

(* core_bindings.rs: an index out of range is an error. *)
wasm_merkle_root(nodes) == merkle_root(nodes)
wasm_merkle_proof(nodes, index) ==
    IF index < Len(nodes) THEN {merkle_proof(nodes, index)} ELSE {}
wasm_verify_merkle_proof(root, leaf, siblings, index) ==
    verify_merkle_proof(root, leaf, siblings, index)

----------------------------------------------------------------------------
(* mmr.rs; nodes is the tree of a peak in heap order. *)
Peak(hash, height, nodes) == [hash |-> hash, height |-> height, nodes |-> nodes]
from_leaf(h) == Peak(h, 0, <<h>>)

Depth(i) == CHOOSE k \in 0..MaxLeaves : 2^k <= i /\ i < 2^(k + 1)

(* merge with copy_subtree: node i of the new tree, at depth k, is node i - 2^(k-1)
   of the left half's tree or i - 2^k of the right half's. *)
Merged(left, right) ==
    Peak(hash_pair(left.hash, right.hash), left.height + 1,
         [i \in 1..(2 * Len(left.nodes) + 1) |->
             IF i = 1 THEN hash_pair(left.hash, right.hash)
             ELSE LET k == Depth(i)
                  IN  IF i < 2^k + 2^(k - 1) THEN left.nodes[i - 2^(k - 1)] ELSE right.nodes[i - 2^k]])

(* The new peak swallows the peaks of its height, last first. *)
Absorb(ps, h) ==
    LET absorbed[k \in 0..Len(ps)] ==
            IF k = 0 THEN from_leaf(h)
            ELSE LET last == ps[Len(ps) - k + 1]
                     p == absorbed[k - 1]
                 IN  IF last.height = p.height THEN Merged(last, p) ELSE p
        swallowed == CHOOSE k \in 0..Len(ps) :
             /\ k = Len(ps) \/ ps[Len(ps) - k].height # absorbed[k].height
             /\ \A j \in 0..(k - 1) : ps[Len(ps) - j].height = absorbed[j].height
    IN  Append(SubSeq(ps, 1, Len(ps) - swallowed), absorbed[swallowed])

mmr_append(d) ==
    /\ Len(leaves) < MaxLeaves
    /\ leaves' = Append(leaves, d)
    /\ peaks' = Absorb(peaks, Leaf(d))
    /\ UNCHANGED smt

PeakHashes(ps) == [i \in DOMAIN ps |-> ps[i].hash]

bag_peaks(hashes) ==
    CASE hashes = <<>> -> Digest("empty", <<>>)
      [] Len(hashes) = 1 -> hashes[1]
      [] OTHER -> Digest("peaks", <<hashes>>)

mmr_root == bag_peaks(PeakHashes(peaks))

(* Leaves before the i-th peak. *)
Offset(ps, i) ==
    LET before[k \in 0..Len(ps)] == IF k = 0 THEN 0 ELSE before[k - 1] + 2^(ps[k].height)
    IN  before[i - 1]

(* proof_path: the siblings from the leaf up, in heap order. *)
proof_path(p, local) ==
    LET start == 2^(p.height) + local    \* heap place, from 1
    IN  [k \in 1..p.height |->
            LET i == start \div (2^(k - 1)) IN p.nodes[IF i % 2 = 0 THEN i + 1 ELSE i - 1]]

(* A position beyond the leaves is proved as if it were the only one. *)
mmr_prove(position) ==
    IF position >= Len(leaves)
    THEN [siblings |-> <<>>, peak_index |-> 1, peaks |-> PeakHashes(peaks)]
    ELSE LET i == CHOOSE j \in DOMAIN peaks :
                     Offset(peaks, j) <= position /\ position < Offset(peaks, j) + 2^(peaks[j].height)
         IN  [siblings |-> proof_path(peaks[i], position - Offset(peaks, i)),
              peak_index |-> i, peaks |-> PeakHashes(peaks)]

(* Of the position only the place within its peak is looked at. *)
mmr_verify(root, d, position, proof) ==
    /\ proof.peaks # <<>>
    /\ proof.peak_index \in DOMAIN proof.peaks
    /\ LET local == position % (2^(Len(proof.siblings)))
       IN  Climb(Leaf(d), proof.siblings,
                 [k \in DOMAIN proof.siblings |-> (local \div (2^(k - 1))) % 2 = 1])
             = proof.peaks[proof.peak_index]
    /\ bag_peaks(proof.peaks) = root

----------------------------------------------------------------------------
(* smt.rs; a key is a sequence of bits, the first one at the root. *)
Keys == [1..KeyBits -> BOOLEAN]
Paths == UNION {[1..n -> BOOLEAN] : n \in 0..KeyBits}

default_hash[level \in 0..KeyBits] ==
    IF level = 0 THEN Digest("none", <<>>) ELSE hash_pair(default_hash[level - 1], default_hash[level - 1])

has_leaf_with_prefix(tree, path) ==
    \E key \in DOMAIN tree : \A i \in DOMAIN path : key[i] = path[i]

compute_node(tree) ==
    LET node[path \in Paths] ==
            IF Len(path) = KeyBits
            THEN IF path \in DOMAIN tree THEN Leaf(tree[path]) ELSE default_hash[0]
            ELSE IF ~has_leaf_with_prefix(tree, path) THEN default_hash[KeyBits - Len(path)]
            ELSE hash_pair(node[Append(path, FALSE)], node[Append(path, TRUE)])
    IN  node

smt_root(tree) == compute_node(tree)[<<>>]

smt_insert(key, value) ==
    /\ smt' = [k \in DOMAIN smt \cup {key} |-> IF k = key THEN value ELSE smt[k]]
    /\ UNCHANGED <<leaves, peaks>>

sibling_hash(tree, key, depth) ==
    compute_node(tree)[[SubSeq(key, 1, depth) EXCEPT ![depth] = ~@]]

smt_prove(tree, key) == [i \in 1..KeyBits |-> sibling_hash(tree, key, KeyBits - i + 1)]

(* value is an option. *)
smt_verify(root, key, value, siblings) ==
    /\ Len(siblings) = KeyBits
    /\ Climb(IF value = {} THEN default_hash[0] ELSE Leaf(CHOOSE v \in value : TRUE),
             siblings, [k \in 1..KeyBits |-> key[KeyBits - k + 1]]) = root

----------------------------------------------------------------------------
(* checkpoint.rs: all parts but the frontier have a fixed length. *)
checkpoint_signing_preimage(cp) ==
    <<"EXOCHAIN-CHECKPOINT-v1", cp.event_root, cp.state_root, cp.height, cp.finalized_events>> \o cp.frontier

----------------------------------------------------------------------------
MerkleInit == leaves = <<>> /\ peaks = <<>> /\ smt = [k \in {} |-> {}]
MerkleNext ==
    \/ \E d \in Data : mmr_append(d)
    \/ \E key \in Keys, d \in Data : smt_insert(key, d)

----------------------------------------------------------------------------
(* hash.rs, mmr.rs: after any appends, the proof of a position is good for the
   leaf there and for no other; the peaks are the perfect trees the number of
   leaves has bits, so the root tells apart any two histories of one length. *)
ListProofsExact ==
    /\ \A i \in DOMAIN leaves, d \in Data :
          LET listed == [j \in DOMAIN leaves |-> Leaf(leaves[j])]
          IN  /\ \A siblings \in wasm_merkle_proof(listed, i - 1) :
                    wasm_verify_merkle_proof(wasm_merkle_root(listed), Leaf(d), siblings, i - 1)
                       <=> d = leaves[i]
              /\ (wasm_merkle_proof(listed, i) = {}) <=> i = Len(leaves)
              /\ mmr_verify(mmr_root, d, i - 1, mmr_prove(i - 1)) <=> d = leaves[i]
    /\ \A i \in 2..Len(peaks) : peaks[i].height < peaks[i - 1].height
    /\ Offset(peaks, Len(peaks) + 1) = Len(leaves)

(* smt.rs: a proof, of a value or of absence, is good for what the tree holds
   under the key and for nothing else, and a key never touched leaves no trace. *)
SparseProofsExact ==
    \A key \in Keys, value \in {{}} \cup {{d} : d \in Data} :
       smt_verify(smt_root(smt), key, value, smt_prove(smt, key)) <=>
          value = (IF key \in DOMAIN smt THEN {smt[key]} ELSE {})
=============================================================================
