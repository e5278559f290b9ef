------------------------------ MODULE MCLedger ------------------------------
(* Instances of DagLedger for TLC, and below of HLC, Merkle and Proofs.      *)
(* MCNext explores three scopes, picked in the initial state: nodes of two   *)
(* creators and of foreign ones delivered in any order under their own       *)
(* hashes; a few nodes delivered under any hash; and a few nodes of one      *)
(* creator marked committed in any order.                                    *)
EXTENDS DagLedger, HLC, Merkle, Proofs, TLC

VARIABLE scope

UnderOwnHash == \A r \in Replicas : \A h \in Stored(r) : store[r][h] = content[h]

InScope ==
    CASE scope = "delivery" -> UnderOwnHash /\ \A r \in Replicas : committed[r] = {}
      [] scope = "conflict" ->
           /\ Cardinality(Known) <= 3
           /\ \A r \in Replicas : committed[r] = {}
           /\ \A c \in Creators : clock[c].physical_ms = 0
      [] scope = "commitment" ->
           /\ UnderOwnHash
           /\ Cardinality(Known) <= 3
           /\ \A h \in Known : content[h].creator = CHOOSE c \in Creators : TRUE
           /\ \A c \in Creators : clock[c].physical_ms = 0

MCInit == Init /\ scope \in {"delivery", "conflict", "commitment"}

MCNext == Next /\ UNCHANGED scope /\ InScope'

HashSymmetry == Permutations(Hashes)

MCForeignStamps == {[physical_ms |-> 0, logical |-> 1], [physical_ms |-> 2, logical |-> 0]}

----------------------------------------------------------------------------
(* The DAG, the clocks, the trees and the proof systems share no state: the  *)
(* part picked in the initial state says which moves.                        *)
VARIABLE part

MCRemotes == {[physical_ms |-> 2, logical |-> LogicalMax - 1], [physical_ms |-> 4, logical |-> 0]}
MCSaturated == {[physical_ms |-> 1, logical |-> LogicalMax]}

(* x * y = z with z public, x * y = z with x public, x + 2y = z, x * x = 1. *)
Product == enforce_constraint(allocate_public(allocate(allocate(EmptySystem))),
                              from_variable(1), from_variable(2), from_variable(3))
Circuits ==
    {EmptySystem, Product, [Product EXCEPT !.public = <<1>>],
     enforce_constraint(allocate(allocate_public(allocate_public(EmptySystem))),
                        <<<<1, 1>>, <<2, 2>>>>, constant(1), from_variable(3)),
     enforce_constraint(allocate_public(allocate(allocate(EmptySystem))),
                        from_variable(1), from_variable(1), constant(1))}

(* Traces of one or two columns; the second column counts, or sums the first. *)
Traces == UNION {[1..n -> {<<x, y>> : x, y \in 0..(FieldSize - 1)} \cup {<<1>>}] : n \in 1..3}
Counts == <<[col |-> 2, curr |-> 1, next |-> FieldSize - 1], [col |-> 1, curr |-> 1, next |-> 0]>>

ProofSystemsBind ==
    /\ SnarkBinds(Circuits, [1..3 -> 0..2] \cup {<<1, 1>>})
    /\ StarkBinds(Traces, <<Counts>>, [expansion_factor |-> 2, num_queries |-> 2])
    /\ InferenceBinds({ModelCommitment(x, y, v) : x, y \in {1, 2}, v \in {1, 2}}, {1, 2})

(* Every DAG of up to four nodes with one genesis, in the order of its appends,
   under every order of the hashes. *)
Shapes(n) ==
    {P \in [1..n -> SUBSET (1..(n - 1))] :
        \A i \in 1..n : P[i] \subseteq 1..(i - 1) /\ (P[i] = {} => i = 1)}
TraversalsExact ==
    \A n \in 1..4 : \A P \in Shapes(n), rank \in Permutations(1..n) :
        AncestorsInOrder(P, 1..n, rank)

PartInit ==
    /\ part \in {"clocks", "dag", "lists", "maps", "proofs"}
    /\ part # "dag" => scope = "delivery"
    /\ MCInit /\ HlcInit /\ MerkleInit

PartNext ==
    /\ UNCHANGED part
    /\ \/ part = "clocks" /\ HlcNext /\ UNCHANGED <<vars, scope, merkleVars>>
       \/ part = "dag" /\ MCNext /\ UNCHANGED <<hlcVars, merkleVars>>
       \/ /\ \/ part = "lists" /\ MerkleNext /\ smt' = smt
             \/ part = "maps" /\ MerkleNext /\ leaves' = leaves
          /\ UNCHANGED <<vars, scope, hlcVars>>

PartSpec == PartInit /\ [][PartNext]_<<vars, scope, hlcVars, merkleVars, part>>

(* Merkle, Proofs, DagLedger: a proof is good for what it was made of and for
   nothing else; a node verifies under its own hash and its ancestors are listed
   in order. *)
ProofsExact ==
    /\ part = "dag" => NodesVerify
    /\ part = "lists" => ListProofsExact
    /\ part = "maps" => SparseProofsExact
    /\ part = "proofs" => ProofSystemsBind /\ TraversalsExact
=============================================================================
