---------------------------- MODULE MCConsensus ----------------------------
(* Instances of Consensus for TLC.  The run explores two scopes, picked in   *)
(* the initial state: one replica over two rounds, and two replicas that are *)
(* shown different votes of one round.                                       *)
EXTENDS Consensus, TLC

CONSTANTS v1, v2, v3, v4, x, n1, n2, r1, r2

VARIABLE scope

(* Certificates no replica returned: without any vote, and with one vote
   counted three times. *)
MCHandMade ==
    {[node |-> n, round |-> 0, votes |-> {}] : n \in {n1, n2}}
       \cup {[node |-> n, round |-> 1,
              votes |-> {[vote |-> [voter |-> x, round |-> 1, node |-> n], copy |-> i]
                            : i \in 0..2}] : n \in {n1, n2}}

Scopes == {[replicas |-> {r}, rounds |-> {0, 1}, commits |-> 2] : r \in Replicas}
            \cup {[replicas |-> Replicas, rounds |-> {0}, commits |-> 1]}

InScope ==
    \A r \in Replicas :
       /\ current_round[r] \in scope.rounds
       /\ Len(committed[r]) <= scope.commits
       /\ Cardinality(proposed[r]) <= 1
       /\ r \in scope.replicas \/ /\ current_round[r] = 0
                                  /\ pending[r] = {} /\ proposed[r] = {}
                                  /\ committed[r] = <<>>

MCInit == Init /\ scope \in Scopes

MCNext == Next /\ UNCHANGED scope /\ InScope'

MCSpec == MCInit /\ [][MCNext]_<<vars, scope>>

(* Validators, nodes and replicas are interchangeable. *)
Symmetry == Permutations(Validators) \cup Permutations(Nodes)
                \cup Permutations(Replicas)
=============================================================================
