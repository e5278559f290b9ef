--------------------------- MODULE RoundDecision ---------------------------
(***************************************************************************)
(* What a replica's finality promises, whatever the votes and certificates *)
(* are: it decides at most one node in a round, and a decision is never    *)
(* undone.  Rounds may stay undecided and may be decided in any order.     *)
(***************************************************************************)
CONSTANTS Replicas, Rounds, Nodes

VARIABLE decided   \* set of <<replica, round, node>> triples

Undecided(r, rd) == \A n \in Nodes : <<r, rd, n>> \notin decided

Init == decided = {}

Decide(r, rd, n) ==
    /\ Undecided(r, rd)
    /\ decided' = decided \cup {<<r, rd, n>>}

Next == \E r \in Replicas, rd \in Rounds, n \in Nodes : Decide(r, rd, n)

Spec == Init /\ [][Next]_decided
=============================================================================
