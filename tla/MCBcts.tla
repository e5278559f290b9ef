------------------------------- MODULE MCBcts -------------------------------
(* The two transaction libraries.  The scope, picked in the initial state,   *)
(* says what moves: the transaction of exo-core, with long logs of one actor *)
(* and one clock reading or with short logs of every actor and reading, or   *)
(* the transaction of exo-bcts with its pipeline.                            *)
EXTENDS BctsCore, BctsPipeline

CONSTANTS actor, time   \* who alone writes the long logs, and when

VARIABLE scope

CoreScopes ==
    {[actors |-> {actor}, times |-> {time}, length |-> MaxTransitions],
     [actors |-> Actors, times |-> Times, length |-> MaxEdited]}

PipelineScope == [actors |-> {}, times |-> {}, length |-> 0]

InScope ==
    /\ Len(transitions) <= scope.length
    /\ \A i \in 1..Len(transitions) : /\ transitions[i].actor_did \in scope.actors
                                     /\ transitions[i].timestamp \in scope.times

mc_vars == <<vars, tx_vars, scope>>

MCInit == Init /\ TxInit /\ scope \in CoreScopes \cup {PipelineScope}

CoreStep ==
    /\ scope # PipelineScope
    /\ Next
    /\ UNCHANGED <<tx_vars, scope>>
    /\ InScope'

PipelineStep ==
    /\ scope = PipelineScope
    /\ TxNext
    /\ UNCHANGED <<vars, scope>>

MCNext == CoreStep \/ PipelineStep

MCSpec ==
    /\ MCInit /\ [][MCNext]_mc_vars
    /\ WF_mc_vars(scope = PipelineScope /\ RunStep /\ UNCHANGED <<vars, scope>>)
=============================================================================
