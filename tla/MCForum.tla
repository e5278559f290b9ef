------------------------------ MODULE MCForum -------------------------------
(* Instances of ForumDecision, ForumPowers, ForumRecords and ForumBindings   *)
(* for TLC.  They share no state, and within each the parts below do not     *)
(* either, so MCSpec explores them one at a time: the scope picked in the    *)
(* initial state says which part moves and how far.                          *)
(*                                                                           *)
(* Votes are cast by the voters 1, 2, 3... and in the order of BallotIndex:  *)
(* nothing distinguishes voters or depends on the order of the votes, so     *)
(* every tally is reached, each once.                                        *)
EXTENDS ForumBindings

CONSTANTS
    MaxVotes,    \* votes cast in a scope about votes
    BallotKinds  \* the kinds of actor that vote in it

VARIABLE scope

Ballots(c, n) == [part |-> "votes", class |-> c, votes |-> n, receipts |-> 0,
                  items |-> 1, challenges |-> 0]

Scopes ==
    {Ballots(c, MaxVotes) : c \in human_required_classes}
    \cup {Ballots(c, 5) : c \in DecisionClass \ human_required_classes}
    \cup {[part |-> "life", class |-> "Routine", votes |-> 1,
           receipts |-> MaxReceipts, items |-> MaxItems, challenges |-> 0],
          [part |-> "challenges", class |-> "Routine", votes |-> 0,
           receipts |-> 0, items |-> 0, challenges |-> MaxChallenges]}
    \cup {[part |-> p, class |-> "Routine"] :
             p \in {"emergencies", "sanctions", "matrix", "corpus", "records", "host"}}

BallotIndex(v) ==
    3 * (IF is_human_vote(v) THEN 0 ELSE Rank(v.actor_kind)) +
        CASE v.choice = "Reject" -> 0 [] v.choice = "Abstain" -> 1 [] OTHER -> 2

NextBallot ==
    \A v \in votes' \ votes :
        /\ v.voter_did <= Cardinality(votes) + 1
        /\ v.actor_kind \in BallotKinds
        /\ \A w \in votes : BallotIndex(w) <= BallotIndex(v)

DecisionInScope ==
    /\ Cardinality(votes) <= scope.votes
    /\ Len(receipt_chain) <= scope.receipts
    /\ authority_chain <= scope.items
    /\ evidence_bundle <= (IF scope.part = "votes" THEN 0 ELSE scope.items)
    /\ Len(challenges) <= scope.challenges

(* The ratio metrics are alike but for their counters, and so are the two    *)
(* latencies; proposals touch nothing else.                                  *)
RecordsInScope ==
    /\ Len(proposals) <= 2
    /\ proposals = <<>> \/ told = <<>>
    /\ \A i \in DOMAIN told :
          told[i][1] \in RatioMetric => \/ Len(told) = 1
                                       \/ told[i][1] \in {"authority", "self_mod"}

(* Copies of one kind: of a constitution amended once, and of decisions of   *)
(* one class, on which two voters cast a vote each or which go on to their   *)
(* end.                                                                      *)
HostInScope ==
    /\ Cardinality({x.kind : x \in held}) <= 1
    /\ \A x \in held : x.kind = "corpus" => x.amendment_count <= 1
    /\ \A x, y \in held : x.kind = "decision" => x.class = y.class
    /\ \A x \in held : x.kind = "decision" =>
          /\ x.class \in {"Routine", "Strategic"}
          /\ \A v \in x.votes : /\ v.voter_did \in {1, 2} /\ v.choice # "Abstain"
                                /\ v.actor_kind \in {"Human", "Operational"}
          /\ x.votes # {} \/ x.evidence_bundle > 0 => Len(x.receipt_chain) <= 1

(* Up to three delegations in all, each of some class. *)
MatrixInScope ==
    LET entries == UNION {{did} \X delegations[did] : did \in Dids}
    IN  /\ Cardinality(entries) <= 3
        /\ \A e \in entries : e[2][2].decision_classes # {}

AnyArticle == CHOOSE article \in Article : TRUE

MCInit ==
    /\ Init
    /\ PowersInit
    /\ RecordsInit
    /\ scope \in Scopes
    /\ scope.part # "host" => held = {}
    /\ HostInit
    /\ class = scope.class
    /\ scope.part # "corpus" => corpus.articles = <<AnyArticle>>

MCNext ==
    /\ UNCHANGED scope
    /\ \/ /\ scope.part \in {"votes", "life", "challenges"}
          /\ Next
          /\ DecisionInScope'
          /\ NextBallot
          /\ UNCHANGED <<powers, records, held>>
       \/ /\ scope.part = "emergencies" /\ EmergencyStep /\ UNCHANGED <<vars, records, held>>
       \/ /\ scope.part = "sanctions" /\ SanctionStep /\ Len(sanctions') <= 2
          /\ UNCHANGED <<vars, records, held>>
       \/ /\ scope.part = "matrix" /\ MatrixStep /\ MatrixInScope'
          /\ UNCHANGED <<vars, records, held>>
       \/ /\ scope.part = "corpus" /\ CorpusStep /\ UNCHANGED <<vars, records, held>>
       \/ /\ scope.part = "records" /\ RecordsNext /\ RecordsInScope'
          /\ UNCHANGED <<vars, powers, held>>
       \/ /\ scope.part = "host" /\ HostNext /\ HostInScope'
          /\ UNCHANGED <<vars, powers, records>>

MCSpec == MCInit /\ [][MCNext]_<<vars, powers, records, held, scope>>

(* ForumBindings, ForumRecords: what a host of the bindings holds is sound,  *)
(* and the percentiles of what was reported are right.                       *)
HostSound ==
    /\ scope.part = "host" => HostCopiesSound
    /\ scope.part = "records" => PercentilesExact
=============================================================================
